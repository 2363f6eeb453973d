----------------------------- MODULE TimerProofs -----------------------------
(***************************************************************************)
(* Proofs about Timer and the heap it keeps its timers in, for any set of  *)
(* timers, delays and periods. A heap is described by its layout, a map    *)
(* from the numbers of the places to the timers in them; the operations on *)
(* links are then exchanges of two places.                                 *)
(***************************************************************************)
EXTENDS Timer, FiniteSetTheorems, SequenceTheorems, WellFoundedInduction, TLAPS

(* The heap h holds the timers of S, each in one place of the layout a: an *)
(* empty place holds Nil, and the links lead from place k to the places    *)
(* 2k and 2k + 1 and back.                                                 *)
Placed(h, S, a) ==
    /\ h \in Heaps /\ S \in SUBSET Timers /\ a \in [Nat -> Ref]
    /\ \A k \in Nat : k \in 1..h.cnt => a[k] \in S
    /\ \A k \in Nat : k \notin 1..h.cnt => a[k] = Nil
    /\ \A i, j \in 1..h.cnt : a[i] = a[j] => i = j
    /\ \A t \in S : \E k \in 1..h.cnt : a[k] = t

Laid(h, S, a) ==
    /\ Placed(h, S, a)
    /\ h.root = a[1]
    /\ \A k \in Nat : k >= 1 => h.l[a[k]] = a[2 * k]
    /\ \A k \in Nat : k >= 1 => h.r[a[k]] = a[2 * k + 1]
    /\ \A k \in Nat : k >= 1 => (k <= h.cnt => h.p[a[k]] = a[k \div 2])

LEMMA Halves ==
    /\ \A k \in Nat : (2 * k) \div 2 = k /\ (2 * k + 1) \div 2 = k
    /\ \A k \in Nat : (2 * k) % 2 = 0 /\ (2 * k + 1) % 2 = 1
    /\ \A k \in Nat : k \div 2 \in Nat /\ (k = 2 * (k \div 2) \/ k = 2 * (k \div 2) + 1)
    /\ \A k \in Nat : k % 2 = 1 <=> k = 2 * (k \div 2) + 1
  OBVIOUS

LEMMA LeastOf ==
    ASSUME NEW S \in SUBSET Nat, S # {}
    PROVE  \E i \in S : \A j \in S : i <= j
<1>1. PICK R : R = OpToRel(<, Nat)
  BY Zenon
<1>2. IsWellFoundedOn(R, Nat)
  BY <1>1, NatLessThanWellFounded, Zenon
<1>3. PICK i \in S : \A j \in Nat : <<j, i>> \in R => j \notin S
  BY <1>2, WFMin
<1>4. \A j \in S : ~ (j < i)
  BY <1>1, <1>3 DEF OpToRel
<1> QED
  BY <1>3, <1>4

(* What every layout has.                                                  *)
LEMMA LaidLinks ==
    ASSUME NEW h, NEW S, NEW a, Laid(h, S, a)
    PROVE  /\ h \in Heaps /\ h.cnt \in Nat /\ h.root \in Ref
           /\ h.p \in [Ref -> Ref] /\ h.l \in [Ref -> Ref] /\ h.r \in [Ref -> Ref]
           /\ Nil \in Ref /\ Nil \notin Timers /\ Timers \subseteq Ref
           /\ \A k \in Nat : a[k] \in Ref
           /\ a[0] = Nil /\ h.l[Nil] = Nil /\ h.r[Nil] = Nil
           /\ \A k \in Nat : a[k] # Nil <=> k \in 1..h.cnt
           /\ \A k \in Nat : k > h.cnt => a[k] = Nil
           /\ \A k \in Nat : k \in 1..h.cnt => a[k] \in Timers
           /\ \A i, j \in Nat : a[i] # Nil /\ a[i] = a[j] => i = j
<1>1. Placed(h, S, a)
  BY DEF Laid
<1>2. /\ h \in Heaps /\ h.cnt \in Nat /\ h.root \in Ref
      /\ h.p \in [Ref -> Ref] /\ h.l \in [Ref -> Ref] /\ h.r \in [Ref -> Ref]
  BY <1>1 DEF Placed, Heaps
<1>3. Nil \in Ref /\ Nil \notin Timers /\ Timers \subseteq Ref
  BY TimerAssumption DEF Ref
<1>4. /\ \A k \in Nat : a[k] \in Ref
      /\ \A k \in Nat : k \in 1..h.cnt => a[k] \in Timers
      /\ \A k \in Nat : k \notin 1..h.cnt => a[k] = Nil
  BY <1>1 DEF Placed
<1>5. \A k \in Nat : a[k] # Nil <=> k \in 1..h.cnt
  BY <1>3, <1>4
<1>6. a[0] = Nil /\ \A k \in Nat : k > h.cnt => a[k] = Nil
  BY <1>2, <1>4
<1>7. PICK k \in Nat : k = h.cnt + 1
  BY <1>2
<1>8. a[k] = Nil /\ a[2 * k] = Nil /\ a[2 * k + 1] = Nil
  BY <1>2, <1>6, <1>7
<1>9. h.l[Nil] = Nil /\ h.r[Nil] = Nil
  <2>1. k >= 1
    BY <1>2, <1>7
  <2> QED
    BY <1>8, <2>1 DEF Laid
<1>10. \A i, j \in Nat : a[i] # Nil /\ a[i] = a[j] => i = j
  BY <1>1, <1>5 DEF Placed
<1> QED
  BY <1>2, <1>3, <1>4, <1>5, <1>6, <1>9, <1>10

(* The way to a place by the bits of its number leads to the timer there.  *)
Way(h, f) ==
    f = [k \in Nat |-> IF k = 1 THEN h.root
                       ELSE IF k % 2 = 1 THEN h.r[f[k \div 2]] ELSE h.l[f[k \div 2]]]

TheWay(h) == CHOOSE f : Way(h, f)

LEMMA PlacesAre == \A h : Places(h) = [k \in 1..h.cnt |-> TheWay(h)[k]]
  BY Zenon DEF Places, TheWay, Way

LEMMA PlacesLaid ==
    ASSUME NEW h, NEW S, NEW a, Laid(h, S, a)
    PROVE  \A k \in 1..h.cnt : Places(h)[k] = a[k]
<1>1. /\ h.cnt \in Nat /\ a[0] = Nil /\ h.l[Nil] = Nil
      /\ \A k \in Nat : a[k] \in Ref
  BY LaidLinks
<1>2. Way(h, a)
  <2>1. ASSUME NEW k \in Nat
        PROVE  a[k] = IF k = 1 THEN h.root
                      ELSE IF k % 2 = 1 THEN h.r[a[k \div 2]] ELSE h.l[a[k \div 2]]
    <3>1. CASE k = 0
      BY <1>1, <3>1
    <3>2. CASE k = 1
      BY <3>2 DEF Laid
    <3>3. CASE k >= 2
      <4>1. PICK q \in Nat : q = k \div 2 /\ q >= 1
        BY <3>3, Halves
      <4>2. (k = 2 * q /\ k % 2 = 0) \/ (k = 2 * q + 1 /\ k % 2 = 1)
        BY <4>1, Halves
      <4>3. h.l[a[q]] = a[2 * q] /\ h.r[a[q]] = a[2 * q + 1]
        BY <4>1 DEF Laid
      <4> QED
        BY <3>3, <4>1, <4>2, <4>3
    <3> QED
      BY <3>1, <3>2, <3>3
  <2>2. a \in [Nat -> Ref]
    BY DEF Laid, Placed
  <2> QED
    BY <2>1, <2>2 DEF Way
<1>3. PICK f : f = TheWay(h)
  OBVIOUS
<1>4. Way(h, f)
  BY <1>2, <1>3, Zenon DEF TheWay
<1>5. \A k \in Nat : f[k] = IF k = 1 THEN h.root
                            ELSE IF k % 2 = 1 THEN h.r[f[k \div 2]] ELSE h.l[f[k \div 2]]
  BY <1>4 DEF Way
<1>6. \A k \in Nat : a[k] = IF k = 1 THEN h.root
                            ELSE IF k % 2 = 1 THEN h.r[a[k \div 2]] ELSE h.l[a[k \div 2]]
  BY <1>2 DEF Way
<1>7. PICK X : X = {k \in Nat : k >= 1 /\ f[k] # a[k]}
  OBVIOUS
<1>8. X = {}
  <2>1. SUFFICES ASSUME X # {} PROVE FALSE
    OBVIOUS
  <2>2. PICK k \in X : \A m \in X : k <= m
    BY <1>7, <2>1, LeastOf
  <2>3. k \in Nat /\ k >= 1 /\ f[k] # a[k]
    BY <1>7, <2>2
  <2>4. k # 1
    BY <1>5, <1>6, <2>3
  <2>5. PICK q \in Nat : q = k \div 2 /\ q >= 1 /\ q < k
    BY <2>3, <2>4, Halves
  <2>6. f[q] = a[q]
    BY <1>7, <2>2, <2>5
  <2> QED
    BY <1>5, <1>6, <2>3, <2>4, <2>5, <2>6
<1>9. \A k \in 1..h.cnt : f[k] = a[k]
  BY <1>1, <1>7, <1>8
<1>10. Places(h) = [k \in 1..h.cnt |-> f[k]]
  BY <1>3, PlacesAre
<1> QED
  BY <1>9, <1>10

-----------------------------------------------------------------------------
(* What the operators on links give.                                       *)
SameBut(y, x) == y \in Heaps /\ y.root = x.root /\ y.cnt = x.cnt

SetsP(y, x, n, v) == y = [x EXCEPT !.p[n] = v]
SetsL(y, x, n, v) == y = [x EXCEPT !.l[n] = v]
SetsR(y, x, n, v) == y = [x EXCEPT !.r[n] = v]

LEMMA SetParent ==
    ASSUME NEW x \in Heaps, NEW n \in Ref, NEW v \in Ref, NEW y, SetsP(y, x, n, v)
    PROVE  /\ SameBut(y, x) /\ y.l = x.l /\ y.r = x.r
           /\ \A z \in Ref : y.p[z] = IF z = n THEN v ELSE x.p[z]
<1>1. /\ y \in Heaps /\ y.root = x.root /\ y.cnt = x.cnt
      /\ y.l = x.l /\ y.r = x.r /\ y.p = [x.p EXCEPT ![n] = v]
  BY SMT DEF Heaps, SetsP
<1>2. x.p \in [Ref -> Ref]
  BY DEF Heaps
<1> QED
  BY <1>1, <1>2 DEF SameBut

LEMMA SetLeft ==
    ASSUME NEW x \in Heaps, NEW n \in Ref, NEW v \in Ref, NEW y, SetsL(y, x, n, v)
    PROVE  /\ SameBut(y, x) /\ y.p = x.p /\ y.r = x.r
           /\ \A z \in Ref : y.l[z] = IF z = n THEN v ELSE x.l[z]
<1>1. /\ y \in Heaps /\ y.root = x.root /\ y.cnt = x.cnt
      /\ y.p = x.p /\ y.r = x.r /\ y.l = [x.l EXCEPT ![n] = v]
  BY SMT DEF Heaps, SetsL
<1>2. x.l \in [Ref -> Ref]
  BY DEF Heaps
<1> QED
  BY <1>1, <1>2 DEF SameBut

LEMMA SetRight ==
    ASSUME NEW x \in Heaps, NEW n \in Ref, NEW v \in Ref, NEW y, SetsR(y, x, n, v)
    PROVE  /\ SameBut(y, x) /\ y.p = x.p /\ y.l = x.l
           /\ \A z \in Ref : y.r[z] = IF z = n THEN v ELSE x.r[z]
<1>1. /\ y \in Heaps /\ y.root = x.root /\ y.cnt = x.cnt
      /\ y.p = x.p /\ y.l = x.l /\ y.r = [x.r EXCEPT ![n] = v]
  BY SMT DEF Heaps, SetsR
<1>2. x.r \in [Ref -> Ref]
  BY DEF Heaps
<1> QED
  BY <1>1, <1>2 DEF SameBut

LEMMA SetRoot ==
    ASSUME NEW x \in Heaps, NEW v \in Ref, NEW y, y = [x EXCEPT !.root = v]
    PROVE  y \in Heaps /\ y.root = v /\ y.cnt = x.cnt /\ y.p = x.p /\ y.l = x.l /\ y.r = x.r
  BY DEF Heaps

SixSet(y, x, p, c, a, b, d, e, f, g) ==
    y = [x EXCEPT !.p[p] = a, !.p[c] = b, !.l[p] = d, !.l[c] = e, !.r[p] = f, !.r[c] = g]

SixGiven(y, x, p, c, a, b, d, e, f, g) ==
    /\ SameBut(y, x)
    /\ \A z \in Ref : /\ y.p[z] = IF z = c THEN b ELSE IF z = p THEN a ELSE x.p[z]
                      /\ y.l[z] = IF z = c THEN e ELSE IF z = p THEN d ELSE x.l[z]
                      /\ y.r[z] = IF z = c THEN g ELSE IF z = p THEN f ELSE x.r[z]

LEMMA SixLinks ==
    ASSUME NEW x \in Heaps, NEW p \in Ref, NEW c \in Ref,
           NEW a \in Ref, NEW b \in Ref, NEW d \in Ref, NEW e \in Ref, NEW f \in Ref, NEW g \in Ref,
           NEW y, SixSet(y, x, p, c, a, b, d, e, f, g)
    PROVE  SixGiven(y, x, p, c, a, b, d, e, f, g)
<1>1. PICK x1 : SetsP(x1, x, p, a)
  BY DEF SetsP
<1>2. PICK x2 : SetsP(x2, x1, c, b)
  BY DEF SetsP
<1>3. PICK x3 : SetsL(x3, x2, p, d)
  BY DEF SetsL
<1>4. PICK x4 : SetsL(x4, x3, c, e)
  BY DEF SetsL
<1>5. PICK x5 : SetsR(x5, x4, p, f)
  BY DEF SetsR
<1>6. PICK x6 : SetsR(x6, x5, c, g)
  BY DEF SetsR
<1>7. y = x6
  <2>1. y = [[[[[[x EXCEPT !.p[p] = a] EXCEPT !.p[c] = b] EXCEPT !.l[p] = d]
                    EXCEPT !.l[c] = e] EXCEPT !.r[p] = f] EXCEPT !.r[c] = g]
    BY SMT DEF Heaps, SixSet
  <2> QED
    BY ONLY <1>1, <1>2, <1>3, <1>4, <1>5, <1>6, <2>1 DEF SetsP, SetsL, SetsR
<1>8. /\ SameBut(x1, x) /\ x1.l = x.l /\ x1.r = x.r
      /\ \A z \in Ref : x1.p[z] = IF z = p THEN a ELSE x.p[z]
  BY <1>1, SetParent
<1>9. /\ SameBut(x2, x1) /\ x2.l = x1.l /\ x2.r = x1.r
      /\ \A z \in Ref : x2.p[z] = IF z = c THEN b ELSE x1.p[z]
  BY <1>2, <1>8, SetParent DEF SameBut
<1>10. /\ SameBut(x3, x2) /\ x3.p = x2.p /\ x3.r = x2.r
       /\ \A z \in Ref : x3.l[z] = IF z = p THEN d ELSE x2.l[z]
  BY <1>3, <1>9, SetLeft DEF SameBut
<1>11. /\ SameBut(x4, x3) /\ x4.p = x3.p /\ x4.r = x3.r
       /\ \A z \in Ref : x4.l[z] = IF z = c THEN e ELSE x3.l[z]
  BY <1>4, <1>10, SetLeft DEF SameBut
<1>12. /\ SameBut(x5, x4) /\ x5.p = x4.p /\ x5.l = x4.l
       /\ \A z \in Ref : x5.r[z] = IF z = p THEN f ELSE x4.r[z]
  BY <1>5, <1>11, SetRight DEF SameBut
<1>13. /\ SameBut(x6, x5) /\ x6.p = x5.p /\ x6.l = x5.l
       /\ \A z \in Ref : x6.r[z] = IF z = c THEN g ELSE x5.r[z]
  BY <1>6, <1>12, SetRight DEF SameBut
<1>14. SameBut(x6, x)
  BY <1>8, <1>9, <1>10, <1>11, <1>12, <1>13 DEF SameBut
<1>15. \A z \in Ref : /\ x6.p[z] = IF z = c THEN b ELSE IF z = p THEN a ELSE x.p[z]
                      /\ x6.l[z] = IF z = c THEN e ELSE IF z = p THEN d ELSE x.l[z]
                      /\ x6.r[z] = IF z = c THEN g ELSE IF z = p THEN f ELSE x.r[z]
  BY <1>8, <1>9, <1>10, <1>11, <1>12, <1>13
<1> QED
  BY <1>7, <1>14, <1>15 DEF SixGiven

LEMMA AdoptGives ==
    ASSUME NEW x \in Heaps, NEW T, NEW v \in Ref, NEW y, y = Adopt(x, T, v)
    PROVE  /\ SameBut(y, x) /\ y.l = x.l /\ y.r = x.r
           /\ \A z \in Ref : y.p[z] = IF z \in T /\ z # Nil THEN v ELSE x.p[z]
  BY DEF Heaps, SameBut, Adopt

Relinked(y, x, g, old, new) ==
    /\ y \in Heaps /\ y.cnt = x.cnt /\ y.p = x.p
    /\ y.root = IF g = Nil THEN new ELSE x.root
    /\ \A z \in Ref :
           /\ y.l[z] = IF g # Nil /\ z = g /\ x.l[g] = old THEN new ELSE x.l[z]
           /\ y.r[z] = IF g # Nil /\ z = g /\ x.l[g] # old THEN new ELSE x.r[z]

LEMMA RelinkGives ==
    ASSUME NEW x \in Heaps, NEW g \in Ref, NEW old \in Ref, NEW new \in Ref,
           NEW y, y = Relink(x, g, old, new)
    PROVE  Relinked(y, x, g, old, new)
<1>1. CASE g = Nil
  <2>1. y = [x EXCEPT !.root = new]
    BY <1>1 DEF Relink
  <2> QED
    BY <1>1, <2>1, SetRoot DEF Relinked
<1>2. CASE g # Nil /\ x.l[g] = old
  <2>1. SetsL(y, x, g, new)
    BY <1>2 DEF Relink, SetsL
  <2> QED
    BY <1>2, <2>1, SetLeft DEF SameBut, Relinked
<1>3. CASE g # Nil /\ x.l[g] # old
  <2>1. SetsR(y, x, g, new)
    BY <1>3 DEF Relink, SetsR
  <2> QED
    BY <1>3, <2>1, SetRight DEF SameBut, Relinked
<1> QED
  BY <1>1, <1>2, <1>3

(* Swap, with left whether c is p's left child.                            *)
Swapped(x, p, c, y, left, sib, g) ==
    /\ y \in Heaps /\ y.cnt = x.cnt
    /\ y.root = IF g = Nil THEN c ELSE x.root
    /\ \A z \in Ref : z # p /\ z # c =>
           /\ y.l[z] = IF g # Nil /\ z = g /\ x.l[g] = p THEN c ELSE x.l[z]
           /\ y.r[z] = IF g # Nil /\ z = g /\ x.l[g] # p THEN c ELSE x.r[z]
           /\ y.p[z] = IF z # Nil /\ (z = x.l[c] \/ z = x.r[c]) THEN p
                       ELSE IF z # Nil /\ z = sib THEN c ELSE x.p[z]
    /\ y.l[p] = x.l[c] /\ y.r[p] = x.r[c]
    /\ y.l[c] = IF left THEN p ELSE x.l[p]
    /\ y.r[c] = IF left THEN x.r[p] ELSE p
    /\ y.p[p] = c /\ y.p[c] = g

LEMMA SwapGives ==
    ASSUME NEW x \in Heaps, NEW p \in Timers, NEW c \in Timers, p # c,
           NEW y, y = Swap(x, p, c), NEW g, g = x.p[p], g # p, g # c,
           NEW left, left = (x.l[p] = c),
           NEW sib, sib = IF left THEN x.r[p] ELSE x.l[p], sib # p, sib # c,
           x.l[c] # p, x.l[c] # c, x.r[c] # p, x.r[c] # c
    PROVE  Swapped(x, p, c, y, left, sib, g)
<1>1. /\ p \in Ref /\ c \in Ref /\ g \in Ref /\ sib \in Ref /\ Nil \in Ref /\ p # Nil /\ c # Nil
      /\ x.l[p] \in Ref /\ x.r[p] \in Ref /\ x.l[c] \in Ref /\ x.r[c] \in Ref
  BY TimerAssumption DEF Ref, Heaps
<1>2. PICK lc \in Ref, rc \in Ref : /\ lc = IF left THEN p ELSE x.l[p]
                                    /\ rc = IF left THEN x.r[p] ELSE p
  BY <1>1
<1>3. PICK u : u = [x EXCEPT !.p[p] = c, !.p[c] = x.p[p],
                             !.l[p] = x.l[c], !.l[c] = IF left THEN p ELSE x.l[p],
                             !.r[p] = x.r[c], !.r[c] = IF left THEN x.r[p] ELSE p]
  OBVIOUS
<1>4. PICK v : v = Adopt(u, {IF left THEN x.r[p] ELSE x.l[p]}, c)
  OBVIOUS
<1>5. PICK w : w = Adopt(v, {x.l[c], x.r[c]}, p)
  OBVIOUS
<1>6. y = Relink(w, x.p[p], p, c)
  BY ONLY <1>3, <1>4, <1>5, y = Swap(x, p, c), left = (x.l[p] = c), Zenon DEF Swap
<1>7. SixSet(u, x, p, c, c, g, x.l[c], lc, x.r[c], rc)
  BY ONLY <1>2, <1>3, g = x.p[p], Zenon DEF SixSet
<1>8. SixGiven(u, x, p, c, c, g, x.l[c], lc, x.r[c], rc)
  BY ONLY <1>1, <1>2, <1>7, SixLinks, x \in Heaps
<1>9. v = Adopt(u, {sib}, c)
  BY ONLY <1>4, sib = IF left THEN x.r[p] ELSE x.l[p], Zenon
<1>10. /\ SameBut(v, u) /\ v.l = u.l /\ v.r = u.r
       /\ \A z \in Ref : v.p[z] = IF z \in {sib} /\ z # Nil THEN c ELSE u.p[z]
  BY <1>1, <1>8, <1>9, AdoptGives DEF SameBut, SixGiven
<1>11. /\ SameBut(w, v) /\ w.l = v.l /\ w.r = v.r
       /\ \A z \in Ref : w.p[z] = IF z \in {x.l[c], x.r[c]} /\ z # Nil THEN p ELSE v.p[z]
  BY <1>1, <1>5, <1>10, AdoptGives DEF SameBut
<1>12. y = Relink(w, g, p, c)
  BY <1>6
<1>13. Relinked(y, w, g, p, c)
  BY ONLY <1>1, <1>11, <1>12, RelinkGives DEF SameBut
<1>14. w.cnt = x.cnt /\ w.root = x.root /\ w.l[g] = x.l[g]
  BY <1>1, <1>8, <1>10, <1>11 DEF SameBut, SixGiven
<1>15. \A z \in Ref : z # p /\ z # c =>
           y.p[z] = IF z # Nil /\ (z = x.l[c] \/ z = x.r[c]) THEN p
                    ELSE IF z # Nil /\ z = sib THEN c ELSE x.p[z]
  BY <1>8, <1>10, <1>11, <1>13 DEF SixGiven, Relinked
<1>16. \A z \in Ref : z # p /\ z # c =>
           /\ y.l[z] = IF g # Nil /\ z = g /\ x.l[g] = p THEN c ELSE x.l[z]
           /\ y.r[z] = IF g # Nil /\ z = g /\ x.l[g] # p THEN c ELSE x.r[z]
  BY <1>8, <1>10, <1>11, <1>13, <1>14 DEF SixGiven, Relinked
<1>17. y.p[p] = c /\ y.p[c] = g
  BY <1>1, <1>8, <1>10, <1>11, <1>13 DEF SixGiven, Relinked
<1>18. y.l[p] = x.l[c] /\ y.r[p] = x.r[c] /\ y.l[c] = lc /\ y.r[c] = rc
  BY <1>1, <1>8, <1>10, <1>11, <1>13 DEF SixGiven, Relinked
<1> QED
  BY <1>2, <1>13, <1>14, <1>15, <1>16, <1>17, <1>18 DEF Swapped, Relinked

(* The exchange of a node and its child exchanges two places.              *)
Exch(a, i, j) == [k \in Nat |-> IF k = i THEN a[j] ELSE IF k = j THEN a[i] ELSE a[k]]

LEMMA ExchPlaced ==
    ASSUME NEW h, NEW S, NEW a, Placed(h, S, a), NEW i \in 1..h.cnt, NEW j \in 1..h.cnt,
           NEW y \in Heaps, y.cnt = h.cnt
    PROVE  Placed(y, S, Exch(a, i, j))
<1>1. /\ h.cnt \in Nat /\ i \in Nat /\ j \in Nat /\ a \in [Nat -> Ref] /\ S \in SUBSET Timers
      /\ \A k \in Nat : k \in 1..h.cnt => a[k] \in S
      /\ \A k \in Nat : k \notin 1..h.cnt => a[k] = Nil
      /\ \A u, v \in 1..h.cnt : a[u] = a[v] => u = v
      /\ \A t \in S : \E k \in 1..h.cnt : a[k] = t
  BY DEF Placed, Heaps
<1>2. PICK b : b = Exch(a, i, j)
  OBVIOUS
<1>3. b \in [Nat -> Ref] /\ \A k \in Nat : b[k] = IF k = i THEN a[j] ELSE IF k = j THEN a[i] ELSE a[k]
  BY <1>1, <1>2 DEF Exch
<1>4. \A k \in Nat : k \in 1..h.cnt => b[k] \in S
  BY <1>1, <1>3
<1>5. \A k \in Nat : k \notin 1..h.cnt => b[k] = Nil
  BY <1>1, <1>3
<1>6. \A u, v \in 1..h.cnt : b[u] = b[v] => u = v
  BY <1>1, <1>3
<1>7. ASSUME NEW t \in S PROVE \E k \in 1..h.cnt : b[k] = t
  <2>1. PICK k \in 1..h.cnt : a[k] = t
    BY <1>1
  <2>2. CASE k = i
    BY <1>1, <1>3, <2>1, <2>2
  <2>3. CASE k = j
    BY <1>1, <1>3, <2>1, <2>3
  <2>4. CASE k # i /\ k # j
    BY <1>1, <1>3, <2>1, <2>4
  <2> QED
    BY <2>2, <2>3, <2>4
<1> QED
  BY <1>1, <1>2, <1>3, <1>4, <1>5, <1>6, <1>7 DEF Placed

LEMMA SwapLaid ==
    ASSUME NEW h, NEW S, NEW a, Laid(h, S, a),
           NEW i \in Nat, i >= 1, NEW j \in Nat, j = 2 * i \/ j = 2 * i + 1, j <= h.cnt,
           NEW y, y = Swap(h, a[i], a[j])
    PROVE  Laid(y, S, Exch(a, i, j)) /\ y.cnt = h.cnt
<1>1. PICK p, c : p = a[i] /\ c = a[j]
  OBVIOUS
<1>2. /\ h \in Heaps /\ h.cnt \in Nat /\ Nil \in Ref /\ Nil \notin Timers /\ Timers \subseteq Ref
      /\ a[0] = Nil
      /\ \A k \in Nat : a[k] \in Ref
      /\ \A k \in Nat : a[k] # Nil <=> k \in 1..h.cnt
      /\ \A k \in Nat : k \in 1..h.cnt => a[k] \in Timers
      /\ \A u, v \in Nat : a[u] # Nil /\ a[u] = a[v] => u = v
  BY LaidLinks
<1>3. /\ h.root = a[1]
      /\ \A k \in Nat : k >= 1 => h.l[a[k]] = a[2 * k]
      /\ \A k \in Nat : k >= 1 => h.r[a[k]] = a[2 * k + 1]
      /\ \A k \in Nat : k >= 1 => (k <= h.cnt => h.p[a[k]] = a[k \div 2])
  BY DEF Laid
<1>4. PICK q \in Nat : q = i \div 2 /\ q < i /\ (i = 2 * q \/ i = 2 * q + 1) /\ (q = 0 <=> i = 1)
  BY Halves
<1>5. j \div 2 = i
  BY Halves
<1>6. PICK s \in Nat : (s = IF j = 2 * i THEN 2 * i + 1 ELSE 2 * i) /\ s \div 2 = i /\ s # i /\ s # j
  BY Halves
<1>7. i \in 1..h.cnt /\ j \in 1..h.cnt /\ i # j /\ q # j
  BY <1>2, <1>4
<1>8. p \in Timers /\ c \in Timers /\ p # c /\ p # Nil /\ c # Nil /\ p \in Ref /\ c \in Ref
  BY <1>1, <1>2, <1>7
<1>9. /\ h.l[p] = a[2 * i] /\ h.r[p] = a[2 * i + 1]
      /\ h.l[c] = a[2 * j] /\ h.r[c] = a[2 * j + 1]
      /\ h.p[p] = a[q]
  <2>1. h.l[p] = a[2 * i] /\ h.r[p] = a[2 * i + 1]
    BY <1>1, <1>3
  <2>2. h.l[c] = a[2 * j] /\ h.r[c] = a[2 * j + 1]
    <3>1. j >= 1
      BY <1>7
    <3> QED
      BY <1>1, <1>3, <3>1
  <2>3. h.p[p] = a[q]
    <3>1. i <= h.cnt
      BY <1>7
    <3>2. h.p[a[i]] = a[i \div 2]
      BY <1>3, <3>1, Zenon
    <3> QED
      BY <1>1, <1>4, <3>2
  <2> QED
    BY <2>1, <2>2, <2>3
<1>10. PICK g : g = a[q]
  OBVIOUS
<1>11. PICK left \in BOOLEAN : (left <=> j = 2 * i)
  OBVIOUS
<1>12. left = (h.l[p] = c)
  <2>1. j = 2 * i => h.l[p] = c
    BY <1>1, <1>9
  <2>2. h.l[p] = c => j = 2 * i
    <3>1. 2 * i \in Nat
      OBVIOUS
    <3> QED
      BY <1>1, <1>2, <1>8, <1>9, <3>1
  <2>3. left <=> h.l[p] = c
    BY <1>11, <2>1, <2>2, Zenon
  <2> QED
    BY <2>3, Zenon
<1>13. PICK sib : sib = a[s]
  OBVIOUS
<1>14. sib = IF left THEN h.r[p] ELSE h.l[p]
  <2>1. CASE j = 2 * i
    <3>1. left
      BY <1>11, <2>1, Zenon
    <3>2. sib = h.r[p]
      BY <1>6, <1>9, <1>13, <2>1
    <3> QED
      BY <3>1, <3>2, Zenon
  <2>2. CASE j # 2 * i
    <3>1. ~ left
      BY <1>11, <2>2, Zenon
    <3>2. sib = h.l[p]
      BY <1>6, <1>9, <1>13, <2>2
    <3> QED
      BY <3>1, <3>2, Zenon
  <2> QED
    BY <2>1, <2>2
<1>15. /\ 2 * j \in Nat /\ 2 * j + 1 \in Nat /\ 2 * j # i /\ 2 * j + 1 # i
       /\ 2 * j # j /\ 2 * j + 1 # j /\ s # 2 * j /\ s # 2 * j + 1
  BY <1>6
<1>16. /\ g # p /\ g # c /\ sib # p /\ sib # c
       /\ h.l[c] # p /\ h.l[c] # c /\ h.r[c] # p /\ h.r[c] # c
  BY <1>1, <1>2, <1>4, <1>6, <1>7, <1>8, <1>9, <1>10, <1>13, <1>15
<1>17. y = Swap(h, p, c) /\ g = h.p[p]
  BY <1>1, <1>9, <1>10
<1>18. Swapped(h, p, c, y, left, sib, g)
  BY <1>2, <1>8, <1>12, <1>14, <1>16, <1>17, SwapGives
<1>19. PICK b : b = Exch(a, i, j)
  OBVIOUS
<1>20. \A k \in Nat : b[k] = IF k = i THEN c ELSE IF k = j THEN p ELSE a[k]
  BY <1>1, <1>19 DEF Exch
<1>21. Placed(y, S, b) /\ y.cnt = h.cnt
  <2>1. y \in Heaps /\ y.cnt = h.cnt
    BY <1>18 DEF Swapped
  <2> QED
    BY <1>7, <1>19, <2>1, ExchPlaced DEF Laid
<1>22. y.root = b[1]
  <2>1. y.root = IF g = Nil THEN c ELSE h.root
    BY <1>18 DEF Swapped
  <2>2. g = Nil <=> q = 0
    BY <1>2, <1>4, <1>7, <1>10
  <2>3. j # 1
    OBVIOUS
  <2> QED
    BY <1>3, <1>4, <1>20, <2>1, <2>2, <2>3
<1>23. \A k \in Nat : k # i /\ k # j => b[k] = a[k] /\ a[k] # p /\ a[k] # c /\ a[k] \in Ref
  BY <1>1, <1>2, <1>8, <1>20
<1>24. b[i] = c /\ b[j] = p
  BY <1>7, <1>20
<1>25. g # Nil => h.l[g] = a[2 * q] /\ q >= 1
  <2>1. q = 0 => g = Nil
    BY <1>2, <1>10
  <2>2. q >= 1 => h.l[g] = a[2 * q]
    BY <1>3, <1>10
  <2> QED
    BY <1>4, <2>1, <2>2
<1>26. g # Nil => ((h.l[g] = p) <=> i = 2 * q)
  <2>1. 2 * q \in Nat
    OBVIOUS
  <2> QED
    BY <1>1, <1>2, <1>8, <1>25, <2>1
<1>27. ASSUME NEW k \in Nat, k >= 1 PROVE y.l[b[k]] = b[2 * k] /\ y.r[b[k]] = b[2 * k + 1]
  <2>1. CASE k = j
    <3>1. y.l[p] = a[2 * j] /\ y.r[p] = a[2 * j + 1]
      BY <1>9, <1>18 DEF Swapped
    <3> QED
      BY <1>15, <1>23, <1>24, <2>1, <3>1
  <2>2. CASE k = i /\ j = 2 * i
    <3>1. left
      BY <1>11, <2>2, Zenon
    <3>2. y.l[c] = p /\ y.r[c] = h.r[p]
      BY <1>18, <3>1 DEF Swapped
    <3>3. 2 * i + 1 \in Nat /\ 2 * i + 1 # i /\ 2 * i + 1 # j
      BY <2>2
    <3> QED
      BY <1>9, <1>23, <1>24, <2>2, <3>2, <3>3
  <2>3. CASE k = i /\ j = 2 * i + 1
    <3>1. ~ left
      BY <1>11, <2>3
    <3>2. y.l[c] = h.l[p] /\ y.r[c] = p
      BY <1>18, <3>1 DEF Swapped
    <3>3. 2 * i \in Nat /\ 2 * i # i /\ 2 * i # j
      BY <2>3
    <3> QED
      BY <1>9, <1>23, <1>24, <2>3, <3>2, <3>3
  <2>4. CASE k # i /\ k # j
    <3>1. b[k] = a[k] /\ a[k] # p /\ a[k] # c /\ a[k] \in Ref
      BY <1>23, <2>4
    <3>2. /\ y.l[a[k]] = IF g # Nil /\ a[k] = g /\ h.l[g] = p THEN c ELSE h.l[a[k]]
          /\ y.r[a[k]] = IF g # Nil /\ a[k] = g /\ h.l[g] # p THEN c ELSE h.r[a[k]]
      BY <1>18, <3>1 DEF Swapped
    <3>3. g # Nil /\ a[k] = g => k = q
      BY <1>2, <1>10
    <3>4. h.l[a[k]] = a[2 * k] /\ h.r[a[k]] = a[2 * k + 1]
      BY <1>3, <1>27
    <3>5. 2 * k \in Nat /\ 2 * k + 1 \in Nat /\ 2 * k # j /\ 2 * k + 1 # j
      BY <2>4
    <3>6. CASE g # Nil /\ a[k] = g
      <4>1. k = q
        BY <3>3, <3>6
      <4>2. CASE i = 2 * q
        <5>1. y.l[a[k]] = c /\ y.r[a[k]] = a[2 * k + 1] /\ 2 * k + 1 # i
          BY <1>26, <3>2, <3>4, <3>6, <4>1, <4>2
        <5> QED
          BY <1>23, <1>24, <3>1, <3>5, <4>1, <4>2, <5>1
      <4>3. CASE i = 2 * q + 1
        <5>1. i # 2 * q
          BY <4>3
        <5>2. y.r[a[k]] = c /\ y.l[a[k]] = a[2 * k] /\ 2 * k # i
          BY <1>26, <3>2, <3>4, <3>6, <4>1, <4>3, <5>1
        <5> QED
          BY <1>23, <1>24, <3>1, <3>5, <4>1, <4>3, <5>2
      <4> QED
        BY <1>4, <4>2, <4>3
    <3>7. CASE ~ (g # Nil /\ a[k] = g)
      <4>1. y.l[a[k]] = a[2 * k] /\ y.r[a[k]] = a[2 * k + 1]
        BY <3>2, <3>4, <3>7
      <4>2. k # q
        BY <1>2, <1>4, <1>7, <1>10, <1>27, <3>7
      <4>3. 2 * k # i /\ 2 * k + 1 # i
        BY <1>4, <4>2
      <4> QED
        BY <1>23, <3>1, <3>5, <4>1, <4>3
    <3> QED
      BY <3>6, <3>7
  <2> QED
    BY <2>1, <2>2, <2>3, <2>4
<1>28. ASSUME NEW k \in Nat, k >= 1, k <= h.cnt PROVE y.p[b[k]] = b[k \div 2]
  <2>1. CASE k = j
    BY <1>5, <1>18, <1>24, <2>1 DEF Swapped
  <2>2. CASE k = i
    <3>1. y.p[c] = g /\ b[q] = a[q]
      BY <1>4, <1>7, <1>18, <1>23 DEF Swapped
    <3> QED
      BY <1>4, <1>10, <1>24, <2>2, <3>1
  <2>3. CASE k # i /\ k # j
    <3>1. b[k] = a[k] /\ a[k] # p /\ a[k] # c /\ a[k] \in Ref
      BY <1>23, <2>3
    <3>2. a[k] # Nil /\ h.p[a[k]] = a[k \div 2]
      BY <1>2, <1>3, <1>28
    <3>3. y.p[a[k]] = IF a[k] = h.l[c] \/ a[k] = h.r[c] THEN p
                      ELSE IF a[k] = sib THEN c ELSE h.p[a[k]]
      BY <1>18, <3>1, <3>2 DEF Swapped
    <3>4. (a[k] = h.l[c] \/ a[k] = h.r[c]) <=> (k = 2 * j \/ k = 2 * j + 1)
      BY <1>2, <1>9, <1>15, <3>2
    <3>5. a[k] = sib <=> k = s
      BY <1>2, <1>13, <3>2
    <3>6. CASE k = 2 * j \/ k = 2 * j + 1
      <4>1. k \div 2 = j
        BY <3>6, Halves
      <4> QED
        BY <1>24, <3>1, <3>3, <3>4, <3>6, <4>1
    <3>7. CASE k = s
      <4>1. k \div 2 = i /\ ~ (k = 2 * j \/ k = 2 * j + 1)
        BY <1>6, <1>15, <3>7
      <4> QED
        BY <1>24, <3>1, <3>3, <3>4, <3>5, <3>7, <4>1
    <3>8. CASE ~ (k = 2 * j \/ k = 2 * j + 1) /\ k # s
      <4>1. PICK v \in Nat : v = k \div 2 /\ (k = 2 * v \/ k = 2 * v + 1)
        BY Halves
      <4>2. v # i /\ v # j
        BY <1>6, <2>3, <3>8, <4>1
      <4>3. y.p[a[k]] = a[v]
        BY <3>2, <3>3, <3>4, <3>5, <3>8, <4>1
      <4> QED
        BY <1>23, <3>1, <4>1, <4>2, <4>3
    <3> QED
      BY <3>6, <3>7, <3>8
  <2> QED
    BY <2>1, <2>2, <2>3
<1> QED
  BY <1>19, <1>21, <1>22, <1>27, <1>28 DEF Laid

LEMMA SwapInHeaps ==
    ASSUME NEW x \in Heaps, NEW p \in Ref, NEW c \in Ref
    PROVE  Swap(x, p, c) \in Heaps
<1>1. PICK left : left = (x.l[p] = c)
  BY Zenon
<1>2. /\ x.p[p] \in Ref /\ x.l[p] \in Ref /\ x.r[p] \in Ref /\ x.l[c] \in Ref /\ x.r[c] \in Ref
  BY DEF Heaps
<1>3. PICK lc \in Ref, rc \in Ref, sib \in Ref :
          /\ lc = IF left THEN p ELSE x.l[p]
          /\ rc = IF left THEN x.r[p] ELSE p
          /\ sib = IF left THEN x.r[p] ELSE x.l[p]
  BY <1>2
<1>4. PICK u : u = [x EXCEPT !.p[p] = c, !.p[c] = x.p[p],
                             !.l[p] = x.l[c], !.l[c] = IF left THEN p ELSE x.l[p],
                             !.r[p] = x.r[c], !.r[c] = IF left THEN x.r[p] ELSE p]
  OBVIOUS
<1>5. PICK v : v = Adopt(u, {IF left THEN x.r[p] ELSE x.l[p]}, c)
  OBVIOUS
<1>6. PICK w : w = Adopt(v, {x.l[c], x.r[c]}, p)
  OBVIOUS
<1>7. Swap(x, p, c) = Relink(w, x.p[p], p, c)
  BY ONLY <1>1, <1>4, <1>5, <1>6, Zenon DEF Swap
<1>8. SixSet(u, x, p, c, c, x.p[p], x.l[c], lc, x.r[c], rc)
  BY ONLY <1>3, <1>4, Zenon DEF SixSet
<1>9. SixGiven(u, x, p, c, c, x.p[p], x.l[c], lc, x.r[c], rc)
  BY ONLY <1>2, <1>3, <1>8, SixLinks, x \in Heaps, p \in Ref, c \in Ref
<1>10. u \in Heaps
  BY <1>9 DEF SixGiven, SameBut
<1>11. v \in Heaps
  BY <1>5, <1>10, AdoptGives DEF SameBut
<1>12. w \in Heaps
  BY <1>6, <1>11, AdoptGives DEF SameBut
<1>13. PICK y : y = Relink(w, x.p[p], p, c)
  OBVIOUS
<1>14. Relinked(y, w, x.p[p], p, c)
  BY ONLY <1>2, <1>12, <1>13, RelinkGives, p \in Ref, c \in Ref
<1> QED
  BY <1>7, <1>13, <1>14 DEF Relinked

-----------------------------------------------------------------------------
(* The sifts are functions defined by going on with another heap until a   *)
(* heap of D is reached. Such a function exists whether or not D is always *)
(* reached: what is reached of D from x and from g[x] is the same.         *)
Iterates(f, X, D, g) == f = [x \in X |-> IF x \in D THEN x ELSE f[g[x]]]

StaysIn(C, D, g) == \A y \in C : y \notin D => g[y] \in C

Reached(x, X, D, g) == {y \in X : \A C \in SUBSET X : x \in C /\ StaysIn(C, D, g) => y \in C}

LEMMA ReachedFromNext ==
    ASSUME NEW X, NEW D \in SUBSET X, NEW g \in [X -> X], NEW x \in X, x \notin D
    PROVE  Reached(x, X, D, g) \cap D = Reached(g[x], X, D, g) \cap D
<1>1. g[x] \in X
  OBVIOUS
<1>2. ASSUME NEW y \in X, y \in D, y \in Reached(x, X, D, g), NEW C \in SUBSET X,
             g[x] \in C, StaysIn(C, D, g)
      PROVE  y \in C
  <2>1. C \cup {x} \in SUBSET X
    OBVIOUS
  <2>2. StaysIn(C \cup {x}, D, g)
    BY <1>2 DEF StaysIn
  <2>3. x \in C \cup {x}
    OBVIOUS
  <2>4. y \in C \cup {x}
    BY ONLY <1>2, <2>1, <2>2, <2>3, Zenon DEF Reached
  <2> QED
    BY <1>2, <2>4
<1>3. ASSUME NEW y \in X, y \in D, y \in Reached(g[x], X, D, g), NEW C \in SUBSET X,
             x \in C, StaysIn(C, D, g)
      PROVE  y \in C
  <2>1. g[x] \in C
    BY <1>3 DEF StaysIn
  <2> QED
    BY ONLY <1>3, <2>1, Zenon DEF Reached
<1>4. ASSUME NEW y \in X, y \in D PROVE y \in Reached(x, X, D, g) <=> y \in Reached(g[x], X, D, g)
  <2>1. ASSUME y \in Reached(x, X, D, g) PROVE y \in Reached(g[x], X, D, g)
    BY <1>2, <1>4, <2>1, Zenon DEF Reached
  <2>2. ASSUME y \in Reached(g[x], X, D, g) PROVE y \in Reached(x, X, D, g)
    BY <1>3, <1>4, <2>2, Zenon DEF Reached
  <2> QED
    BY <2>1, <2>2
<1> QED
  BY <1>4

LEMMA Iteration ==
    ASSUME NEW X, NEW D \in SUBSET X, NEW g \in [X -> X]
    PROVE  \E f : Iterates(f, X, D, g)
<1> DEFINE Ends(x) == Reached(x, X, D, g) \cap D
           F == [x \in X |-> CHOOSE y : y \in Ends(x)]
<1>1. ASSUME NEW x \in X, x \in D PROVE F[x] = x
  <2>1. x \in Ends(x)
    BY <1>1 DEF Reached
  <2>2. ASSUME NEW y \in Ends(x) PROVE y = x
    <3>1. {x} \in SUBSET X /\ x \in {x}
      OBVIOUS
    <3>2. StaysIn({x}, D, g)
      BY <1>1 DEF StaysIn
    <3>3. y \in {x}
      BY <3>1, <3>2 DEF Reached
    <3> QED
      BY <3>3
  <2>3. F[x] = CHOOSE y : y \in Ends(x)
    BY DEF F
  <2> HIDE DEF Ends, F
  <2>4. (CHOOSE y : y \in Ends(x)) \in Ends(x)
    BY <2>1, Zenon
  <2> QED
    BY <2>2, <2>3, <2>4, Zenon
<1>2. ASSUME NEW x \in X, x \notin D PROVE F[x] = F[g[x]]
  <2>1. Ends(x) = Ends(g[x])
    BY <1>2, ReachedFromNext
  <2>2. F[x] = (CHOOSE y : y \in Ends(x)) /\ F[g[x]] = (CHOOSE y : y \in Ends(g[x]))
    BY DEF F
  <2> HIDE DEF Ends, F
  <2> QED
    BY <2>1, <2>2, Zenon
<1>3. F = [x \in X |-> F[x]]
  OBVIOUS
<1> HIDE DEF F
<1>4. Iterates(F, X, D, g)
  BY <1>1, <1>2, <1>3 DEF Iterates
<1> QED
  BY <1>4

-----------------------------------------------------------------------------
(* Order. Sifting moves the one timer that may be out of order, at place   *)
(* k: the others are in order also if it is passed over.                   *)
InOrder(n, a, key) == \A k \in Nat : k >= 2 /\ k <= n => key[a[k \div 2]] <= key[a[k]]

Loose(n, a, key, k) ==
    /\ \A m \in Nat : m >= 2 /\ m <= n /\ m # k /\ m \div 2 # k => key[a[m \div 2]] <= key[a[m]]
    /\ \A m \in Nat : m <= n /\ m \div 2 = k /\ k >= 2 => key[a[k \div 2]] <= key[a[m]]

Rises(n, a, key, k) ==
    /\ Loose(n, a, key, k)
    /\ \A m \in Nat : m <= n /\ m \div 2 = k => key[a[k]] <= key[a[m]]

LEMMA KeysOf ==
    ASSUME NEW h, NEW S, NEW a, Laid(h, S, a), NEW key \in [Timers -> Int]
    PROVE  \A k \in Nat : k \in 1..h.cnt => key[a[k]] \in Int
  BY LaidLinks

LEMMA RisesToTop ==
    ASSUME NEW n \in Nat, NEW a, NEW key, NEW k \in 1..n, Rises(n, a, key, k),
           \A m \in Nat : m \in 1..n => key[a[m]] \in Int,
           k = 1 \/ key[a[k \div 2]] <= key[a[k]]
    PROVE  InOrder(n, a, key)
<1>1. ASSUME NEW m \in Nat, m >= 2, m <= n PROVE key[a[m \div 2]] <= key[a[m]]
  <2>1. CASE m = k
    BY <1>1, <2>1
  <2>2. CASE m \div 2 = k
    BY <1>1, <2>2 DEF Rises
  <2>3. CASE m # k /\ m \div 2 # k
    BY <1>1, <2>3 DEF Rises, Loose
  <2> QED
    BY <2>1, <2>2, <2>3
<1> QED
  BY <1>1 DEF InOrder

LEMMA RiseOnce ==
    ASSUME NEW n \in Nat, NEW a, NEW key, NEW k \in 2..n, NEW q \in Nat, q = k \div 2,
           \A m \in Nat : m \in 1..n => key[a[m]] \in Int,
           Rises(n, a, key, k), key[a[k]] < key[a[q]]
    PROVE  Rises(n, Exch(a, q, k), key, q)
<1>1. PICK b : b = Exch(a, q, k)
  OBVIOUS
<1>2. q \in 1..n /\ q < k /\ k \in Nat
  BY Halves
<1>3. b[q] = a[k] /\ b[k] = a[q] /\ \A m \in Nat : m # q /\ m # k => b[m] = a[m]
  BY <1>1, <1>2 DEF Exch
<1>4. ASSUME NEW m \in Nat, m >= 2, m <= n, m # k, m \div 2 # k
      PROVE  key[a[m \div 2]] <= key[a[m]]
  BY <1>4 DEF Rises, Loose
<1>5. ASSUME NEW m \in Nat, m <= n, m \div 2 = k PROVE key[a[q]] <= key[a[m]]
  <2>1. k >= 2
    OBVIOUS
  <2> QED
    BY <1>5, <2>1 DEF Rises, Loose
<1>6. ASSUME NEW m \in Nat, m <= n, m \div 2 = q, m # k PROVE key[a[q]] <= key[a[m]]
  <2>1. m >= 2
    BY <1>2, <1>6, Halves
  <2> QED
    BY <1>2, <1>4, <1>6, <2>1
<1>7. ASSUME NEW m \in Nat, m >= 2, m <= n, m # q, m \div 2 # q
      PROVE  key[b[m \div 2]] <= key[b[m]]
  <2>1. PICK u \in Nat : u = m \div 2 /\ u < m /\ u >= 1
    BY <1>7, Halves
  <2>2. m # k
    BY <1>7
  <2>3. CASE u = k
    BY <1>3, <1>5, <1>7, <2>1, <2>2, <2>3
  <2>4. CASE u # k
    BY <1>3, <1>4, <1>7, <2>1, <2>2, <2>4
  <2> QED
    BY <2>3, <2>4
<1>8. ASSUME NEW m \in Nat, m <= n, m \div 2 = q, q >= 2 PROVE key[b[q \div 2]] <= key[b[m]]
  <2>1. PICK g \in Nat : g = q \div 2 /\ g < q /\ g >= 1
    BY <1>8, Halves
  <2>2. b[g] = a[g]
    BY <1>2, <1>3, <2>1
  <2>3. key[a[g]] <= key[a[q]]
    BY <1>2, <1>4, <1>8, <2>1
  <2>4. CASE m = k
    BY <1>3, <2>1, <2>2, <2>3, <2>4
  <2>5. CASE m # k
    <3>1. m # q /\ m >= 1
      BY <1>2, <1>8, Halves
    <3>2. key[a[q]] <= key[a[m]]
      BY <1>6, <1>8, <2>5
    <3>3. key[a[g]] \in Int /\ key[a[q]] \in Int /\ key[a[m]] \in Int
      BY <1>2, <1>8, <2>1, <3>1
    <3> QED
      BY <1>3, <2>1, <2>2, <2>3, <2>5, <3>1, <3>2, <3>3
  <2> QED
    BY <2>4, <2>5
<1>9. ASSUME NEW m \in Nat, m <= n, m \div 2 = q PROVE key[b[q]] <= key[b[m]]
  <2>1. key[a[k]] \in Int /\ key[a[q]] \in Int
    BY <1>2
  <2>2. CASE m = k
    BY <1>3, <2>1, <2>2
  <2>3. CASE m # k
    <3>1. m # q /\ m >= 1
      BY <1>2, <1>9, Halves
    <3>2. key[a[m]] \in Int /\ key[a[q]] <= key[a[m]]
      BY <1>6, <1>9, <2>3, <3>1
    <3> QED
      BY <1>3, <2>1, <2>3, <3>1, <3>2
  <2> QED
    BY <2>2, <2>3
<1> QED
  BY <1>1, <1>7, <1>8, <1>9 DEF Rises, Loose

LEMMA SinkOnce ==
    ASSUME NEW n \in Nat, NEW a, NEW key, NEW k \in 1..n, NEW j \in 1..n, j \div 2 = k,
           \A m \in Nat : m \in 1..n => key[a[m]] \in Int,
           Loose(n, a, key, k), key[a[j]] < key[a[k]],
           \A m \in Nat : m <= n /\ m \div 2 = k => key[a[j]] <= key[a[m]]
    PROVE  Loose(n, Exch(a, k, j), key, j)
<1>1. PICK b : b = Exch(a, k, j)
  OBVIOUS
<1>2. k < j /\ k \in Nat /\ j \in Nat /\ j >= 2
  BY Halves
<1>3. b[k] = a[j] /\ b[j] = a[k] /\ \A m \in Nat : m # k /\ m # j => b[m] = a[m]
  BY <1>1, <1>2 DEF Exch
<1>4. ASSUME NEW m \in Nat, m >= 2, m <= n, m # k, m \div 2 # k
      PROVE  key[a[m \div 2]] <= key[a[m]]
  BY <1>4 DEF Loose
<1>5. ASSUME NEW m \in Nat, m >= 2, m <= n, m # j, m \div 2 # j
      PROVE  key[b[m \div 2]] <= key[b[m]]
  <2>1. PICK u \in Nat : u = m \div 2 /\ u < m /\ u >= 1
    BY <1>5, Halves
  <2>2. CASE u = k
    BY <1>3, <1>5, <2>1, <2>2
  <2>3. CASE m = k
    <3>1. key[a[u]] <= key[a[j]]
      BY <1>2, <1>5, <2>1, <2>3 DEF Loose
    <3>2. u # k /\ u # j
      BY <1>2, <2>1, <2>3
    <3> QED
      BY <1>3, <2>1, <2>3, <3>1, <3>2
  <2>4. CASE u # k /\ m # k
    BY <1>3, <1>4, <1>5, <2>1, <2>4
  <2> QED
    BY <2>2, <2>3, <2>4
<1>6. ASSUME NEW m \in Nat, m <= n, m \div 2 = j PROVE key[b[j \div 2]] <= key[b[m]]
  <2>1. m >= 2 /\ m # k /\ m # j
    BY <1>2, <1>6, Halves
  <2>2. key[a[j]] <= key[a[m]]
    BY <1>2, <1>4, <1>6, <2>1
  <2> QED
    BY <1>3, <2>1, <2>2
<1> QED
  BY <1>1, <1>5, <1>6 DEF Loose

-----------------------------------------------------------------------------
(* Sifting up.                                                             *)
Higher(h, key, n) == h.p[n] # Nil /\ Swaps(key, h.p[n], n)

UpFix(key, n, f) ==
    f = [h \in Heaps |-> IF h.p[n] # Nil /\ Swaps(key, h.p[n], n) THEN f[Swap(h, h.p[n], n)] ELSE h]

TheUp(key, n) == CHOOSE f : UpFix(key, n, f)

LEMMA SiftUpIs == \A h, key, n : SiftUp(h, key, n) = TheUp(key, n)[h]
  BY Zenon DEF SiftUp, TheUp, UpFix

LEMMA UpStep ==
    ASSUME NEW key, NEW n \in Ref, NEW h \in Heaps
    PROVE  /\ Higher(h, key, n) => SiftUp(h, key, n) = SiftUp(Swap(h, h.p[n], n), key, n)
           /\ ~ Higher(h, key, n) => SiftUp(h, key, n) = h
<1>1. PICK D : D = {x \in Heaps : ~ Higher(x, key, n)}
  OBVIOUS
<1>2. PICK g : g = [x \in Heaps |-> IF x \in D THEN x ELSE Swap(x, x.p[n], n)]
  OBVIOUS
<1>3. \A x \in Heaps : x.p[n] \in Ref
  BY DEF Heaps
<1>4. \A x \in Heaps : Swap(x, x.p[n], n) \in Heaps
  BY ONLY <1>3, SwapInHeaps, n \in Ref, Zenon
<1>5. g \in [Heaps -> Heaps]
  BY ONLY <1>2, <1>4, Zenon
<1>6. PICK f : Iterates(f, Heaps, D, g)
  BY <1>1, <1>5, Iteration
<1>7. f = [x \in Heaps |-> IF x \in D THEN x ELSE f[g[x]]]
  BY <1>6 DEF Iterates
<1>8. UpFix(key, n, f)
  <2>1. ASSUME NEW x \in Heaps
        PROVE  (IF x \in D THEN x ELSE f[g[x]]) =
               (IF x.p[n] # Nil /\ Swaps(key, x.p[n], n) THEN f[Swap(x, x.p[n], n)] ELSE x)
    <3>1. x \in D <=> ~ Higher(x, key, n)
      BY ONLY <1>1, <2>1, Zenon
    <3>2. x \notin D => g[x] = Swap(x, x.p[n], n)
      BY ONLY <1>2, <2>1, Zenon
    <3> QED
      BY ONLY <3>1, <3>2, Zenon DEF Higher
  <2>2. [x \in Heaps |-> IF x \in D THEN x ELSE f[g[x]]] =
        [x \in Heaps |-> IF x.p[n] # Nil /\ Swaps(key, x.p[n], n) THEN f[Swap(x, x.p[n], n)] ELSE x]
    BY ONLY <2>1, Zenon
  <2> QED
    BY ONLY <1>7, <2>2, Zenon DEF UpFix
<1>9. UpFix(key, n, TheUp(key, n))
  BY ONLY <1>8, Zenon DEF TheUp
<1>10. PICK z : z = TheUp(key, n)
  OBVIOUS
<1>11. z = [x \in Heaps |-> IF x.p[n] # Nil /\ Swaps(key, x.p[n], n) THEN z[Swap(x, x.p[n], n)] ELSE x]
  BY ONLY <1>9, <1>10, Zenon DEF UpFix
<1>12. /\ Higher(h, key, n) => z[h] = z[Swap(h, h.p[n], n)]
       /\ ~ Higher(h, key, n) => z[h] = h
  BY ONLY <1>11, h \in Heaps, Zenon DEF Higher
<1> QED
  BY ONLY <1>10, <1>12, SiftUpIs, Zenon

Sifted(y, n, S, a, key, k) ==
    \E b : Laid(y, S, b) /\ y.cnt = n /\ (Rises(n, a, key, k) => InOrder(n, b, key))

UpFails(d, S, key) ==
    \E h, a : /\ Laid(h, S, a) /\ d \in 1..h.cnt
              /\ ~ Sifted(SiftUp(h, key, a[d]), h.cnt, S, a, key, d)

LEMMA UpLaid ==
    ASSUME NEW h, NEW S, NEW a, Laid(h, S, a), NEW k \in 1..h.cnt, NEW key \in [Timers -> Int],
           NEW y, y = SiftUp(h, key, a[k])
    PROVE  Sifted(y, h.cnt, S, a, key, k)
<1>1. PICK X \in SUBSET Nat : X = {d \in Nat : UpFails(d, S, key)}
  OBVIOUS
<1>2. X = {}
  <2>1. SUFFICES ASSUME X # {} PROVE FALSE
    OBVIOUS
  <2>2. PICK d \in X : \A m \in X : d <= m
    BY <2>1, LeastOf
  <2>3. d \in Nat /\ UpFails(d, S, key)
    BY <1>1, <2>2
  <2> HIDE <1>1
  <2>4. PICK x, c : /\ Laid(x, S, c) /\ d \in 1..x.cnt
                    /\ ~ Sifted(SiftUp(x, key, c[d]), x.cnt, S, c, key, d)
    BY <2>3 DEF UpFails
  <2>5. PICK n \in Nat : n = x.cnt
    BY <2>4, LaidLinks
  <2>6. PICK t : t = c[d]
    OBVIOUS
  <2>7. x \in Heaps /\ t \in Timers /\ t \in Ref /\ t # Nil /\ c[d \div 2] = x.p[t]
    <3>1. x \in Heaps /\ t \in Timers /\ t \in Ref /\ t # Nil
      BY <2>3, <2>4, <2>6, LaidLinks
    <3>2. c[d \div 2] = x.p[t]
      BY <2>3, <2>4, <2>6 DEF Laid
    <3> QED
      BY <3>1, <3>2
  <2>8. \A m \in Nat : m \in 1..n => key[c[m]] \in Int
    BY <2>4, <2>5, KeysOf
  <2>9. PICK z : z = SiftUp(x, key, t)
    OBVIOUS
  <2>10. ~ Sifted(z, n, S, c, key, d)
    BY <2>4, <2>5, <2>6, <2>9
  <2>11. CASE ~ Higher(x, key, t)
    <3>1. z = x
      BY <2>7, <2>9, <2>11, UpStep
    <3>2. d = 1 \/ key[c[d \div 2]] <= key[c[d]]
      <4>1. SUFFICES ASSUME d >= 2 PROVE key[c[d \div 2]] <= key[c[d]]
        BY <2>3, <2>4
      <4>2. PICK q \in Nat : q = d \div 2 /\ q \in 1..n
        BY <2>3, <2>4, <2>5, <4>1, Halves
      <4>3. c[q] # Nil
        BY <2>4, <2>5, <4>2, LaidLinks
      <4>4. ~ (key[t] < key[c[q]])
        BY <2>7, <2>11, <4>2, <4>3 DEF Higher, Swaps
      <4>5. key[t] \in Int /\ key[c[q]] \in Int
        BY <2>3, <2>4, <2>5, <2>6, <2>8, <4>2
      <4> QED
        BY <2>6, <4>2, <4>4, <4>5
    <3>3. Rises(n, c, key, d) => InOrder(n, c, key)
      BY <2>3, <2>4, <2>5, <2>8, <3>2, RisesToTop
    <3>4. Sifted(z, n, S, c, key, d)
      BY <2>4, <2>5, <3>1, <3>3 DEF Sifted
    <3> QED
      BY <2>10, <3>4
  <2>12. CASE Higher(x, key, t)
    <3>1. PICK q \in Nat : q = d \div 2
      BY <2>3, Halves
    <3>2. PICK p : p = c[q]
      OBVIOUS
    <3>3. p # Nil /\ x.p[t] = p /\ key[t] < key[p]
      BY <2>7, <2>12, <3>1, <3>2 DEF Higher, Swaps
    <3>4. q >= 1
      BY <2>4, <3>1, <3>2, <3>3, LaidLinks
    <3>5. q < d /\ (d = 2 * q \/ d = 2 * q + 1) /\ d <= n /\ d >= 2 /\ q \in 1..n
      BY <2>3, <2>4, <2>5, <3>1, <3>4, Halves
    <3>6. PICK w : w = Swap(x, p, t)
      OBVIOUS
    <3>7. PICK e : e = Exch(c, q, d)
      OBVIOUS
    <3>8. Laid(w, S, e) /\ w.cnt = n
      BY <2>3, <2>4, <2>5, <2>6, <3>2, <3>4, <3>5, <3>6, <3>7, SwapLaid
    <3>9. z = SiftUp(w, key, t)
      BY <2>7, <2>9, <2>12, <3>3, <3>6, UpStep
    <3>10. e[q] = t
      BY <2>6, <3>1, <3>7 DEF Exch
    <3>11. Rises(n, c, key, d) => Rises(n, e, key, q)
      <4>1. d \in 2..n
        BY <2>3, <3>5
      <4> QED
        BY <2>6, <2>8, <3>1, <3>2, <3>3, <3>7, <4>1, RiseOnce
    <3>12. ~ UpFails(q, S, key)
      <4>1. q \notin X
        BY <2>2, <2>3, <3>5
      <4> QED
        BY <1>1, <4>1
    <3>13. Sifted(z, n, S, e, key, q)
      BY <3>5, <3>8, <3>9, <3>10, <3>12 DEF UpFails
    <3>14. Sifted(z, n, S, c, key, d)
      BY <3>11, <3>13 DEF Sifted
    <3> QED
      BY <2>10, <3>14
  <2> QED
    BY <2>11, <2>12
<1>3. ~ UpFails(k, S, key)
  <2>1. k \in Nat /\ k \notin X
    BY <1>2
  <2> QED
    BY <1>1, <2>1
<1> QED
  BY <1>3 DEF UpFails

-----------------------------------------------------------------------------
(* Sifting down.                                                           *)
DownFix(key, n, f) ==
    f = [h \in Heaps |-> LET small == Smallest(h, key, n)
                         IN  IF small = n THEN h ELSE f[Swap(h, n, small)]]

TheDown(key, n) == CHOOSE f : DownFix(key, n, f)

LEMMA SiftDownIs == \A h, key, n : SiftDown(h, key, n) = TheDown(key, n)[h]
  BY Zenon DEF SiftDown, TheDown, DownFix

(* The smallest of three, an absent one apart.                             *)
LEMMA SmallestIs ==
    ASSUME NEW h, NEW key, NEW n, NEW l, l = h.l[n], NEW r, r = h.r[n], NEW u,
           u = IF l # Nil /\ key[l] < key[n] THEN l ELSE n
    PROVE  Smallest(h, key, n) = IF r # Nil /\ key[r] < key[u] THEN r ELSE u
  BY DEF Smallest, Swaps

LEMMA DownStep ==
    ASSUME NEW key, NEW n \in Ref, NEW h \in Heaps, NEW small, small = Smallest(h, key, n)
    PROVE  /\ small # n => SiftDown(h, key, n) = SiftDown(Swap(h, n, small), key, n)
           /\ small = n => SiftDown(h, key, n) = h
<1>1. PICK D : D = {x \in Heaps : Smallest(x, key, n) = n}
  OBVIOUS
<1>2. PICK g : g = [x \in Heaps |-> IF x \in D THEN x ELSE Swap(x, n, Smallest(x, key, n))]
  OBVIOUS
<1>3. ASSUME NEW x \in Heaps PROVE Smallest(x, key, n) \in Ref
  <2>1. PICK l, r : l = x.l[n] /\ r = x.r[n]
    OBVIOUS
  <2>2. l \in Ref /\ r \in Ref
    BY <1>3, <2>1 DEF Heaps
  <2>3. PICK u : u = IF l # Nil /\ key[l] < key[n] THEN l ELSE n
    OBVIOUS
  <2>4. Smallest(x, key, n) = IF r # Nil /\ key[r] < key[u] THEN r ELSE u
    BY <2>1, <2>3, SmallestIs
  <2> QED
    BY <2>2, <2>3, <2>4
<1>4. \A x \in Heaps : Swap(x, n, Smallest(x, key, n)) \in Heaps
  BY ONLY <1>3, SwapInHeaps, n \in Ref, Zenon
<1>5. g \in [Heaps -> Heaps]
  BY ONLY <1>2, <1>4, Zenon
<1>6. PICK f : Iterates(f, Heaps, D, g)
  BY <1>1, <1>5, Iteration
<1>7. f = [x \in Heaps |-> IF x \in D THEN x ELSE f[g[x]]]
  BY <1>6 DEF Iterates
<1>8. DownFix(key, n, f)
  <2>1. ASSUME NEW x \in Heaps
        PROVE  (IF x \in D THEN x ELSE f[g[x]]) =
               (IF Smallest(x, key, n) = n THEN x ELSE f[Swap(x, n, Smallest(x, key, n))])
    <3>1. x \in D <=> Smallest(x, key, n) = n
      BY ONLY <1>1, <2>1, Zenon
    <3>2. x \notin D => g[x] = Swap(x, n, Smallest(x, key, n))
      BY ONLY <1>2, <2>1, Zenon
    <3> QED
      BY ONLY <3>1, <3>2, Zenon
  <2>2. [x \in Heaps |-> IF x \in D THEN x ELSE f[g[x]]] =
        [x \in Heaps |-> IF Smallest(x, key, n) = n THEN x ELSE f[Swap(x, n, Smallest(x, key, n))]]
    BY ONLY <2>1, Zenon
  <2> QED
    BY ONLY <1>7, <2>2, Zenon DEF DownFix
<1>9. DownFix(key, n, TheDown(key, n))
  BY ONLY <1>8, Zenon DEF TheDown
<1>10. PICK z : z = TheDown(key, n)
  OBVIOUS
<1>11. z = [x \in Heaps |-> IF Smallest(x, key, n) = n THEN x ELSE z[Swap(x, n, Smallest(x, key, n))]]
  BY ONLY <1>9, <1>10, Zenon DEF DownFix
<1>12. /\ small # n => z[h] = z[Swap(h, n, small)]
       /\ small = n => z[h] = h
  BY ONLY <1>11, h \in Heaps, small = Smallest(h, key, n), Zenon
<1> QED
  BY ONLY <1>10, <1>12, SiftDownIs, Zenon

(* In a layout it is the timer of a child's place, if it is another one.   *)
LEMMA SmallestLaid ==
    ASSUME NEW h, NEW S, NEW a, Laid(h, S, a), NEW n \in Nat, n = h.cnt, NEW k \in 1..n,
           NEW key \in [Timers -> Int], NEW small, small = Smallest(h, key, a[k])
    PROVE  \/ /\ small = a[k]
              /\ \A m \in Nat : m <= n /\ m \div 2 = k => key[a[k]] <= key[a[m]]
           \/ \E j \in 1..n :
                 /\ j = 2 * k \/ j = 2 * k + 1
                 /\ small = a[j] /\ small # a[k] /\ key[a[j]] < key[a[k]]
                 /\ \A m \in Nat : m <= n /\ m \div 2 = k => key[a[j]] <= key[a[m]]
<1>1. PICK t, l, r : t = a[k] /\ l = a[2 * k] /\ r = a[2 * k + 1]
  OBVIOUS
<1>2. h.l[t] = l /\ h.r[t] = r
  BY <1>1 DEF Laid
<1>3. PICK u : u = IF l # Nil /\ key[l] < key[t] THEN l ELSE t
  OBVIOUS
<1>4. small = IF r # Nil /\ key[r] < key[u] THEN r ELSE u
  BY <1>1, <1>2, <1>3, SmallestIs
<1>5. 2 * k \in Nat /\ 2 * k + 1 \in Nat /\ k \in Nat
  OBVIOUS
<1>6. /\ l # Nil <=> 2 * k \in 1..n
      /\ r # Nil <=> 2 * k + 1 \in 1..n
      /\ t # Nil
      /\ l = t => 2 * k = k
      /\ r = t => 2 * k + 1 = k
  BY <1>1, <1>5, LaidLinks
<1>7. \A m \in Nat : m \in 1..n => key[a[m]] \in Int
  BY KeysOf
<1>8. l # t /\ r # t
  BY <1>5, <1>6
<1>9. /\ key[t] \in Int
      /\ l # Nil => key[l] \in Int
      /\ r # Nil => key[r] \in Int
  BY <1>1, <1>5, <1>6, <1>7
<1>10. ASSUME NEW m \in Nat, m <= n, m \div 2 = k
       PROVE  (m = 2 * k /\ l # Nil /\ a[m] = l) \/ (m = 2 * k + 1 /\ r # Nil /\ a[m] = r)
  <2>1. m = 2 * k \/ m = 2 * k + 1
    BY <1>10, Halves
  <2> QED
    BY <1>1, <1>6, <1>10, <2>1
<1>11. CASE r # Nil /\ key[r] < key[u]
  <2>1. small = r /\ key[r] < key[t] /\ (l # Nil => key[r] <= key[l])
    BY <1>3, <1>4, <1>9, <1>11
  <2>2. \A m \in Nat : m <= n /\ m \div 2 = k => key[r] <= key[a[m]]
    BY <1>9, <1>10, <2>1
  <2>3. 2 * k + 1 \in 1..n
    BY <1>6, <1>11
  <2> QED
    BY <1>1, <1>8, <2>1, <2>2, <2>3
<1>12. CASE ~ (r # Nil /\ key[r] < key[u]) /\ l # Nil /\ key[l] < key[t]
  <2>1. small = l /\ (r # Nil => key[l] <= key[r])
    BY <1>3, <1>4, <1>9, <1>12
  <2>2. \A m \in Nat : m <= n /\ m \div 2 = k => key[l] <= key[a[m]]
    BY <1>9, <1>10, <2>1
  <2>3. 2 * k \in 1..n
    BY <1>6, <1>12
  <2> QED
    BY <1>1, <1>8, <1>12, <2>1, <2>2, <2>3
<1>13. CASE ~ (r # Nil /\ key[r] < key[u]) /\ ~ (l # Nil /\ key[l] < key[t])
  <2>1. small = t /\ (r # Nil => key[t] <= key[r]) /\ (l # Nil => key[t] <= key[l])
    BY <1>3, <1>4, <1>9, <1>13
  <2>2. \A m \in Nat : m <= n /\ m \div 2 = k => key[t] <= key[a[m]]
    BY <1>10, <2>1
  <2> QED
    BY <1>1, <2>1, <2>2
<1> QED
  BY <1>11, <1>12, <1>13

(* Where the timer has sunk to, it may rise from.                          *)
Sunk(y, n, S, a, key, k, t) ==
    \E b, j : /\ Laid(y, S, b) /\ y.cnt = n /\ j \in 1..n /\ b[j] = t
              /\ Loose(n, a, key, k) => Rises(n, b, key, j)

DownFails(d, S, key) ==
    \E h, a, k : /\ Laid(h, S, a) /\ k \in 1..h.cnt /\ d = h.cnt - k
                 /\ ~ Sunk(SiftDown(h, key, a[k]), h.cnt, S, a, key, k, a[k])

LEMMA DownLaid ==
    ASSUME NEW h, NEW S, NEW a, Laid(h, S, a), NEW k \in 1..h.cnt, NEW key \in [Timers -> Int],
           NEW y, y = SiftDown(h, key, a[k])
    PROVE  Sunk(y, h.cnt, S, a, key, k, a[k])
<1>1. PICK X \in SUBSET Nat : X = {d \in Nat : DownFails(d, S, key)}
  OBVIOUS
<1>2. X = {}
  <2>1. SUFFICES ASSUME X # {} PROVE FALSE
    OBVIOUS
  <2>2. PICK d \in X : \A m \in X : d <= m
    BY <2>1, LeastOf
  <2>3. d \in Nat /\ DownFails(d, S, key)
    BY <1>1, <2>2
  <2> HIDE <1>1
  <2>4. PICK x, c, i : /\ Laid(x, S, c) /\ i \in 1..x.cnt /\ d = x.cnt - i
                       /\ ~ Sunk(SiftDown(x, key, c[i]), x.cnt, S, c, key, i, c[i])
    BY <2>3 DEF DownFails
  <2>5. PICK n \in Nat : n = x.cnt
    BY <2>4, LaidLinks
  <2>6. PICK t : t = c[i]
    OBVIOUS
  <2>7. x \in Heaps /\ t \in Ref /\ t \in Timers /\ i \in Nat
    <3>1. i \in Nat
      BY <2>4
    <3> QED
      BY <2>4, <2>6, <3>1, LaidLinks
  <2>8. \A m \in Nat : m \in 1..n => key[c[m]] \in Int
    BY <2>4, <2>5, KeysOf
  <2>9. PICK z : z = SiftDown(x, key, t)
    OBVIOUS
  <2>10. ~ Sunk(z, n, S, c, key, i, t)
    BY <2>4, <2>5, <2>6, <2>9
  <2>11. PICK small : small = Smallest(x, key, t)
    OBVIOUS
  <2>12. CASE small = t /\ \A m \in Nat : m <= n /\ m \div 2 = i => key[c[i]] <= key[c[m]]
    <3>1. z = x
      <4>1. small = t
        BY <2>12
      <4>2. small = t => SiftDown(x, key, t) = x
        BY ONLY <2>7, <2>11, DownStep
      <4> QED
        BY ONLY <2>9, <4>1, <4>2, Zenon
    <3>2. Loose(n, c, key, i) => Rises(n, c, key, i)
      BY <2>12 DEF Rises
    <3>3. Sunk(z, n, S, c, key, i, t)
      BY <2>4, <2>5, <2>6, <3>1, <3>2 DEF Sunk
    <3> QED
      BY <2>10, <3>3
  <2>13. ASSUME NEW j \in 1..n, j = 2 * i \/ j = 2 * i + 1,
                small = c[j], small # t, key[c[j]] < key[c[i]],
                \A m \in Nat : m <= n /\ m \div 2 = i => key[c[j]] <= key[c[m]]
         PROVE  FALSE
    <3>1. PICK w : w = Swap(x, t, small)
      OBVIOUS
    <3>2. PICK e : e = Exch(c, i, j)
      OBVIOUS
    <3>3. i >= 1 /\ j \in Nat /\ j <= n /\ i <= n /\ j > i
      BY <2>4, <2>5, <2>7, <2>13
    <3>4. Laid(w, S, e) /\ w.cnt = n
      BY <2>4, <2>5, <2>6, <2>7, <2>13, <3>1, <3>2, <3>3, SwapLaid
    <3>5. z = SiftDown(w, key, t)
      <4>1. small # t
        BY <2>13
      <4> QED
        BY ONLY <2>7, <2>9, <2>11, <3>1, <4>1, DownStep
    <3>6. e[j] = t
      BY <2>6, <3>2, <3>3 DEF Exch
    <3>7. Loose(n, c, key, i) => Loose(n, e, key, j)
      <4>1. j \div 2 = i
        BY <2>7, <2>13, Halves
      <4>2. i \in 1..n
        BY <2>4, <2>5
      <4> QED
        BY <2>8, <2>13, <3>2, <4>1, <4>2, SinkOnce
    <3>8. PICK f \in Nat : f = n - j /\ f < d
      BY <2>3, <2>4, <2>5, <2>7, <3>3
    <3>9. ~ DownFails(f, S, key)
      <4>1. f \notin X
        BY <2>2, <2>3, <3>8
      <4> QED
        BY <1>1, <4>1
    <3>10. Sunk(z, n, S, e, key, j, t)
      BY <3>4, <3>5, <3>6, <3>8, <3>9 DEF DownFails
    <3>11. Sunk(z, n, S, c, key, i, t)
      BY <3>7, <3>10 DEF Sunk
    <3> QED
      BY <2>10, <3>11
  <2>14. i \in 1..n
    BY <2>4, <2>5
  <2>15. \/ small = t /\ \A m \in Nat : m <= n /\ m \div 2 = i => key[c[i]] <= key[c[m]]
         \/ \E j \in 1..n :
               /\ j = 2 * i \/ j = 2 * i + 1
               /\ small = c[j] /\ small # t /\ key[c[j]] < key[c[i]]
               /\ \A m \in Nat : m <= n /\ m \div 2 = i => key[c[j]] <= key[c[m]]
    BY <2>4, <2>5, <2>6, <2>11, <2>14, SmallestLaid
  <2> QED
    BY <2>12, <2>13, <2>15
<1>3. PICK d \in Nat : d = h.cnt - k
  BY LaidLinks
<1>4. ~ DownFails(d, S, key)
  BY <1>1, <1>2
<1> QED
  BY <1>3, <1>4 DEF DownFails

-----------------------------------------------------------------------------
(* Insertion.                                                              *)
LEMMA InitGives ==
    ASSUME NEW x \in Heaps, NEW n \in Ref, NEW y, y = NodeInit(x, n), Nil \in Ref
    PROVE  /\ SameBut(y, x)
           /\ \A z \in Ref : /\ y.p[z] = IF z = n THEN Nil ELSE x.p[z]
                             /\ y.l[z] = IF z = n THEN Nil ELSE x.l[z]
                             /\ y.r[z] = IF z = n THEN Nil ELSE x.r[z]
<1>1. PICK x1 : SetsP(x1, x, n, Nil)
  BY DEF SetsP
<1>2. PICK x2 : SetsL(x2, x1, n, Nil)
  BY DEF SetsL
<1>3. PICK x3 : SetsR(x3, x2, n, Nil)
  BY DEF SetsR
<1>4. y = x3
  <2>1. y = [[[x EXCEPT !.p[n] = Nil] EXCEPT !.l[n] = Nil] EXCEPT !.r[n] = Nil]
    BY SMT DEF Heaps, NodeInit
  <2> QED
    BY ONLY <1>1, <1>2, <1>3, <2>1 DEF SetsP, SetsL, SetsR
<1>5. /\ SameBut(x1, x) /\ x1.l = x.l /\ x1.r = x.r
      /\ \A z \in Ref : x1.p[z] = IF z = n THEN Nil ELSE x.p[z]
  BY <1>1, SetParent
<1>6. /\ SameBut(x2, x1) /\ x2.p = x1.p /\ x2.r = x1.r
      /\ \A z \in Ref : x2.l[z] = IF z = n THEN Nil ELSE x1.l[z]
  BY <1>2, <1>5, SetLeft DEF SameBut
<1>7. /\ SameBut(x3, x2) /\ x3.p = x2.p /\ x3.l = x2.l
      /\ \A z \in Ref : x3.r[z] = IF z = n THEN Nil ELSE x2.r[z]
  BY <1>3, <1>6, SetRight DEF SameBut
<1> QED
  BY <1>4, <1>5, <1>6, <1>7 DEF SameBut

LEMMA InitLaid ==
    ASSUME NEW h, NEW S, NEW a, Laid(h, S, a), NEW t \in Timers, t \notin S,
           NEW x, x = NodeInit(h, t)
    PROVE  Laid(x, S, a) /\ x.cnt = h.cnt /\ x.l[t] = Nil /\ x.r[t] = Nil /\ x.p[t] = Nil
<1>1. /\ h \in Heaps /\ h.cnt \in Nat /\ Nil \in Ref /\ t \in Ref /\ t # Nil
      /\ \A k \in Nat : a[k] \in Ref
      /\ \A k \in Nat : a[k] # Nil <=> k \in 1..h.cnt
  BY LaidLinks
<1>2. /\ SameBut(x, h)
      /\ \A z \in Ref : /\ x.p[z] = IF z = t THEN Nil ELSE h.p[z]
                        /\ x.l[z] = IF z = t THEN Nil ELSE h.l[z]
                        /\ x.r[z] = IF z = t THEN Nil ELSE h.r[z]
  BY <1>1, InitGives
<1>3. \A k \in Nat : a[k] # t
  BY <1>1 DEF Laid, Placed
<1>4. Placed(x, S, a)
  BY <1>2 DEF Laid, Placed, SameBut
<1>5. x.cnt = h.cnt /\ x.root = a[1]
  BY <1>2 DEF Laid, SameBut
<1>6. ASSUME NEW k \in Nat, k >= 1
      PROVE  x.l[a[k]] = a[2 * k] /\ x.r[a[k]] = a[2 * k + 1] /\ (k <= h.cnt => x.p[a[k]] = a[k \div 2])
  <2>1. x.l[a[k]] = h.l[a[k]] /\ x.r[a[k]] = h.r[a[k]] /\ x.p[a[k]] = h.p[a[k]]
    BY <1>1, <1>2, <1>3
  <2> QED
    BY <1>6, <2>1 DEF Laid
<1> QED
  BY <1>1, <1>2, <1>4, <1>5, <1>6 DEF Laid

PutAt(y, h, a, k, q, v) ==
    /\ y \in Heaps /\ y.cnt = h.cnt /\ y.p = h.p
    /\ y.root = IF k = 1 THEN v ELSE h.root
    /\ \A z \in Ref : /\ y.l[z] = IF k >= 2 /\ k = 2 * q /\ z = a[q] THEN v ELSE h.l[z]
                      /\ y.r[z] = IF k >= 2 /\ k = 2 * q + 1 /\ z = a[q] THEN v ELSE h.r[z]

LEMMA PutGives ==
    ASSUME NEW h, NEW S, NEW a, Laid(h, S, a), NEW k \in Nat, k >= 1,
           NEW q \in Nat, q = k \div 2, q <= h.cnt, NEW v \in Ref, NEW y, y = Put(h, k, v)
    PROVE  PutAt(y, h, a, k, q, v)
<1>1. h \in Heaps /\ a[q] \in Ref
  BY LaidLinks
<1>2. CASE k = 1
  <2>1. y = [h EXCEPT !.root = v]
    BY <1>2 DEF Put
  <2>2. y \in Heaps /\ y.root = v /\ y.cnt = h.cnt /\ y.p = h.p /\ y.l = h.l /\ y.r = h.r
    BY <1>1, <2>1, SetRoot
  <2> QED
    BY <1>2, <2>2 DEF PutAt
<1>3. CASE k # 1
  <2>1. q \in 1..h.cnt /\ k >= 2
    BY <1>3, Halves
  <2>2. PICK p : p = a[q]
    OBVIOUS
  <2>3. Places(h)[k \div 2] = p
    BY <2>1, <2>2, PlacesLaid
  <2>4. CASE k % 2 = 1
    <3>1. k = 2 * q + 1 /\ k # 2 * q
      BY <2>4, Halves
    <3>2. SetsR(y, h, p, v)
      BY ONLY <1>3, <2>3, <2>4, y = Put(h, k, v), Zenon DEF Put, SetsR
    <3>3. /\ SameBut(y, h) /\ y.p = h.p /\ y.l = h.l
          /\ \A z \in Ref : y.r[z] = IF z = p THEN v ELSE h.r[z]
      BY <1>1, <2>2, <3>2, SetRight
    <3> QED
      BY <1>3, <2>1, <2>2, <3>1, <3>3 DEF PutAt, SameBut
  <2>5. CASE k % 2 # 1
    <3>1. k = 2 * q /\ k # 2 * q + 1
      BY <2>5, Halves
    <3>2. SetsL(y, h, p, v)
      BY ONLY <1>3, <2>3, <2>5, y = Put(h, k, v), Zenon DEF Put, SetsL
    <3>3. /\ SameBut(y, h) /\ y.p = h.p /\ y.r = h.r
          /\ \A z \in Ref : y.l[z] = IF z = p THEN v ELSE h.l[z]
      BY <1>1, <2>2, <3>2, SetLeft
    <3> QED
      BY <1>3, <2>1, <2>2, <3>1, <3>3 DEF PutAt, SameBut
  <2> QED
    BY <2>4, <2>5
<1> QED
  BY <1>2, <1>3

LEMMA AttachedLaid ==
    ASSUME NEW h, NEW S, NEW a, Laid(h, S, a), NEW t \in Timers, t \notin S,
           h.l[t] = Nil, h.r[t] = Nil,
           NEW k \in Nat, k = h.cnt + 1, NEW q \in Nat, q = k \div 2,
           NEW u, PutAt(u, h, a, k, q, t),
           NEW x \in Heaps, x.cnt = k, x.root = u.root, x.l = u.l, x.r = u.r,
           \A z \in Ref : x.p[z] = IF z = t THEN a[q] ELSE h.p[z],
           NEW b, b = [m \in Nat |-> IF m = k THEN t ELSE a[m]]
    PROVE  Laid(x, S \cup {t}, b)
<1>1. /\ h.cnt \in Nat /\ Nil \in Ref /\ t \in Ref /\ t # Nil
      /\ a[0] = Nil /\ h.l[Nil] = Nil /\ h.r[Nil] = Nil
      /\ \A m \in Nat : a[m] \in Ref
      /\ \A m \in Nat : a[m] # Nil <=> m \in 1..h.cnt
      /\ \A m \in Nat : m > h.cnt => a[m] = Nil
      /\ \A i, j \in Nat : a[i] # Nil /\ a[i] = a[j] => i = j
  BY LaidLinks
<1>2. /\ S \in SUBSET Timers /\ a \in [Nat -> Ref]
      /\ \A m \in Nat : m \in 1..h.cnt => a[m] \in S
      /\ \A s \in S : \E m \in 1..h.cnt : a[m] = s
  BY DEF Laid, Placed
<1>3. k >= 1 /\ q < k /\ (k = 2 * q \/ k = 2 * q + 1) /\ (k >= 2 => q \in 1..h.cnt)
  BY <1>1, Halves
<1>4. \A m \in Nat : b[m] = IF m = k THEN t ELSE a[m]
  OBVIOUS
<1>5. \A m \in Nat : a[m] # t
  BY <1>1, <1>2
<1>6. Placed(x, S \cup {t}, b)
  <2>1. b \in [Nat -> Ref] /\ S \cup {t} \in SUBSET Timers
    BY <1>1, <1>2
  <2>2. \A m \in Nat : m \in 1..k => b[m] \in S \cup {t}
    BY <1>1, <1>2, <1>4
  <2>3. \A m \in Nat : m \notin 1..k => b[m] = Nil
    BY <1>1, <1>3, <1>4
  <2>4. \A i, j \in 1..k : b[i] = b[j] => i = j
    BY <1>1, <1>4, <1>5
  <2>5. ASSUME NEW s \in S \cup {t} PROVE \E m \in 1..k : b[m] = s
    <3>1. CASE s = t
      BY <1>3, <1>4, <3>1
    <3>2. CASE s \in S
      <4>1. PICK m \in 1..h.cnt : a[m] = s
        BY <1>2, <3>2
      <4>2. m \in 1..k /\ m # k /\ m \in Nat
        BY <1>1
      <4> QED
        BY <1>4, <4>1, <4>2
    <3> QED
      BY <3>1, <3>2
  <2>6. x \in Heaps /\ x.cnt = k
    OBVIOUS
  <2> QED
    BY ONLY <2>1, <2>2, <2>3, <2>4, <2>5, <2>6 DEF Placed
<1>7. x.root = b[1]
  BY <1>4 DEF PutAt, Laid
<1>8. /\ \A z \in Ref : x.l[z] = IF k >= 2 /\ k = 2 * q /\ z = a[q] THEN t ELSE h.l[z]
      /\ \A z \in Ref : x.r[z] = IF k >= 2 /\ k = 2 * q + 1 /\ z = a[q] THEN t ELSE h.r[z]
  BY DEF PutAt
<1>9. ASSUME NEW m \in Nat, m >= 1 PROVE x.l[b[m]] = b[2 * m] /\ x.r[b[m]] = b[2 * m + 1]
  <2>1. 2 * m \in Nat /\ 2 * m + 1 \in Nat /\ 2 * m > m /\ 2 * m + 1 > m
    BY <1>9
  <2>2. CASE m = k
    <3>1. b[2 * m] = Nil /\ b[2 * m + 1] = Nil
      BY <1>1, <1>4, <2>1, <2>2
    <3>2. x.l[t] = Nil /\ x.r[t] = Nil
      BY <1>1, <1>5, <1>8
    <3> QED
      BY <1>4, <2>2, <3>1, <3>2
  <2>3. CASE m # k
    <3>1. b[m] = a[m] /\ a[m] \in Ref
      BY <1>1, <1>4, <2>3
    <3>2. h.l[a[m]] = a[2 * m] /\ h.r[a[m]] = a[2 * m + 1]
      BY <1>9 DEF Laid
    <3>3. k >= 2 => (a[m] = a[q] <=> m = q)
      BY <1>1, <1>3
    <3>4. x.l[b[m]] = b[2 * m]
      <4>1. CASE k >= 2 /\ k = 2 * q /\ m = q
        BY <1>4, <1>8, <2>1, <3>1, <4>1
      <4>2. CASE ~ (k >= 2 /\ k = 2 * q /\ m = q)
        <5>1. 2 * m # k
          BY <1>3, <1>9, <4>2
        <5> QED
          BY <1>4, <1>8, <2>1, <3>1, <3>2, <3>3, <4>2, <5>1
      <4> QED
        BY <4>1, <4>2
    <3>5. x.r[b[m]] = b[2 * m + 1]
      <4>1. CASE k >= 2 /\ k = 2 * q + 1 /\ m = q
        BY <1>4, <1>8, <2>1, <3>1, <4>1
      <4>2. CASE ~ (k >= 2 /\ k = 2 * q + 1 /\ m = q)
        <5>1. 2 * m + 1 # k
          BY <1>3, <1>9, <4>2
        <5> QED
          BY <1>4, <1>8, <2>1, <3>1, <3>2, <3>3, <4>2, <5>1
      <4> QED
        BY <4>1, <4>2
    <3> QED
      BY <3>4, <3>5
  <2> QED
    BY <2>2, <2>3
<1>10. ASSUME NEW m \in Nat, m >= 1, m <= k PROVE x.p[b[m]] = b[m \div 2]
  <2>1. PICK g \in Nat : g = m \div 2 /\ g < m
    BY <1>10, Halves
  <2>2. g # k
    BY <1>10, <2>1
  <2>3. CASE m = k
    BY <1>1, <1>4, <2>1, <2>2, <2>3
  <2>4. CASE m # k
    <3>1. m <= h.cnt
      BY <1>1, <1>10, <2>4
    <3>2. h.p[a[m]] = a[g]
      BY <1>10, <2>1, <3>1 DEF Laid
    <3> QED
      BY <1>1, <1>4, <1>5, <2>1, <2>2, <2>4, <3>2
  <2> QED
    BY <2>3, <2>4
<1> QED
  BY <1>6, <1>7, <1>9, <1>10 DEF Laid

Inserted(x, S, a, key, t, y) ==
    \E b : /\ Laid(y, S \cup {t}, b)
           /\ InOrder(x.cnt, a, key) => InOrder(y.cnt, b, key)

LEMMA InsertLaid ==
    ASSUME NEW h, NEW S, NEW a, Laid(h, S, a), NEW t \in Timers, t \notin S,
           h.l[t] = Nil, h.r[t] = Nil, h.p[t] = Nil,
           NEW key \in [Timers -> Int], NEW y, y = HeapInsert(h, key, t)
    PROVE  Inserted(h, S, a, key, t, y)
<1>1. h \in Heaps /\ h.cnt \in Nat /\ t \in Ref /\ a[0] = Nil /\ \A m \in Nat : a[m] \in Ref
  BY LaidLinks
<1>2. PICK k \in Nat, q \in Nat : k = h.cnt + 1 /\ q = k \div 2 /\ q <= h.cnt /\ k >= 1
  BY <1>1, Halves
<1>3. PICK u : u = Put(h, k, t)
  OBVIOUS
<1>4. PutAt(u, h, a, k, q, t)
  BY <1>1, <1>2, <1>3, PutGives
<1>5. PICK put : put = [u EXCEPT !.cnt = k]
  OBVIOUS
<1>6. put \in Heaps /\ put.cnt = k /\ put.root = u.root /\ put.l = u.l /\ put.r = u.r /\ put.p = h.p
  BY <1>4, <1>5 DEF PutAt, Heaps
<1>7. PICK b : b = [m \in Nat |-> IF m = k THEN t ELSE a[m]]
  OBVIOUS
<1>8. CASE k = 1
  <2>1. y = put
    BY ONLY <1>2, <1>3, <1>5, <1>8, y = HeapInsert(h, key, t), Zenon DEF HeapInsert
  <2>2. q = 0
    BY <1>2, <1>8
  <2>3. \A z \in Ref : put.p[z] = IF z = t THEN a[q] ELSE h.p[z]
    BY <1>1, <1>6, <2>2
  <2>4. Laid(put, S \cup {t}, b)
    BY <1>2, <1>4, <1>6, <1>7, <2>3, AttachedLaid
  <2>5. InOrder(1, b, key)
    BY DEF InOrder
  <2> QED
    BY <1>6, <1>8, <2>1, <2>4, <2>5 DEF Inserted
<1>9. CASE k # 1
  <2>1. q \in 1..h.cnt /\ k >= 2
    BY <1>2, <1>9, Halves
  <2>2. Places(h)[q] = a[q]
    BY <2>1, PlacesLaid
  <2>3. PICK x : SetsP(x, put, t, a[q])
    BY DEF SetsP
  <2>4. y = SiftUp(x, key, t)
    BY ONLY <1>2, <1>3, <1>5, <1>9, <2>2, <2>3, y = HeapInsert(h, key, t), Zenon DEF HeapInsert, SetsP
  <2>5. /\ SameBut(x, put) /\ x.l = put.l /\ x.r = put.r
        /\ \A z \in Ref : x.p[z] = IF z = t THEN a[q] ELSE put.p[z]
    BY <1>1, <1>2, <1>6, <2>3, SetParent
  <2>6. x \in Heaps /\ x.cnt = k /\ x.root = u.root /\ x.l = u.l /\ x.r = u.r
    BY <1>6, <2>5 DEF SameBut
  <2>7. \A z \in Ref : x.p[z] = IF z = t THEN a[q] ELSE h.p[z]
    BY <1>6, <2>5
  <2>8. Laid(x, S \cup {t}, b)
    BY <1>2, <1>4, <1>7, <2>6, <2>7, AttachedLaid
  <2>9. b[k] = t /\ k \in 1..x.cnt /\ \A m \in Nat : m # k => b[m] = a[m]
    BY <1>2, <1>7, <2>6
  <2>10. Sifted(y, k, S \cup {t}, b, key, k)
    BY <2>4, <2>6, <2>8, <2>9, UpLaid
  <2>11. ASSUME InOrder(h.cnt, a, key) PROVE Rises(k, b, key, k)
    <3>1. ASSUME NEW m \in Nat, m >= 2, m <= k, m # k, m \div 2 # k
          PROVE  key[b[m \div 2]] <= key[b[m]]
      <4>1. m \div 2 \in Nat
        BY Halves
      <4>2. m <= h.cnt
        BY <1>1, <1>2, <3>1
      <4> QED
        BY <2>9, <2>11, <3>1, <4>1, <4>2 DEF InOrder
    <3>2. \A m \in Nat : m <= k => m \div 2 # k
      BY <1>2, Halves
    <3> QED
      BY <3>1, <3>2 DEF Rises, Loose
  <2>12. PICK c : Laid(y, S \cup {t}, c) /\ y.cnt = k /\ (Rises(k, b, key, k) => InOrder(k, c, key))
    BY <2>10 DEF Sifted
  <2> QED
    BY <2>11, <2>12 DEF Inserted
<1> QED
  BY <1>8, <1>9

-----------------------------------------------------------------------------
(* Removal: the last place is cut off, and the timer that was there takes  *)
(* the place of the one removed.                                           *)
LEMMA CutLaid ==
    ASSUME NEW h, NEW S, NEW a, Laid(h, S, a), NEW k \in Nat, k >= 1, k = h.cnt,
           NEW q \in Nat, q = k \div 2, NEW u, PutAt(u, h, a, k, q, Nil),
           NEW x \in Heaps, x.cnt = k - 1, x.root = u.root, x.l = u.l, x.r = u.r, x.p = h.p,
           NEW b, b = [m \in Nat |-> IF m = k THEN Nil ELSE a[m]]
    PROVE  Laid(x, S \ {a[k]}, b)
<1>1. /\ h.cnt \in Nat /\ Nil \in Ref
      /\ a[0] = Nil /\ h.l[Nil] = Nil /\ h.r[Nil] = Nil
      /\ \A m \in Nat : a[m] \in Ref
      /\ \A m \in Nat : a[m] # Nil <=> m \in 1..h.cnt
      /\ \A m \in Nat : m > h.cnt => a[m] = Nil
      /\ \A i, j \in Nat : a[i] # Nil /\ a[i] = a[j] => i = j
  BY LaidLinks
<1>2. /\ S \in SUBSET Timers /\ a \in [Nat -> Ref]
      /\ \A m \in Nat : m \in 1..h.cnt => a[m] \in S
      /\ \A s \in S : \E m \in 1..h.cnt : a[m] = s
  BY DEF Laid, Placed
<1>3. q < k /\ (k = 2 * q \/ k = 2 * q + 1) /\ (k >= 2 => q \in 1..h.cnt)
  BY Halves
<1>4. \A m \in Nat : b[m] = IF m = k THEN Nil ELSE a[m]
  OBVIOUS
<1>5. Placed(x, S \ {a[k]}, b)
  <2>1. b \in [Nat -> Ref] /\ S \ {a[k]} \in SUBSET Timers
    BY <1>1, <1>2
  <2>2. ASSUME NEW m \in Nat, m \in 1..x.cnt PROVE b[m] \in S \ {a[k]}
    <3>1. m \in 1..h.cnt /\ m # k
      BY <2>2
    <3> QED
      BY <1>1, <1>2, <1>4, <3>1
  <2>3. ASSUME NEW m \in Nat, m \notin 1..x.cnt PROVE b[m] = Nil
    BY <1>1, <1>4, <2>3
  <2>4. ASSUME NEW i \in 1..x.cnt, NEW j \in 1..x.cnt, b[i] = b[j] PROVE i = j
    <3>1. i \in 1..h.cnt /\ j \in 1..h.cnt /\ i # k /\ j # k /\ i \in Nat /\ j \in Nat
      BY <1>1
    <3> QED
      BY <1>1, <1>4, <2>4, <3>1
  <2>5. ASSUME NEW s \in S \ {a[k]} PROVE \E m \in 1..x.cnt : b[m] = s
    <3>1. PICK m \in 1..h.cnt : a[m] = s
      BY <1>2
    <3>2. m # k
      BY <3>1
    <3>3. m \in 1..x.cnt /\ m \in Nat
      BY <1>1, <3>2
    <3> QED
      BY <1>4, <3>1, <3>2, <3>3
  <2> QED
    BY <2>1, <2>2, <2>3, <2>4, <2>5 DEF Placed
<1>6. x.root = b[1]
  BY <1>4 DEF PutAt, Laid
<1>7. /\ \A z \in Ref : x.l[z] = IF k >= 2 /\ k = 2 * q /\ z = a[q] THEN Nil ELSE h.l[z]
      /\ \A z \in Ref : x.r[z] = IF k >= 2 /\ k = 2 * q + 1 /\ z = a[q] THEN Nil ELSE h.r[z]
  BY DEF PutAt
<1>8. k >= 2 => a[q] # Nil
  BY <1>1, <1>3
<1>9. ASSUME NEW m \in Nat, m >= 1 PROVE x.l[b[m]] = b[2 * m] /\ x.r[b[m]] = b[2 * m + 1]
  <2>1. 2 * m \in Nat /\ 2 * m + 1 \in Nat /\ 2 * m > m /\ 2 * m + 1 > m
    BY <1>9
  <2>2. CASE m = k
    <3>1. b[2 * m] = Nil /\ b[2 * m + 1] = Nil
      BY <1>1, <1>4, <2>1, <2>2
    <3>2. x.l[Nil] = Nil /\ x.r[Nil] = Nil
      BY <1>1, <1>7, <1>8
    <3> QED
      BY <1>4, <2>2, <3>1, <3>2
  <2>3. CASE m # k
    <3>1. b[m] = a[m] /\ a[m] \in Ref
      BY <1>1, <1>4, <2>3
    <3>2. h.l[a[m]] = a[2 * m] /\ h.r[a[m]] = a[2 * m + 1]
      BY <1>9 DEF Laid
    <3>3. k >= 2 => (a[m] = a[q] <=> m = q)
      BY <1>1, <1>3
    <3>4. x.l[b[m]] = b[2 * m]
      <4>1. CASE k >= 2 /\ k = 2 * q /\ m = q
        BY <1>4, <1>7, <2>1, <3>1, <4>1
      <4>2. CASE ~ (k >= 2 /\ k = 2 * q /\ m = q)
        <5>1. 2 * m # k
          BY <1>3, <1>9, <4>2
        <5> QED
          BY <1>4, <1>7, <2>1, <3>1, <3>2, <3>3, <4>2, <5>1
      <4> QED
        BY <4>1, <4>2
    <3>5. x.r[b[m]] = b[2 * m + 1]
      <4>1. CASE k >= 2 /\ k = 2 * q + 1 /\ m = q
        BY <1>4, <1>7, <2>1, <3>1, <4>1
      <4>2. CASE ~ (k >= 2 /\ k = 2 * q + 1 /\ m = q)
        <5>1. 2 * m + 1 # k
          BY <1>3, <1>9, <4>2
        <5> QED
          BY <1>4, <1>7, <2>1, <3>1, <3>2, <3>3, <4>2, <5>1
      <4> QED
        BY <4>1, <4>2
    <3> QED
      BY <3>4, <3>5
  <2> QED
    BY <2>2, <2>3
<1>10. ASSUME NEW m \in Nat, m >= 1, m <= x.cnt PROVE x.p[b[m]] = b[m \div 2]
  <2>1. PICK g \in Nat : g = m \div 2 /\ g < m
    BY <1>10, Halves
  <2>2. m <= h.cnt /\ m # k /\ g # k
    BY <1>10, <2>1
  <2>3. h.p[a[m]] = a[g]
    BY <1>10, <2>1, <2>2 DEF Laid
  <2> QED
    BY <1>4, <2>1, <2>2, <2>3
<1> QED
  BY <1>5, <1>6, <1>9, <1>10 DEF Laid

(* Timer n gets the links of timer t.                                      *)
Moves(y, x, n, t) == y = [x EXCEPT !.l[n] = x.l[t], !.r[n] = x.r[t], !.p[n] = x.p[t]]

LEMMA MovesGives ==
    ASSUME NEW x \in Heaps, NEW n \in Ref, NEW t \in Ref, NEW y, Moves(y, x, n, t)
    PROVE  /\ SameBut(y, x)
           /\ \A z \in Ref : /\ y.p[z] = IF z = n THEN x.p[t] ELSE x.p[z]
                             /\ y.l[z] = IF z = n THEN x.l[t] ELSE x.l[z]
                             /\ y.r[z] = IF z = n THEN x.r[t] ELSE x.r[z]
<1>1. PICK p \in Ref, l \in Ref, r \in Ref : p = x.p[t] /\ l = x.l[t] /\ r = x.r[t]
  BY DEF Heaps
<1>2. PICK x1 : SetsL(x1, x, n, l)
  BY DEF SetsL
<1>3. PICK x2 : SetsR(x2, x1, n, r)
  BY DEF SetsR
<1>4. PICK x3 : SetsP(x3, x2, n, p)
  BY DEF SetsP
<1>5. y = x3
  <2>1. y = [x EXCEPT !.l[n] = l, !.r[n] = r, !.p[n] = p]
    BY ONLY <1>1, Moves(y, x, n, t), Zenon DEF Moves
  <2>2. y = [[[x EXCEPT !.l[n] = l] EXCEPT !.r[n] = r] EXCEPT !.p[n] = p]
    BY ONLY <2>1, x \in Heaps, SMT DEF Heaps
  <2> QED
    BY ONLY <1>2, <1>3, <1>4, <2>2 DEF SetsP, SetsL, SetsR
<1>6. /\ SameBut(x1, x) /\ x1.p = x.p /\ x1.r = x.r
      /\ \A z \in Ref : x1.l[z] = IF z = n THEN l ELSE x.l[z]
  BY <1>2, SetLeft
<1>7. /\ SameBut(x2, x1) /\ x2.p = x1.p /\ x2.l = x1.l
      /\ \A z \in Ref : x2.r[z] = IF z = n THEN r ELSE x1.r[z]
  BY <1>3, <1>6, SetRight DEF SameBut
<1>8. /\ SameBut(x3, x2) /\ x3.l = x2.l /\ x3.r = x2.r
      /\ \A z \in Ref : x3.p[z] = IF z = n THEN p ELSE x2.p[z]
  BY <1>4, <1>7, SetParent DEF SameBut
<1> QED
  BY <1>1, <1>5, <1>6, <1>7, <1>8 DEF SameBut

(* Timer n is put where timer t is.                                        *)
TakesPlace(y, x, n, t) ==
    \E u : Moves(u, x, n, t) /\ y = Relink(Adopt(u, {x.l[t], x.r[t]}, n), x.p[t], t, n)

Replaced(a, i, n) == [m \in Nat |-> IF m = i THEN n ELSE a[m]]

LEMMA ReplacedPlaced ==
    ASSUME NEW h, NEW S, NEW a, Laid(h, S, a), NEW i \in 1..h.cnt, NEW n \in Timers, n \notin S,
           NEW y \in Heaps, y.cnt = h.cnt
    PROVE  Placed(y, (S \ {a[i]}) \cup {n}, Replaced(a, i, n))
<1>1. /\ h.cnt \in Nat /\ i \in Nat /\ n \in Ref /\ n # Nil
      /\ \A m \in Nat : a[m] \in Ref
      /\ \A m \in Nat : a[m] # Nil <=> m \in 1..h.cnt
      /\ \A u, v \in Nat : a[u] # Nil /\ a[u] = a[v] => u = v
  BY LaidLinks
<1>2. /\ S \in SUBSET Timers /\ a \in [Nat -> Ref]
      /\ \A m \in Nat : m \in 1..h.cnt => a[m] \in S
      /\ \A s \in S : \E m \in 1..h.cnt : a[m] = s
  BY DEF Laid, Placed
<1>3. PICK b : b = Replaced(a, i, n)
  OBVIOUS
<1>4. b \in [Nat -> Ref] /\ \A m \in Nat : b[m] = IF m = i THEN n ELSE a[m]
  BY <1>1, <1>3 DEF Replaced
<1>5. \A m \in Nat : a[m] # n
  BY <1>1, <1>2
<1>6. \A m \in Nat : m \in 1..h.cnt => b[m] \in (S \ {a[i]}) \cup {n}
  BY <1>1, <1>2, <1>4
<1>7. \A m \in Nat : m \notin 1..h.cnt => b[m] = Nil
  BY <1>1, <1>4
<1>8. \A u, v \in 1..h.cnt : b[u] = b[v] => u = v
  BY <1>1, <1>4, <1>5
<1>9. ASSUME NEW s \in (S \ {a[i]}) \cup {n} PROVE \E m \in 1..h.cnt : b[m] = s
  <2>1. CASE s = n
    BY <1>1, <1>4, <2>1
  <2>2. CASE s # n
    <3>1. PICK m \in 1..h.cnt : a[m] = s
      BY <1>2, <2>2
    <3>2. m # i /\ m \in Nat
      BY <2>2, <3>1
    <3> QED
      BY <1>4, <3>1, <3>2
  <2> QED
    BY <2>1, <2>2
<1>10. (S \ {a[i]}) \cup {n} \in SUBSET Timers
  BY <1>2
<1> QED
  BY <1>3, <1>4, <1>6, <1>7, <1>8, <1>9, <1>10 DEF Placed

LEMMA TakesPlaceLaid ==
    ASSUME NEW h, NEW S, NEW a, Laid(h, S, a), NEW i \in 1..h.cnt, NEW t, t = a[i],
           NEW n \in Timers, n \notin S, NEW y, TakesPlace(y, h, n, t)
    PROVE  Laid(y, (S \ {t}) \cup {n}, Replaced(a, i, n)) /\ y.cnt = h.cnt
<1>1. /\ h \in Heaps /\ h.cnt \in Nat /\ i \in Nat /\ n \in Ref /\ n # Nil /\ Nil \in Ref
      /\ a[0] = Nil
      /\ \A m \in Nat : a[m] \in Ref
      /\ \A m \in Nat : a[m] # Nil <=> m \in 1..h.cnt
      /\ \A u, v \in Nat : a[u] # Nil /\ a[u] = a[v] => u = v
  BY LaidLinks
<1>2. PICK q \in Nat : q = i \div 2 /\ q < i /\ (i = 2 * q \/ i = 2 * q + 1) /\ (q = 0 <=> i = 1)
  BY <1>1, Halves
<1>3. \A m \in Nat : a[m] # n
  BY <1>1 DEF Laid, Placed
<1>4. t \in Ref /\ t # Nil
  BY <1>1
<1>5. PICK l, r, g : l = a[2 * i] /\ r = a[2 * i + 1] /\ g = a[q]
  OBVIOUS
<1>6. 2 * i \in Nat /\ 2 * i + 1 \in Nat /\ i >= 1 /\ i <= h.cnt
  BY <1>1
<1>7. l \in Ref /\ r \in Ref /\ g \in Ref
  BY <1>1, <1>5, <1>6
<1>8. h.l[t] = l /\ h.r[t] = r /\ h.p[t] = g
  BY <1>2, <1>5, <1>6 DEF Laid
<1>9. PICK u : Moves(u, h, n, t) /\ y = Relink(Adopt(u, {l, r}, n), g, t, n)
  BY <1>8 DEF TakesPlace
<1>10. /\ SameBut(u, h)
       /\ \A z \in Ref : /\ u.p[z] = IF z = n THEN g ELSE h.p[z]
                         /\ u.l[z] = IF z = n THEN l ELSE h.l[z]
                         /\ u.r[z] = IF z = n THEN r ELSE h.r[z]
  BY <1>1, <1>4, <1>8, <1>9, MovesGives
<1>11. PICK w : w = Adopt(u, {l, r}, n)
  OBVIOUS
<1>12. /\ SameBut(w, u) /\ w.l = u.l /\ w.r = u.r
       /\ \A z \in Ref : w.p[z] = IF z \in {l, r} /\ z # Nil THEN n ELSE u.p[z]
  BY <1>1, <1>10, <1>11, AdoptGives DEF SameBut
<1>13. y = Relink(w, g, t, n)
  BY <1>9, <1>11
<1>14. Relinked(y, w, g, t, n)
  BY ONLY <1>1, <1>4, <1>7, <1>12, <1>13, RelinkGives DEF SameBut
<1>15. y \in Heaps /\ y.cnt = h.cnt /\ y.p = w.p /\ y.root = IF g = Nil THEN n ELSE h.root
  BY <1>10, <1>12, <1>14 DEF SameBut, Relinked
<1>16. g # n /\ l # n /\ r # n
  BY <1>3, <1>5, <1>6
<1>17. g # Nil => (w.l[g] = t <=> i = 2 * q)
  <2>1. SUFFICES ASSUME g # Nil PROVE w.l[g] = t <=> i = 2 * q
    OBVIOUS
  <2>2. q >= 1 /\ 2 * q \in Nat
    BY <1>1, <1>5, <2>1
  <2>3. w.l[g] = a[2 * q]
    <3>1. h.l[g] = a[2 * q]
      BY <1>5, <2>2 DEF Laid
    <3> QED
      BY <1>7, <1>10, <1>12, <1>16, <3>1
  <2>4. a[2 * q] = t <=> i = 2 * q
    BY <1>1, <1>4, <2>2
  <2> QED
    BY <2>3, <2>4
<1>18. \A z \in Ref : z # n =>
           /\ y.l[z] = IF g # Nil /\ z = g /\ i = 2 * q THEN n ELSE h.l[z]
           /\ y.r[z] = IF g # Nil /\ z = g /\ i # 2 * q THEN n ELSE h.r[z]
  BY <1>10, <1>12, <1>14, <1>17 DEF Relinked
<1>19. y.l[n] = l /\ y.r[n] = r /\ y.p[n] = g
  BY <1>1, <1>10, <1>12, <1>14, <1>15, <1>16 DEF Relinked
<1>20. \A z \in Ref : z # n => y.p[z] = IF (z = l \/ z = r) /\ z # Nil THEN n ELSE h.p[z]
  BY <1>10, <1>12, <1>15
<1>21. PICK b : b = Replaced(a, i, n)
  OBVIOUS
<1>22. \A m \in Nat : b[m] = IF m = i THEN n ELSE a[m]
  BY <1>21 DEF Replaced
<1>23. Placed(y, (S \ {t}) \cup {n}, b)
  BY <1>15, <1>21, ReplacedPlaced
<1>24. y.root = b[1]
  <2>1. h.root = a[1]
    BY DEF Laid
  <2>2. g = Nil <=> q = 0
    BY <1>1, <1>2, <1>5, <1>6
  <2> QED
    BY <1>2, <1>15, <1>22, <2>1, <2>2
<1>25. ASSUME NEW m \in Nat, m >= 1 PROVE y.l[b[m]] = b[2 * m] /\ y.r[b[m]] = b[2 * m + 1]
  <2>1. 2 * m \in Nat /\ 2 * m + 1 \in Nat
    BY <1>25
  <2>2. CASE m = i
    <3>1. 2 * m # i /\ 2 * m + 1 # i
      BY <1>6, <2>2
    <3> QED
      BY <1>5, <1>19, <1>22, <2>1, <2>2, <3>1
  <2>3. CASE m # i
    <3>1. b[m] = a[m] /\ a[m] \in Ref /\ a[m] # n
      BY <1>1, <1>3, <1>22, <2>3
    <3>2. h.l[a[m]] = a[2 * m] /\ h.r[a[m]] = a[2 * m + 1]
      BY <1>25 DEF Laid
    <3>3. g # Nil /\ a[m] = g <=> m = q
      <4>1. q >= 1 => g # Nil
        BY <1>1, <1>2, <1>5, <1>6
      <4>2. m = q => a[m] = g
        BY <1>5
      <4>3. g # Nil /\ a[m] = g => m = q
        BY <1>1, <1>5
      <4> QED
        BY <1>25, <4>1, <4>2, <4>3
    <3>4. y.l[a[m]] = IF m = q /\ i = 2 * q THEN n ELSE a[2 * m]
      BY <1>18, <3>1, <3>2, <3>3
    <3>5. y.r[a[m]] = IF m = q /\ i # 2 * q THEN n ELSE a[2 * m + 1]
      BY <1>18, <3>1, <3>2, <3>3
    <3>6. (m = q /\ i = 2 * q) <=> 2 * m = i
      BY <1>2
    <3>7. (m = q /\ i # 2 * q) <=> 2 * m + 1 = i
      BY <1>2
    <3> QED
      BY <1>22, <2>1, <3>1, <3>4, <3>5, <3>6, <3>7
  <2> QED
    BY <2>2, <2>3
<1>26. ASSUME NEW m \in Nat, m >= 1, m <= y.cnt PROVE y.p[b[m]] = b[m \div 2]
  <2>1. PICK v \in Nat : v = m \div 2 /\ v < m /\ (m = 2 * v \/ m = 2 * v + 1)
    BY <1>26, Halves
  <2>2. m <= h.cnt
    BY <1>15, <1>26
  <2>3. CASE m = i
    BY <1>2, <1>5, <1>19, <1>22, <2>1, <2>3
  <2>4. CASE m # i
    <3>1. b[m] = a[m] /\ a[m] \in Ref /\ a[m] # n /\ a[m] # Nil
      BY <1>1, <1>3, <1>22, <1>26, <2>2, <2>4
    <3>2. h.p[a[m]] = a[v]
      BY <1>26, <2>1, <2>2 DEF Laid
    <3>3. (a[m] = l \/ a[m] = r) <=> v = i
      <4>1. a[m] = l <=> m = 2 * i
        BY <1>1, <1>5, <1>6, <3>1
      <4>2. a[m] = r <=> m = 2 * i + 1
        BY <1>1, <1>5, <1>6, <3>1
      <4>3. (m = 2 * i \/ m = 2 * i + 1) <=> v = i
        BY <1>6, <2>1
      <4> QED
        BY <4>1, <4>2, <4>3
    <3>4. y.p[a[m]] = IF v = i THEN n ELSE a[v]
      BY <1>20, <3>1, <3>2, <3>3
    <3> QED
      BY <1>22, <2>1, <3>1, <3>4
  <2> QED
    BY <2>3, <2>4
<1> QED
  BY <1>15, <1>21, <1>23, <1>24, <1>25, <1>26 DEF Laid

Removed(h, S, a, key, t, y) ==
    \E b : /\ Laid(y, S \ {t}, b)
           /\ InOrder(h.cnt, a, key) => InOrder(y.cnt, b, key)

LEMMA RemoveLaid ==
    ASSUME NEW h, NEW S, NEW a, Laid(h, S, a), NEW t \in S, NEW key \in [Timers -> Int],
           NEW y, y = HeapRemove(h, key, t)
    PROVE  Removed(h, S, a, key, t, y)
<1>1. h \in Heaps /\ h.cnt \in Nat /\ Nil \in Ref /\ \A m \in Nat : a[m] \in Ref
  BY LaidLinks
<1>2. PICK i \in 1..h.cnt : a[i] = t
  BY DEF Laid, Placed
<1>3. PICK k \in Nat : k = h.cnt /\ k >= 1 /\ i \in Nat /\ i <= k /\ i >= 1
  BY <1>1, <1>2
<1>4. PICK q \in Nat : q = k \div 2 /\ q <= h.cnt
  BY <1>3, Halves
<1>5. PICK last : last = a[k]
  OBVIOUS
<1>6. Places(h)[h.cnt] = last
  <2>1. k \in 1..h.cnt
    BY <1>3
  <2> QED
    BY <1>3, <1>5, <2>1, PlacesLaid
<1>7. last \in S /\ last \in Timers /\ last \in Ref
  <2>1. last \in S /\ S \in SUBSET Timers
    BY <1>3, <1>5 DEF Laid, Placed
  <2> QED
    BY <1>1, <1>5, <2>1
<1>8. last = t <=> i = k
  <2>1. i \in 1..h.cnt /\ k \in 1..h.cnt
    BY <1>3
  <2> QED
    BY <1>2, <1>5, <2>1 DEF Laid, Placed
<1>9. PICK u : u = Put(h, k, Nil)
  OBVIOUS
<1>10. PutAt(u, h, a, k, q, Nil)
  BY <1>1, <1>3, <1>4, <1>9, PutGives
<1>11. PICK cut : cut = [u EXCEPT !.cnt = @ - 1]
  OBVIOUS
<1>12. cut \in Heaps /\ cut.cnt = k - 1 /\ cut.root = u.root /\ cut.l = u.l /\ cut.r = u.r /\ cut.p = h.p
  <2>1. u \in Heaps /\ u.cnt = k /\ u.p = h.p
    BY <1>3, <1>10 DEF PutAt
  <2>2. cut = [u EXCEPT !.cnt = k - 1]
    BY ONLY <1>11, <2>1, SMT
  <2>3. k - 1 \in Nat
    BY <1>3
  <2> QED
    BY <2>1, <2>2, <2>3 DEF Heaps
<1>13. PICK c : c = [m \in Nat |-> IF m = k THEN Nil ELSE a[m]]
  OBVIOUS
<1>14. Laid(cut, S \ {last}, c)
  BY <1>3, <1>4, <1>5, <1>10, <1>12, <1>13, CutLaid
<1>15. \A m \in Nat : m < k => c[m] = a[m]
  BY <1>13
<1>16. CASE last = t
  <2>1. y = cut
    <3>1. h.cnt # 0
      BY <1>3
    <3> QED
      BY ONLY <1>3, <1>6, <1>9, <1>11, <1>16, <3>1, y = HeapRemove(h, key, t), Zenon DEF HeapRemove
  <2>2. ASSUME InOrder(h.cnt, a, key) PROVE InOrder(y.cnt, c, key)
    <3>1. ASSUME NEW m \in Nat, m >= 2, m <= k - 1 PROVE key[c[m \div 2]] <= key[c[m]]
      <4>1. PICK g \in Nat : g = m \div 2 /\ g < m
        BY <3>1, Halves
      <4>2. m < k /\ g < k /\ m <= h.cnt
        BY <1>3, <3>1, <4>1
      <4>3. key[a[m \div 2]] <= key[a[m]]
        BY <2>2, <3>1, <4>2 DEF InOrder
      <4> QED
        BY <1>15, <4>1, <4>2, <4>3
    <3> QED
      BY <1>12, <2>1, <3>1 DEF InOrder
  <2>3. Laid(y, S \ {t}, c)
    BY <1>14, <1>16, <2>1
  <2> QED
    BY <2>2, <2>3 DEF Removed
<1>17. CASE last # t
  <2>1. i < k /\ k >= 2
    BY <1>3, <1>8, <1>17
  <2>2. PICK n \in Nat : n = k - 1 /\ i \in 1..n /\ n = cut.cnt
    BY <1>3, <1>12, <2>1
  <2>3. c[i] = t
    BY <1>2, <1>3, <1>15, <2>1
  <2>4. PICK z : z = Relink(Adopt([cut EXCEPT !.l[last] = cut.l[t], !.r[last] = cut.r[t],
                                              !.p[last] = cut.p[t]],
                                  {cut.l[t], cut.r[t]}, last), cut.p[t], t, last)
    OBVIOUS
  <2>5. TakesPlace(z, cut, last, t)
    BY ONLY <2>4, Zenon DEF TakesPlace, Moves
  <2>6. y = SiftUp(SiftDown(z, key, last), key, last)
    <3>1. h.cnt # 0
      BY <1>3
    <3> QED
      BY ONLY <1>3, <1>6, <1>9, <1>11, <1>17, <2>4, <3>1, y = HeapRemove(h, key, t), Zenon DEF HeapRemove
  <2>7. PICK d : d = Replaced(c, i, last)
    OBVIOUS
  <2>8. Laid(z, S \ {t}, d) /\ z.cnt = n
    <3>1. last \notin S \ {last} /\ i \in 1..cut.cnt
      BY <2>2
    <3>2. Laid(z, ((S \ {last}) \ {t}) \cup {last}, d) /\ z.cnt = cut.cnt
      BY <1>7, <1>14, <2>3, <2>5, <2>7, <3>1, TakesPlaceLaid
    <3>3. ((S \ {last}) \ {t}) \cup {last} = S \ {t}
      BY <1>7, <1>17
    <3> QED
      BY <2>2, <3>2, <3>3
  <2>9. d[i] = last /\ \A m \in Nat : m # i => d[m] = c[m]
    BY <1>3, <2>7 DEF Replaced
  <2>10. PICK w : w = SiftDown(z, key, last)
    OBVIOUS
  <2>11. Sunk(w, n, S \ {t}, d, key, i, last)
    BY <2>2, <2>8, <2>9, <2>10, DownLaid
  <2>12. PICK e, j : /\ Laid(w, S \ {t}, e) /\ w.cnt = n /\ j \in 1..n /\ e[j] = last
                     /\ Loose(n, d, key, i) => Rises(n, e, key, j)
    BY <2>11 DEF Sunk
  <2>13. y = SiftUp(w, key, last)
    BY <2>6, <2>10
  <2>14. Sifted(y, n, S \ {t}, e, key, j)
    BY <2>12, <2>13, UpLaid
  <2>15. ASSUME InOrder(h.cnt, a, key) PROVE Loose(n, d, key, i)
    <3>1. \A m \in Nat : m \in 1..k => key[a[m]] \in Int
      BY <1>3, KeysOf
    <3>2. \A m \in Nat : m # i /\ m < k => d[m] = a[m]
      BY <1>15, <2>9
    <3>3. ASSUME NEW m \in Nat, m >= 2, m <= n, m # i, m \div 2 # i
          PROVE  key[d[m \div 2]] <= key[d[m]]
      <4>1. PICK g \in Nat : g = m \div 2 /\ g < m
        BY <3>3, Halves
      <4>2. m < k /\ g < k /\ m <= h.cnt
        BY <1>3, <2>2, <3>3, <4>1
      <4>3. key[a[m \div 2]] <= key[a[m]]
        BY <2>15, <3>3, <4>2 DEF InOrder
      <4> QED
        BY <3>2, <3>3, <4>1, <4>2, <4>3
    <3>4. ASSUME NEW m \in Nat, m <= n, m \div 2 = i, i >= 2 PROVE key[d[i \div 2]] <= key[d[m]]
      <4>1. PICK g \in Nat : g = i \div 2 /\ g < i /\ g >= 1
        BY <1>3, <3>4, Halves
      <4>2. i < m /\ m < k /\ m <= h.cnt /\ i <= h.cnt /\ m >= 2
        BY <1>3, <2>1, <2>2, <3>4, Halves
      <4>3. key[a[m \div 2]] <= key[a[m]]
        BY <2>15, <4>2 DEF InOrder
      <4>4. key[a[i \div 2]] <= key[a[i]]
        BY <1>3, <2>15, <3>4, <4>2 DEF InOrder
      <4>5. d[g] = a[g] /\ d[m] = a[m]
        BY <1>3, <2>1, <3>2, <4>1, <4>2
      <4>6. key[a[g]] \in Int /\ key[a[i]] \in Int /\ key[a[m]] \in Int
        BY <1>3, <2>1, <3>1, <4>1, <4>2
      <4> QED
        BY <3>4, <4>1, <4>3, <4>4, <4>5, <4>6
    <3> QED
      BY <3>3, <3>4 DEF Loose
  <2>16. PICK b : /\ Laid(y, S \ {t}, b) /\ y.cnt = n
                  /\ Rises(n, e, key, j) => InOrder(n, b, key)
    BY <2>14 DEF Sifted
  <2> QED
    BY <2>12, <2>15, <2>16 DEF Removed
<1> QED
  BY <1>16, <1>17

-----------------------------------------------------------------------------
(* A heap that has a layout is complete, with links both ways.             *)
LEMMA LaidCount ==
    ASSUME NEW h, NEW S, NEW a, Laid(h, S, a)
    PROVE  h.cnt = Cardinality(S)
<1>1. PICK f : f = [k \in 1..h.cnt |-> a[k]]
  OBVIOUS
<1>2. h.cnt \in Nat
  BY LaidLinks
<1>3. f \in [1..h.cnt -> S]
  <2>1. \A k \in Nat : k \in 1..h.cnt => a[k] \in S
    BY DEF Laid, Placed
  <2>2. \A k \in 1..h.cnt : a[k] \in S
    BY <1>2, <2>1
  <2> QED
    BY <1>1, <2>2
<1>4. \A i, j \in 1..h.cnt : f[i] = f[j] => i = j
  BY <1>1 DEF Laid, Placed
<1>5. \A t \in S : \E k \in 1..h.cnt : f[k] = t
  BY <1>1 DEF Laid, Placed
<1>6. f \in Bijection(1..h.cnt, S)
  BY <1>3, <1>4, <1>5 DEF Bijection, Injection, IsInjective, Surjection
<1>7. ExistsBijection(1..h.cnt, S)
  BY <1>6 DEF ExistsBijection
<1> QED
  BY <1>2, <1>7, FS_CountingElements

LEMMA LaidIsLinked ==
    ASSUME NEW h, NEW S, NEW a, Laid(h, S, a)
    PROVE  WellLinked(h, S)
<1>1. h.cnt \in Nat /\ a[0] = Nil
  BY LaidLinks
<1>2. PICK at : at = Places(h)
  OBVIOUS
<1>3. \A k \in 1..h.cnt : at[k] = a[k]
  BY <1>2, PlacesLaid
<1>4. {at[k] : k \in 1..h.cnt} = S
  <2>1. \A k \in 1..h.cnt : at[k] \in S
    BY <1>3 DEF Laid, Placed
  <2>2. ASSUME NEW t \in S PROVE \E k \in 1..h.cnt : at[k] = t
    <3>1. PICK k \in 1..h.cnt : a[k] = t
      BY DEF Laid, Placed
    <3>2. k \in 1..h.cnt /\ at[k] = t
      BY <1>3, <3>1
    <3> QED
      BY <3>2
  <2> QED
    BY <2>1, <2>2
<1>5. /\ h.cnt = 0 => h.root = Nil
      /\ h.cnt > 0 => h.p[h.root] = Nil
  <2>1. h.root = a[1] /\ (1 <= h.cnt => h.p[a[1]] = a[1 \div 2])
    BY DEF Laid
  <2>2. a[1] # Nil <=> 1 \in 1..h.cnt
    BY LaidLinks
  <2> QED
    BY <1>1, <2>1, <2>2
<1>6. ASSUME NEW k \in 2..(2 * h.cnt + 1), NEW side, side = IF k % 2 = 1 THEN h.r ELSE h.l
      PROVE  IF k <= h.cnt THEN side[at[k \div 2]] = at[k] /\ h.p[at[k]] = at[k \div 2]
             ELSE side[at[k \div 2]] = Nil
  <2>1. k \in Nat
    BY <1>1, <1>6
  <2>2. PICK q \in Nat : q = k \div 2 /\ q >= 1 /\ q <= h.cnt
    BY <1>1, <1>6, <2>1, Halves
  <2>3. (k = 2 * q /\ k % 2 = 0) \/ (k = 2 * q + 1 /\ k % 2 = 1)
    BY <2>1, <2>2, Halves
  <2>4. h.l[a[q]] = a[2 * q] /\ h.r[a[q]] = a[2 * q + 1]
    BY <2>2 DEF Laid
  <2>5. side[a[q]] = a[k]
    BY <1>6, <2>3, <2>4
  <2>6. k > h.cnt => a[k] = Nil
    BY <1>1, <2>1, LaidLinks
  <2>7. k <= h.cnt => h.p[a[k]] = a[q] /\ at[k] = a[k]
    BY <1>3, <1>6, <2>1, <2>2 DEF Laid
  <2>8. at[q] = a[q]
    BY <1>3, <2>2
  <2>9. CASE k <= h.cnt
    BY <2>2, <2>5, <2>7, <2>8, <2>9
  <2>10. CASE ~ (k <= h.cnt)
    BY <1>1, <2>1, <2>2, <2>5, <2>6, <2>8, <2>10
  <2> QED
    BY <2>9, <2>10
<1>7. h.cnt = Cardinality(S)
  BY LaidCount
<1>8. {Places(h)[k] : k \in 1..h.cnt} = S
  BY ONLY <1>2, <1>4, Zenon
<1>9. ASSUME NEW k \in 2..(2 * h.cnt + 1)
      PROVE  /\ k <= h.cnt => h.p[Places(h)[k]] = Places(h)[k \div 2]
             /\ k <= h.cnt /\ k % 2 = 1 => h.r[Places(h)[k \div 2]] = Places(h)[k]
             /\ k <= h.cnt /\ k % 2 # 1 => h.l[Places(h)[k \div 2]] = Places(h)[k]
             /\ ~(k <= h.cnt) /\ k % 2 = 1 => h.r[Places(h)[k \div 2]] = Nil
             /\ ~(k <= h.cnt) /\ k % 2 # 1 => h.l[Places(h)[k \div 2]] = Nil
  <2>1. PICK side : side = IF k % 2 = 1 THEN h.r ELSE h.l
    OBVIOUS
  <2>2. IF k <= h.cnt THEN side[at[k \div 2]] = at[k] /\ h.p[at[k]] = at[k \div 2]
        ELSE side[at[k \div 2]] = Nil
    BY <1>6, <2>1, Zenon
  <2> QED
    BY ONLY <1>2, <2>1, <2>2
<1> QED
  BY ONLY <1>5, <1>7, <1>8, <1>9 DEF WellLinked

(* The root, of which nothing comes before.                                *)
LEMMA RootOf ==
    ASSUME NEW h, NEW S, NEW a, Laid(h, S, a), NEW key \in [Timers -> Int]
    PROVE  /\ h.root = Nil => S = {} /\ h.cnt = 0
           /\ h.root # Nil => h.root \in S /\ h.cnt > 0
           /\ InOrder(h.cnt, a, key) => \A t \in S : key[h.root] <= key[t]
<1>1. h.cnt \in Nat /\ h.root = a[1] /\ (a[1] # Nil <=> 1 \in 1..h.cnt)
  <2>1. h.cnt \in Nat /\ \A k \in Nat : a[k] # Nil <=> k \in 1..h.cnt
    BY LaidLinks
  <2>2. h.root = a[1]
    BY DEF Laid
  <2> QED
    BY <2>1, <2>2
<1>2. h.root = Nil => S = {} /\ h.cnt = 0
  BY <1>1 DEF Laid, Placed
<1>3. h.root # Nil => h.root \in S /\ h.cnt > 0
  BY <1>1 DEF Laid, Placed
<1>4. \A k \in Nat : k \in 1..h.cnt => key[a[k]] \in Int
  BY KeysOf
<1>5. ASSUME InOrder(h.cnt, a, key), NEW t \in S
      PROVE  key[h.root] <= key[t]
  <2>1. PICK X : X = {k \in Nat : k \in 1..h.cnt /\ ~ (key[a[1]] <= key[a[k]])}
    OBVIOUS
  <2>2. X = {}
    <3>1. SUFFICES ASSUME X # {} PROVE FALSE
      OBVIOUS
    <3>2. PICK k \in X : \A m \in X : k <= m
      BY <2>1, <3>1, LeastOf
    <3>3. k \in Nat /\ k \in 1..h.cnt /\ ~ (key[a[1]] <= key[a[k]])
      BY <2>1, <3>2
    <3>4. k >= 2 /\ 1 \in 1..h.cnt
      BY <1>1, <1>4, <3>3
    <3>5. PICK q \in Nat : q = k \div 2 /\ q >= 1 /\ q < k
      BY <3>3, <3>4, Halves
    <3>6. key[a[q]] <= key[a[k]]
      BY <1>1, <1>5, <3>3, <3>4, <3>5 DEF InOrder
    <3>7. q \in 1..h.cnt /\ q \notin X
      BY <1>1, <3>2, <3>3, <3>5
    <3>8. key[a[1]] <= key[a[q]]
      BY <2>1, <3>5, <3>7
    <3> QED
      BY <1>4, <3>3, <3>4, <3>6, <3>7, <3>8
  <2>3. PICK k \in 1..h.cnt : a[k] = t
    BY DEF Laid, Placed
  <2> QED
    BY <1>1, <2>1, <2>2, <2>3
<1> QED
  BY <1>2, <1>3, <1>5

-----------------------------------------------------------------------------
(* The inductive invariant.                                                *)
Frame == [now : Nat, timer : Ref]

Types ==
    /\ platform \in {"darwin", "linux"}
    /\ timeout \in [Timers -> Nat] /\ interval \in [Timers -> Nat]
    /\ active \in SUBSET Timers /\ stop \in SUBSET Timers /\ wanted \in SUBSET Timers
    /\ clock \in Nat /\ clock >= 1 /\ wake \in Int
    /\ frames \in Seq(Frame)
    /\ event \in BOOLEAN /\ displaced \in BOOLEAN

(* The heap has a layout of the active timers, in order unless a timeout   *)
(* was changed in the heap.                                                *)
Layout ==
    \E a : /\ Laid(heap, active, a)
           /\ ~ displaced => InOrder(heap.cnt, a, timeout)

(* Where the calls of liteco_eloop_timer_active are.                       *)
Nested ==
    /\ pc = "scan" => Len(frames) >= 1 /\ Top.timer = Nil
    /\ pc = "callback" => Len(frames) >= 1 /\ Top.timer # Nil
    /\ pc = "user" => frames = <<>>
    /\ pc = "wait" /\ platform = "linux" => frames = <<>>
    /\ pc = "wait" /\ platform = "darwin" => Len(frames) = 1 /\ Top.timer = Nil
    /\ platform = "darwin" => Len(frames) <= 1 /\ pc # "clock"
    /\ \A i \in 1..Len(frames) : frames[i].now <= clock

(* The timers that a callback is still expected for.                       *)
InCallback(t) == \E i \in 1..Len(frames) : frames[i].timer = t

Wants ==
    /\ active \subseteq wanted
    /\ wanted \cap stop = {}
    /\ \A t \in Timers : interval[t] # 0 /\ t \notin stop => t \in wanted
    /\ \A t \in wanted : t \notin active => interval[t] # 0 /\ InCallback(t)

(* The time that the wait ends; on Linux it is armed before the wait.      *)
Armed ==
    /\ \A t \in active : timeout[t] >= 1
    /\ platform = "linux" /\ pc = "wait" => ~ event
    /\ platform = "linux" /\ pc \in {"user", "wait"} /\ ~ event /\ ~ displaced =>
           \A t \in active : wake # 0 /\ wake <= timeout[t]
    /\ platform = "darwin" => ~ event
    /\ platform = "darwin" /\ pc = "wait" /\ ~ displaced =>
           \A t \in active : wake <= timeout[t] + (clock - Top.now)

IInv == Types /\ Layout /\ Nested /\ Wants /\ Armed

(* An insertion and a removal keep a layout and, unless a timeout was      *)
(* changed in the heap, the order.                                         *)
Added(t, time) ==
    /\ Layout' /\ active' = active \cup {t} /\ active' \in SUBSET Timers
    /\ timeout' \in [Timers -> Nat]
    /\ \A u \in Timers : timeout'[u] = IF u = t THEN time ELSE timeout[u]
    /\ displaced' \in BOOLEAN
    /\ ~ displaced' => ~ displaced /\ t \notin active

Dropped(t) ==
    /\ Layout' /\ active' = active \ {t} /\ active' \in SUBSET Timers
    /\ timeout' \in [Timers -> Nat]
    /\ \A u \in Timers : timeout'[u] = IF u = t THEN 0 ELSE timeout[u]
    /\ displaced' \in BOOLEAN
    /\ ~ displaced' => ~ displaced \/ active' = {}

LEMMA AddKeeps ==
    ASSUME Types, Layout, NEW t \in Timers, NEW time \in Nat, NEW then, Add(t, time, then)
    PROVE  Added(t, time)
<1>1. /\ timeout' = [timeout EXCEPT ![t] = time]
      /\ displaced' = (displaced \/ t \in active)
      /\ active' = active \cup {t}
  BY DEF Add
<1>2. /\ timeout' \in [Timers -> Nat] /\ timeout' \in [Timers -> Int]
      /\ \A u \in Timers : timeout'[u] = IF u = t THEN time ELSE timeout[u]
  BY <1>1 DEF Types
<1>3. PICK a : /\ Laid(heap, active, a)
               /\ ~ displaced => InOrder(heap.cnt, a, timeout)
  BY DEF Layout
<1>6. displaced' \in BOOLEAN /\ (~ displaced' => ~ displaced /\ t \notin active)
  BY <1>1, Zenon DEF Types
<1>7. active' \in SUBSET Timers
  BY <1>1 DEF Types
<1>4. CASE t \in active
  <2>1. heap' = heap /\ active' = active /\ displaced'
    BY <1>1, <1>4 DEF Add
  <2>2. Layout'
    BY <1>3, <2>1 DEF Layout
  <2> QED
    BY <1>1, <1>2, <1>6, <1>7, <2>2 DEF Added
<1>5. CASE t \notin active
  <2>1. heap' = HeapInsert(NodeInit(heap, t), timeout', t)
    BY <1>5 DEF Add
  <2>2. PICK x : x = NodeInit(heap, t)
    OBVIOUS
  <2>3. Laid(x, active, a) /\ x.cnt = heap.cnt /\ x.l[t] = Nil /\ x.r[t] = Nil /\ x.p[t] = Nil
    BY <1>3, <1>5, <2>2, InitLaid
  <2>4. PICK key \in [Timers -> Int] : key = timeout'
    BY <1>2
  <2>5. PICK y : y = HeapInsert(x, key, t)
    OBVIOUS
  <2>6. Inserted(x, active, a, key, t, y)
    BY <1>5, <2>3, <2>5, InsertLaid
  <2>7. heap' = y
    BY ONLY <2>1, <2>2, <2>4, <2>5, Zenon
  <2>8. PICK b : /\ Laid(y, active \cup {t}, b)
                 /\ InOrder(x.cnt, a, key) => InOrder(y.cnt, b, key)
    BY <2>6 DEF Inserted
  <2>9. InOrder(heap.cnt, a, timeout) => InOrder(x.cnt, a, key)
    <3>1. \A k \in Nat : k \in 1..heap.cnt => a[k] \in active
      BY <1>3 DEF Laid, Placed
    <3>2. \A k \in Nat : k \in 1..heap.cnt => key[a[k]] = timeout[a[k]]
      BY <1>2, <1>5, <2>4, <3>1 DEF Types
    <3>3. \A k \in Nat : k >= 2 /\ k <= heap.cnt =>
              k \in 1..heap.cnt /\ k \div 2 \in 1..heap.cnt /\ k \div 2 \in Nat
      <4>1. heap.cnt \in Nat
        BY <1>3, LaidLinks
      <4> QED
        BY <4>1, Halves
    <3> QED
      BY <2>3, <3>2, <3>3 DEF InOrder
  <2>10. Layout'
    <3>1. ~ displaced' => ~ displaced
      BY <1>1
    <3>2. /\ Laid(heap', active', b)
          /\ ~ displaced' => InOrder((heap').cnt, b, timeout')
      BY <1>1, <1>3, <2>4, <2>7, <2>8, <2>9, <3>1
    <3> QED
      BY <3>2 DEF Layout
  <2> QED
    BY <1>1, <1>2, <1>6, <1>7, <2>10 DEF Added
<1> QED
  BY <1>4, <1>5

LEMMA DiscardKeeps ==
    ASSUME Types, Layout, NEW t \in Timers, Discard(t)
    PROVE  Dropped(t)
<1>1. /\ timeout' = [timeout EXCEPT ![t] = 0]
      /\ displaced' = (displaced /\ (heap').cnt > 0)
      /\ active' = active \ {t}
  BY DEF Discard
<1>2. /\ timeout' \in [Timers -> Nat]
      /\ \A u \in Timers : timeout'[u] = IF u = t THEN 0 ELSE timeout[u]
  BY <1>1 DEF Types
<1>3. PICK a : /\ Laid(heap, active, a)
               /\ ~ displaced => InOrder(heap.cnt, a, timeout)
  BY DEF Layout
<1>4. PICK b : /\ Laid(heap', active', b)
               /\ InOrder(heap.cnt, a, timeout) => InOrder((heap').cnt, b, timeout)
  <2>1. CASE t \in active
    <3>1. heap' = NodeInit(HeapRemove(heap, timeout, t), t)
      BY <2>1 DEF Discard
    <3>2. PICK key \in [Timers -> Int] : key = timeout
      BY DEF Types
    <3>3. PICK y : y = HeapRemove(heap, key, t)
      OBVIOUS
    <3>4. Removed(heap, active, a, key, t, y)
      BY <1>3, <2>1, <3>3, RemoveLaid
    <3>5. PICK b : /\ Laid(y, active \ {t}, b)
                   /\ InOrder(heap.cnt, a, key) => InOrder(y.cnt, b, key)
      BY <3>4 DEF Removed
    <3>6. PICK z : z = NodeInit(y, t)
      OBVIOUS
    <3>7. Laid(z, active \ {t}, b) /\ z.cnt = y.cnt
      BY <3>5, <3>6, InitLaid
    <3>8. heap' = z
      BY ONLY <3>1, <3>2, <3>3, <3>6, Zenon
    <3> QED
      BY <1>1, <3>2, <3>5, <3>7, <3>8
  <2>2. CASE t \notin active
    <3>1. heap' = heap /\ active' = active
      BY <1>1, <2>2 DEF Discard
    <3> QED
      BY <1>3, <3>1
  <2> QED
    BY <2>1, <2>2
<1>5. PICK N \in Nat : N = (heap').cnt /\ (N = 0 => active' = {})
  <2>1. PICK h, S : h = heap' /\ S = active'
    OBVIOUS
  <2>2. Laid(h, S, b)
    BY <1>4, <2>1
  <2>3. h.cnt \in Nat
    BY <2>2, LaidLinks
  <2>4. \A u \in S : \E k \in 1..h.cnt : b[k] = u
    BY <2>2 DEF Laid, Placed
  <2>5. h.cnt = 0 => S = {}
    BY <2>3, <2>4
  <2> QED
    BY <2>1, <2>3, <2>5
<1>6. InOrder(heap.cnt, a, timeout) => InOrder((heap').cnt, b, timeout')
  <2>1. \A k \in Nat : k \in 1..(heap').cnt => b[k] \in active'
    BY <1>4 DEF Laid, Placed
  <2>2. \A k \in Nat : k \in 1..(heap').cnt => timeout'[b[k]] = timeout[b[k]]
    BY <1>1, <1>2, <2>1 DEF Types
  <2>3. \A k \in Nat : k >= 2 /\ k <= (heap').cnt =>
            k \in 1..(heap').cnt /\ k \div 2 \in 1..(heap').cnt /\ k \div 2 \in Nat
    BY <1>5, Halves
  <2> QED
    BY <1>4, <2>2, <2>3 DEF InOrder
<1>7. ~ displaced' => InOrder((heap').cnt, b, timeout')
  <2>1. CASE ~ displaced
    BY <1>3, <1>6, <2>1
  <2>2. CASE displaced /\ ~ displaced'
    <3>1. N = 0
      <4>1. ~ ((heap').cnt > 0)
        BY <1>1, <2>2, Zenon
      <4> QED
        BY <1>5, <4>1
    <3> QED
      BY <1>5, <3>1 DEF InOrder
  <2> QED
    BY <2>1, <2>2
<1>8. Layout'
  BY <1>4, <1>7 DEF Layout
<1>9. displaced /\ ~ displaced' => active' = {}
  <2>1. ASSUME displaced, ~ displaced' PROVE N = 0
    <3>1. ~ ((heap').cnt > 0)
      BY <1>1, <2>1, Zenon
    <3> QED
      BY <1>5, <3>1
  <2> QED
    BY <1>5, <2>1
<1>10. displaced' \in BOOLEAN
  BY <1>1, Zenon DEF Types
<1>11. active' \in SUBSET Timers
  BY <1>1 DEF Types
<1>12. ~ displaced' => ~ displaced \/ active' = {}
  BY <1>9, Zenon
<1> QED
  BY <1>1, <1>2, <1>8, <1>10, <1>11, <1>12 DEF Dropped

-----------------------------------------------------------------------------
(* The calls in progress: the last one gets or loses its callback, another *)
(* one begins, or the last one ends.                                       *)
LEMMA FrameMarked ==
    ASSUME NEW f \in Seq(Frame), Len(f) >= 1, NEW v \in Ref,
           NEW g, g = [f EXCEPT ![Len(f)].timer = v]
    PROVE  /\ g \in Seq(Frame) /\ Len(g) = Len(f)
           /\ \A i \in 1..Len(f) : /\ g[i].now = f[i].now
                                   /\ g[i].timer = IF i = Len(f) THEN v ELSE f[i].timer
<1>1. PICK n \in Nat : n = Len(f) /\ n >= 1 /\ n \in 1..Len(f)
  OBVIOUS
<1>2. PICK w : w = [f[n] EXCEPT !.timer = v]
  OBVIOUS
<1>3. f[n] \in Frame
  BY <1>1
<1>4. w \in Frame /\ w.now = f[n].now /\ w.timer = v
  BY <1>2, <1>3 DEF Frame
<1>5. g = [f EXCEPT ![n] = w]
  BY ONLY <1>1, <1>2, g = [f EXCEPT ![Len(f)].timer = v], Zenon
<1>6. g \in Seq(Frame) /\ Len(g) = Len(f) /\ \A i \in 1..Len(f) : g[i] = IF i = n THEN w ELSE f[i]
  BY <1>1, <1>4, <1>5
<1> QED
  BY <1>1, <1>4, <1>6

LEMMA FramePushed ==
    ASSUME NEW f \in Seq(Frame), NEW v \in Nat, NEW g,
           g = Append(f, [now |-> v, timer |-> Nil])
    PROVE  /\ g \in Seq(Frame) /\ Len(g) = Len(f) + 1
           /\ g[Len(g)].timer = Nil /\ g[Len(g)].now = v
           /\ \A i \in 1..Len(f) : g[i] = f[i]
<1>1. PICK w \in Frame : w = [now |-> v, timer |-> Nil]
  BY DEF Frame, Ref
<1>2. g = Append(f, w)
  BY ONLY <1>1, g = Append(f, [now |-> v, timer |-> Nil]), Zenon
<1>3. w.timer = Nil /\ w.now = v
  BY <1>1
<1> HIDE <1>1
<1>4. g \in Seq(Frame) /\ Len(g) = Len(f) + 1 /\ g[Len(g)] = w /\ \A i \in 1..Len(f) : g[i] = f[i]
  BY <1>2
<1> QED
  BY <1>3, <1>4

LEMMA FramePopped ==
    ASSUME NEW f \in Seq(Frame), Len(f) >= 1, NEW g, g = SubSeq(f, 1, Len(f) - 1)
    PROVE  /\ g \in Seq(Frame) /\ Len(g) = Len(f) - 1
           /\ \A i \in 1..Len(g) : g[i] = f[i]
<1>1. PICK n \in Nat : n = Len(f) - 1 /\ n + 1 = Len(f)
  OBVIOUS
<1>2. \A i \in 1..n : f[i] \in Frame
  BY <1>1
<1>3. /\ SubSeq(f, 1, n) \in Seq(Frame)
      /\ Len(SubSeq(f, 1, n)) = IF 1 <= n THEN n - 1 + 1 ELSE 0
      /\ \A i \in 1..(n - 1 + 1) : SubSeq(f, 1, n)[i] = f[1 + i - 1]
  BY <1>2, SubSeqProperties
<1>4. SubSeq(f, 1, n) = g
  BY <1>1, Zenon
<1> QED
  BY <1>1, <1>3, <1>4

LEMMA FirstFrame ==
    ASSUME NEW v \in Nat, NEW g, g = <<[now |-> v, timer |-> Nil]>>
    PROVE  g \in Seq(Frame) /\ Len(g) = 1 /\ g[1].timer = Nil /\ g[1].now = v
<1>1. PICK w \in Frame : w = [now |-> v, timer |-> Nil]
  BY DEF Frame, Ref
<1>2. g = <<w>>
  BY ONLY <1>1, g = <<[now |-> v, timer |-> Nil]>>, Zenon
<1>3. w.timer = Nil /\ w.now = v
  BY <1>1
<1> HIDE <1>1
<1> QED
  BY <1>2, <1>3

(* What each step of the invariant's proof knows of the timer that the     *)
(* loop expires or of the one whose callback returns.                      *)
LEMMA RootKnown ==
    ASSUME Types, Layout
    PROVE  /\ heap.root = Nil => active = {}
           /\ heap.root # Nil => heap.root \in active
           /\ ~ displaced => \A t \in active : timeout[heap.root] <= timeout[t]
<1>1. PICK a : Laid(heap, active, a) /\ (~ displaced => InOrder(heap.cnt, a, timeout))
  BY DEF Layout
<1>2. timeout \in [Timers -> Int]
  BY DEF Types
<1> QED
  BY <1>1, <1>2, RootOf

LEMMA TopKnown ==
    ASSUME Types, Nested, pc = "callback"
    PROVE  Len(frames) \in 1..Len(frames) /\ Top.timer \in Timers
<1>1. Len(frames) \in 1..Len(frames)
  BY DEF Types, Nested
<1>2. Top \in Frame
  BY <1>1 DEF Types, Top
<1> QED
  BY <1>1, <1>2 DEF Nested, Frame, Ref

(* Every step leaves the heap as it is, or adds or discards one timer.     *)
LEMMA LayoutKept == IInv /\ [Next]_vars => Layout'
<1> SUFFICES ASSUME IInv, [Next]_vars PROVE Layout'
  OBVIOUS
<1>1. Types /\ Layout /\ Nested
  BY DEF IInv
<1>2. ASSUME UNCHANGED <<heap, timeout, active, displaced>> PROVE Layout'
  BY <1>1, <1>2 DEF Layout
<1>3. ASSUME Expire PROVE Layout'
  <2>1. heap.root \in Timers /\ Discard(heap.root)
    BY <1>1, <1>3, RootKnown DEF Expire, Types
  <2> QED
    BY <1>1, <2>1, DiscardKeeps DEF Dropped
<1>4. ASSUME CallbackReturns PROVE Layout'
  <2>1. CASE Repeats
    <3>1. pc = "callback" /\ Add(Top.timer, clock + interval[Top.timer], "scan")
      BY <1>4, <2>1 DEF CallbackReturns
    <3>2. Top.timer \in Timers
      BY <1>1, <3>1, TopKnown
    <3>3. clock + interval[Top.timer] \in Nat
      BY <1>1, <3>2 DEF Types
    <3> QED
      BY <1>1, <3>1, <3>2, <3>3, AddKeeps DEF Added
  <2>2. CASE ~ Repeats
    BY <1>2, <1>4, <2>2 DEF CallbackReturns
  <2> QED
    BY <2>1, <2>2
<1>5. ASSUME NEW t \in Timers, NEW delay \in Delays, NEW period \in Periods,
             Start(t, delay, period)
      PROVE  Layout'
  <2>1. Add(t, clock + (IF delay = 0 THEN period ELSE delay), pc)
    BY <1>5 DEF Start
  <2>2. clock + (IF delay = 0 THEN period ELSE delay) \in Nat
    BY <1>1, TimerAssumption DEF Types
  <2> QED
    BY <1>1, <2>1, <2>2, AddKeeps DEF Added
<1>6. ASSUME NEW t \in Timers, Stop(t) PROVE Layout'
  BY <1>1, <1>6, DiscardKeeps DEF Stop, Dropped
<1>7. ASSUME \/ Tick \/ Pass \/ Sleep \/ Awake \/ LookAtClock \/ Arm \/ EpollWait \/ Events
             \/ TimerIoCb \/ StartCrashes \/ RepeatCrashes \/ UNCHANGED vars
      PROVE  UNCHANGED <<heap, timeout, active, displaced>>
  BY <1>7 DEF Tick, Pass, Sleep, Awake, LookAtClock, Arm, EpollWait, Events, TimerIoCb,
              StartCrashes, RepeatCrashes, vars, fields
<1> QED
  BY <1>2, <1>3, <1>4, <1>5, <1>6, <1>7 DEF Next

LEMMA TypesKept == IInv /\ [Next]_vars => Types'
<1> SUFFICES ASSUME IInv, [Next]_vars PROVE Types'
  OBVIOUS
<1>1. Types /\ Layout /\ Nested
  BY DEF IInv
<1>2. Nil \in Ref /\ Timers \subseteq Ref /\ Nil \notin Timers
  BY TimerAssumption DEF Ref
<1>3. ASSUME Expire PROVE Types'
  <2>1. heap.root \in Timers /\ Discard(heap.root)
    BY <1>1, <1>3, RootKnown DEF Expire, Types
  <2>2. timeout' \in [Timers -> Nat] /\ active' \in SUBSET Timers /\ displaced' \in BOOLEAN
    BY <1>1, <2>1, DiscardKeeps DEF Dropped
  <2>3. frames' \in Seq(Frame)
    <3>1. frames \in Seq(Frame) /\ Len(frames) >= 1 /\ heap.root \in Ref
      BY <1>1, <1>2, <1>3, <2>1 DEF Types, Nested, Expire
    <3>2. frames' = [frames EXCEPT ![Len(frames)].timer = heap.root]
      BY <1>3 DEF Expire
    <3> QED
      BY <3>1, <3>2, FrameMarked
  <2>4. wanted' \in SUBSET Timers
    BY <1>1, <1>3 DEF Expire, Types
  <2> QED
    BY <1>1, <1>3, <2>2, <2>3, <2>4 DEF Expire, Types
<1>4. ASSUME CallbackReturns PROVE Types'
  <2>1. pc = "callback" /\ Top.timer \in Timers /\ Len(frames) >= 1
    BY <1>1, <1>4, TopKnown DEF CallbackReturns, Nested
  <2>2. timeout' \in [Timers -> Nat] /\ active' \in SUBSET Timers /\ displaced' \in BOOLEAN
    <3>1. CASE Repeats
      <4>1. Add(Top.timer, clock + interval[Top.timer], "scan")
        BY <1>4, <3>1 DEF CallbackReturns
      <4>2. clock + interval[Top.timer] \in Nat
        BY <1>1, <2>1 DEF Types
      <4> QED
        BY <1>1, <2>1, <4>1, <4>2, AddKeeps DEF Added
    <3>2. CASE ~ Repeats
      BY <1>1, <1>4, <3>2 DEF CallbackReturns, Types
    <3> QED
      BY <3>1, <3>2
  <2>3. frames' \in Seq(Frame)
    <3>1. frames \in Seq(Frame) /\ frames' = [frames EXCEPT ![Len(frames)].timer = Nil]
      BY <1>1, <1>4 DEF CallbackReturns, Types
    <3> QED
      BY <1>2, <2>1, <3>1, FrameMarked
  <2> QED
    BY <1>1, <1>4, <2>2, <2>3 DEF CallbackReturns, Types
<1>5. ASSUME NEW t \in Timers, NEW delay \in Delays, NEW period \in Periods,
             Start(t, delay, period)
      PROVE  Types'
  <2>1. Add(t, clock + (IF delay = 0 THEN period ELSE delay), pc)
    BY <1>5 DEF Start
  <2>2. clock + (IF delay = 0 THEN period ELSE delay) \in Nat
    BY <1>1, TimerAssumption DEF Types
  <2>3. timeout' \in [Timers -> Nat] /\ active' \in SUBSET Timers /\ displaced' \in BOOLEAN
    BY <1>1, <2>1, <2>2, AddKeeps DEF Added
  <2>4. interval' \in [Timers -> Nat]
    BY <1>1, <1>5, TimerAssumption DEF Start, Types
  <2> QED
    BY <1>1, <1>5, <2>3, <2>4 DEF Start, Types
<1>6. ASSUME NEW t \in Timers, Stop(t) PROVE Types'
  <2>1. timeout' \in [Timers -> Nat] /\ active' \in SUBSET Timers /\ displaced' \in BOOLEAN
    BY <1>1, <1>6, DiscardKeeps DEF Stop, Dropped
  <2> QED
    BY <1>1, <1>6, <2>1 DEF Stop, Types, loop
<1>7. ASSUME Pass PROVE Types'
  <2>1. clock \in Nat /\ frames' = <<[now |-> clock, timer |-> Nil]>>
    BY <1>1, <1>7 DEF Pass, Types
  <2>2. frames' \in Seq(Frame)
    BY <2>1, FirstFrame
  <2> QED
    BY <1>1, <1>7, <2>2 DEF Pass, Types, fields
<1>8. ASSUME LookAtClock PROVE Types'
  <2>1. /\ clock \in Nat /\ frames \in Seq(Frame)
        /\ frames' = Append(frames, [now |-> clock, timer |-> Nil])
    BY <1>1, <1>8 DEF LookAtClock, Types
  <2>2. frames' \in Seq(Frame)
    BY <2>1, FramePushed
  <2> QED
    BY <1>1, <1>8, <2>2 DEF LookAtClock, Types, fields
<1>9. ASSUME Arm PROVE Types'
  <2>1. frames \in Seq(Frame) /\ Len(frames) >= 1 /\ frames' = SubSeq(frames, 1, Len(frames) - 1)
    BY <1>1, <1>9 DEF Arm, Scanned, Types, Nested
  <2>2. frames' \in Seq(Frame)
    BY <2>1, FramePopped
  <2>3. wake' \in Int
    <3>1. heap.root # Nil => heap.root \in Timers
      BY <1>1, RootKnown DEF Types
    <3> QED
      BY <1>1, <1>9, <3>1 DEF Arm, Types
  <2> QED
    BY <1>1, <1>9, <2>2, <2>3 DEF Arm, Types, fields
<1>10. ASSUME Sleep PROVE Types'
  <2>1. Top \in Frame
    BY <1>1, <1>10 DEF Sleep, Scanned, Nested, Types, Top
  <2>2. Wait \in Int
    <3>1. heap.root # Nil => heap.root \in Timers
      BY <1>1, RootKnown DEF Types
    <3> QED
      BY <1>1, <2>1, <3>1 DEF Wait, Types, Frame
  <2>3. wake' \in Int
    BY <1>1, <1>10, <2>2 DEF Sleep, Types
  <2> QED
    BY <1>1, <1>10, <2>3 DEF Sleep, Types, fields
<1>11. ASSUME Tick \/ Awake \/ EpollWait \/ Events \/ TimerIoCb \/ StartCrashes \/ RepeatCrashes
              \/ UNCHANGED vars
       PROVE  Types'
  <2>1. CASE Tick
    BY <1>1, <2>1 DEF Tick, Types, fields, loop
  <2>2. CASE Awake
    BY <1>1, <2>2 DEF Awake, Types, fields
  <2>3. CASE EpollWait
    BY <1>1, <2>3 DEF EpollWait, Types, fields
  <2>4. CASE Events
    BY <1>1, <2>4 DEF Events, Types, fields, Expired
  <2>5. CASE TimerIoCb
    <3>1. event' = FALSE /\ (wake' = 0 \/ wake' = wake)
      BY <2>5, Zenon DEF TimerIoCb
    <3>2. wake' \in Int
      BY <1>1, <3>1 DEF Types
    <3> QED
      BY <1>1, <2>5, <3>1, <3>2 DEF TimerIoCb, Types, fields
  <2>6. CASE StartCrashes
    BY <1>1, <2>6 DEF StartCrashes, Types, fields
  <2>7. CASE RepeatCrashes
    BY <1>1, <2>7 DEF RepeatCrashes, Types, fields
  <2>8. CASE UNCHANGED vars
    BY <1>1, <2>8 DEF vars, Types, fields, loop
  <2> QED
    BY <1>11, <2>1, <2>2, <2>3, <2>4, <2>5, <2>6, <2>7, <2>8
<1> QED
  BY <1>3, <1>4, <1>5, <1>6, <1>7, <1>8, <1>9, <1>10, <1>11 DEF Next

LEMMA NestedKept == IInv /\ [Next]_vars => Nested'
<1> SUFFICES ASSUME IInv, [Next]_vars PROVE Nested'
  OBVIOUS
<1>1. Types /\ Layout /\ Nested /\ Armed
  BY DEF IInv
<1>2. /\ frames \in Seq(Frame) /\ clock \in Nat /\ Len(frames) \in Nat
      /\ platform \in {"darwin", "linux"}
      /\ Nil \in Ref /\ Timers \subseteq Ref /\ Nil \notin Timers
  BY <1>1, TimerAssumption DEF Types, Ref
<1>3. \A i \in 1..Len(frames) : frames[i].now \in Nat /\ frames[i].now <= clock
  <2>1. \A i \in 1..Len(frames) : frames[i] \in Frame
    BY <1>2
  <2>2. \A i \in 1..Len(frames) : frames[i].now <= clock
    BY <1>1 DEF Nested
  <2> QED
    BY <2>1, <2>2 DEF Frame
<1>4. ASSUME Expire PROVE Nested'
  <2>1. heap.root \in Ref /\ heap.root # Nil /\ Len(frames) >= 1
    BY <1>1, <1>2, <1>4, RootKnown DEF Expire, Types, Nested
  <2>2. /\ frames' = [frames EXCEPT ![Len(frames)].timer = heap.root]
        /\ pc' = "callback" /\ platform' = platform /\ clock' = clock
    BY <1>4 DEF Expire
  <2>3. /\ frames' \in Seq(Frame) /\ Len(frames') = Len(frames)
        /\ \A i \in 1..Len(frames) : frames'[i].now = frames[i].now
        /\ frames'[Len(frames)].timer = heap.root
    <3>1. PICK v \in Ref : v = heap.root
      BY <2>1
    <3>2. frames' = [frames EXCEPT ![Len(frames)].timer = v]
      BY <2>2, <3>1
    <3>3. /\ frames' \in Seq(Frame) /\ Len(frames') = Len(frames)
          /\ \A i \in 1..Len(frames) :
                 /\ frames'[i].now = frames[i].now
                 /\ frames'[i].timer = IF i = Len(frames) THEN v ELSE frames[i].timer
      <4>1. PICK f, g : f = frames /\ g = frames'
        OBVIOUS
      <4>2. f \in Seq(Frame) /\ Len(f) >= 1 /\ v \in Ref
        BY <1>2, <2>1, <3>1, <4>1
      <4>3. g = [f EXCEPT ![Len(f)].timer = v]
        BY <3>2, <4>1
      <4>4. /\ g \in Seq(Frame) /\ Len(g) = Len(f)
            /\ \A i \in 1..Len(f) : /\ g[i].now = f[i].now
                                    /\ g[i].timer = IF i = Len(f) THEN v ELSE f[i].timer
        BY ONLY <4>2, <4>3, FrameMarked
      <4> QED
        BY <4>1, <4>4, Zenon
    <3>4. Len(frames) \in 1..Len(frames)
      BY <1>2, <2>1
    <3> QED
      BY <3>1, <3>3, <3>4
  <2>4. Len(frames') >= 1 /\ Top'.timer # Nil
    BY <1>2, <2>1, <2>3 DEF Top
  <2>5. \A i \in 1..Len(frames') : frames'[i].now <= clock'
    BY <1>2, <1>3, <2>2, <2>3
  <2>6. platform' = "darwin" => Len(frames') <= 1 /\ pc' # "clock"
    BY <1>1, <2>2, <2>3 DEF Nested
  <2> QED
    BY <2>2, <2>4, <2>5, <2>6 DEF Nested
<1>5. ASSUME CallbackReturns PROVE Nested'
  <2>1. Len(frames) >= 1
    BY <1>1, <1>5 DEF CallbackReturns, Nested
  <2>2. /\ frames' = [frames EXCEPT ![Len(frames)].timer = Nil]
        /\ platform' = platform /\ clock' = clock
    BY <1>5 DEF CallbackReturns
  <2>3. /\ frames' \in Seq(Frame) /\ Len(frames') = Len(frames)
        /\ \A i \in 1..Len(frames) : frames'[i].now = frames[i].now
        /\ frames'[Len(frames)].timer = Nil
    BY <1>2, <2>1, <2>2, FrameMarked
  <2>4. pc' = "scan" \/ (pc' = "clock" /\ platform = "linux")
    BY <1>5 DEF CallbackReturns, Add
  <2> QED
    BY <1>1, <1>2, <1>3, <2>1, <2>2, <2>3, <2>4 DEF Nested, Top
<1>6. ASSUME NEW t \in Timers, NEW delay \in Delays, NEW period \in Periods,
             Start(t, delay, period)
      PROVE  Nested'
  <2>1. /\ pc' = pc \/ (pc' = "clock" /\ platform = "linux")
        /\ frames' = frames /\ platform' = platform /\ clock' = clock
    BY <1>6 DEF Start, Add
  <2> QED
    BY <1>1, <1>2, <2>1 DEF Nested, Top
<1>7. ASSUME NEW t \in Timers, Stop(t) PROVE Nested'
  BY <1>1, <1>7 DEF Stop, Nested, Top, loop
<1>8. ASSUME Pass PROVE Nested'
  <2>1. /\ frames' = <<[now |-> clock, timer |-> Nil]>>
        /\ pc' = "scan" /\ platform' = platform /\ clock' = clock
    BY <1>8 DEF Pass
  <2>2. frames' \in Seq(Frame) /\ Len(frames') = 1 /\ frames'[1].timer = Nil /\ frames'[1].now = clock
    BY <1>2, <2>1, FirstFrame
  <2>3. Top'.timer = Nil
    BY <2>2 DEF Top
  <2>4. \A i \in 1..Len(frames') : frames'[i].now <= clock'
    BY <1>2, <2>1, <2>2
  <2> QED
    BY <2>1, <2>2, <2>3, <2>4 DEF Nested
<1>9. ASSUME LookAtClock PROVE Nested'
  <2>1. /\ frames' = Append(frames, [now |-> clock, timer |-> Nil])
        /\ pc' = "scan" /\ platform' = platform /\ clock' = clock /\ platform # "darwin"
    BY <1>1, <1>9 DEF LookAtClock, Nested
  <2>2. /\ frames' \in Seq(Frame) /\ Len(frames') = Len(frames) + 1
        /\ frames'[Len(frames')].timer = Nil /\ frames'[Len(frames')].now = clock
        /\ \A i \in 1..Len(frames) : frames'[i] = frames[i]
    BY <1>2, <2>1, FramePushed
  <2>3. \A i \in 1..Len(frames') : frames'[i].now <= clock'
    BY <1>2, <1>3, <2>1, <2>2
  <2> QED
    BY <1>2, <2>1, <2>2, <2>3 DEF Nested, Top
<1>10. ASSUME Arm PROVE Nested'
  <2>1. /\ Len(frames) >= 1 /\ frames' = SubSeq(frames, 1, Len(frames) - 1)
        /\ platform = "linux" /\ platform' = platform /\ clock' = clock
        /\ pc' = IF Len(frames) = 1 THEN "user"
                 ELSE IF frames[Len(frames) - 1].timer = Nil THEN "scan" ELSE "callback"
    BY <1>1, <1>10 DEF Arm, Scanned, Nested
  <2>2. /\ frames' \in Seq(Frame) /\ Len(frames') = Len(frames) - 1
        /\ \A i \in 1..Len(frames') : frames'[i] = frames[i]
    BY <1>2, <2>1, FramePopped
  <2>3. \A i \in 1..Len(frames') : frames'[i].now <= clock'
    BY <1>2, <1>3, <2>1, <2>2
  <2>4. CASE Len(frames) = 1
    <3>1. frames' = <<>> /\ pc' = "user"
      BY <2>1, <2>2, <2>4
    <3> QED
      BY <2>1, <2>3, <3>1 DEF Nested
  <2>5. CASE Len(frames) # 1
    <3>1. Len(frames') >= 1 /\ Top' = frames[Len(frames) - 1]
      BY <1>2, <2>1, <2>2, <2>5 DEF Top
    <3> QED
      BY <2>1, <2>3, <2>5, <3>1 DEF Nested
  <2> QED
    BY <2>4, <2>5
<1>11. ASSUME Tick PROVE Nested'
  <2>1. clock' = clock + 1 /\ frames' = frames /\ pc' = pc /\ platform' = platform
    BY <1>11 DEF Tick, loop
  <2>2. \A i \in 1..Len(frames') : frames'[i].now <= clock'
    BY <1>2, <1>3, <2>1
  <2> QED
    BY <1>1, <2>1, <2>2 DEF Nested, Top
<1>12. ASSUME Sleep PROVE Nested'
  <2>1. /\ clock' = clock /\ frames' = frames /\ pc' = "wait" /\ platform' = platform
        /\ platform = "darwin" /\ pc = "scan"
    BY <1>12 DEF Sleep, Scanned
  <2>2. Len(frames) = 1 /\ Top.timer = Nil
    <3>1. Len(frames) >= 1 /\ Len(frames) <= 1 /\ Top.timer = Nil
      BY <1>1, <2>1 DEF Nested
    <3>2. PICK n \in Nat : n = Len(frames)
      BY <1>2
    <3>3. n = 1
      BY <3>1, <3>2
    <3> QED
      BY <3>1, <3>2, <3>3
  <2>3. Len(frames') = 1 /\ Top'.timer = Nil
    BY <2>1, <2>2 DEF Top
  <2>4. \A i \in 1..Len(frames') : frames'[i].now <= clock'
    BY <1>3, <2>1
  <2> QED
    BY <2>1, <2>3, <2>4 DEF Nested
<1>13. ASSUME Awake PROVE Nested'
  BY <1>13 DEF Awake, Nested
<1>14. ASSUME EpollWait \/ Events \/ TimerIoCb \/ StartCrashes \/ RepeatCrashes PROVE Nested'
  <2>1. clock' = clock /\ frames' = frames /\ platform' = platform
    BY <1>14 DEF EpollWait, Events, TimerIoCb, StartCrashes, RepeatCrashes
  <2>2. \/ pc' = "crashed"
        \/ pc = "user" /\ pc' = "wait" /\ platform = "linux"
        \/ pc = "wait" /\ pc' = "user" /\ platform = "linux"
        \/ pc = "user" /\ pc' = "clock" /\ event
    BY <1>14 DEF EpollWait, Events, TimerIoCb, StartCrashes, RepeatCrashes
  <2>3. \/ pc' = "crashed"
        \/ pc = "user" /\ pc' = "wait" /\ platform = "linux"
        \/ pc = "wait" /\ pc' = "user" /\ platform = "linux"
        \/ pc = "user" /\ pc' = "clock" /\ platform # "darwin"
    BY <1>1, <2>2, Zenon DEF Armed
  <2>4. \A i \in 1..Len(frames') : frames'[i].now <= clock'
    BY <1>3, <2>1
  <2>5. CASE pc' = "crashed"
    BY <1>1, <2>1, <2>4, <2>5 DEF Nested
  <2>6. CASE pc' # "crashed"
    <3>1. /\ frames = <<>> /\ (pc' = "wait" => platform # "darwin")
          /\ (pc' = "clock" => platform # "darwin") /\ pc' \in {"user", "wait", "clock"}
      BY <1>1, <2>3, <2>6 DEF Nested
    <3>2. frames' = <<>> /\ Len(frames') = 0
      BY <2>1, <3>1
    <3> QED
      BY <2>1, <2>4, <3>1, <3>2 DEF Nested
  <2> QED
    BY <2>5, <2>6
<1>15. ASSUME UNCHANGED vars PROVE Nested'
  BY <1>1, <1>15 DEF vars, loop, Nested, Top
<1> QED
  BY <1>4, <1>5, <1>6, <1>7, <1>8, <1>9, <1>10, <1>11, <1>12, <1>13, <1>14, <1>15 DEF Next

LEMMA WantsKept == IInv /\ [Next]_vars => Wants'
<1> SUFFICES ASSUME IInv, [Next]_vars PROVE Wants'
  OBVIOUS
<1>1. Types /\ Layout /\ Nested /\ Wants
  BY DEF IInv
<1>2. /\ frames \in Seq(Frame) /\ clock \in Nat /\ interval \in [Timers -> Nat]
      /\ active \in SUBSET Timers /\ stop \in SUBSET Timers /\ wanted \in SUBSET Timers
      /\ Nil \in Ref /\ Timers \subseteq Ref /\ Nil \notin Timers
  BY <1>1, TimerAssumption DEF Types, Ref
<1>3. ASSUME UNCHANGED <<active, wanted, stop, interval>>,
             \A t \in Timers : InCallback(t) => InCallback(t)'
      PROVE  Wants'
  BY <1>1, <1>2, <1>3 DEF Wants
<1>4. ASSUME Expire PROVE Wants'
  <2>1. PICK r \in Timers : r = heap.root
    BY <1>1, <1>2, <1>4, RootKnown DEF Expire
  <2>2. /\ r \in active /\ Discard(r) /\ stop' = stop /\ interval' = interval
        /\ frames' = [frames EXCEPT ![Len(frames)].timer = r]
        /\ wanted' = IF interval[r] = 0 THEN wanted \ {r} ELSE wanted
    BY <1>1, <1>2, <1>4, <2>1, RootKnown DEF Expire
  <2>3. active' = active \ {r}
    BY <2>2 DEF Discard
  <2>4. PICK n \in Nat : n = Len(frames) /\ n >= 1 /\ n \in 1..Len(frames) /\ frames[n].timer = Nil
    BY <1>1, <1>2, <1>4 DEF Expire, Nested, Top
  <2>5. /\ Len(frames') = Len(frames) /\ r \in Ref
        /\ \A i \in 1..Len(frames) : frames'[i].timer = IF i = n THEN r ELSE frames[i].timer
    BY <1>2, <2>2, <2>4, FrameMarked
  <2>6. \A t \in Timers : InCallback(t) => InCallback(t)'
    BY <1>2, <2>4, <2>5 DEF InCallback
  <2>7. InCallback(r)'
    BY <2>4, <2>5 DEF InCallback
  <2>8. \A t \in wanted' : t \notin active' => interval'[t] # 0 /\ InCallback(t)'
    BY <1>1, <1>2, <2>2, <2>3, <2>6, <2>7 DEF Wants
  <2>9. active' \subseteq wanted' /\ wanted' \cap stop' = {}
    BY <1>1, <2>2, <2>3 DEF Wants
  <2>10. \A t \in Timers : interval'[t] # 0 /\ t \notin stop' => t \in wanted'
    BY <1>1, <2>2 DEF Wants
  <2> QED
    BY <2>8, <2>9, <2>10 DEF Wants
<1>5. ASSUME CallbackReturns PROVE Wants'
  <2>1. PICK r \in Timers : r = Top.timer
    BY <1>1, <1>5, TopKnown DEF CallbackReturns
  <2>2. /\ stop' = stop /\ interval' = interval /\ wanted' = wanted
        /\ frames' = [frames EXCEPT ![Len(frames)].timer = Nil]
    BY <1>5 DEF CallbackReturns
  <2>3. PICK n \in Nat : n = Len(frames) /\ n >= 1 /\ n \in 1..Len(frames) /\ frames[n].timer = r
    BY <1>1, <1>2, <1>5, <2>1 DEF CallbackReturns, Nested, Top
  <2>4. /\ Len(frames') = Len(frames)
        /\ \A i \in 1..Len(frames) : frames'[i].timer = IF i = n THEN Nil ELSE frames[i].timer
    BY <1>2, <2>2, <2>3, FrameMarked
  <2>5. \A t \in Timers : InCallback(t) => t = r \/ InCallback(t)'
    BY <2>3, <2>4 DEF InCallback
  <2>6. CASE Repeats
    <3>1. active' = active \cup {r} /\ interval[r] # 0 /\ r \notin stop
      BY <1>5, <2>1, <2>6 DEF CallbackReturns, Repeats, Add
    <3>2. r \in wanted
      BY <1>1, <3>1 DEF Wants
    <3> QED
      BY <1>1, <1>2, <2>2, <2>5, <3>1, <3>2 DEF Wants
  <2>7. CASE ~ Repeats
    <3>1. active' = active /\ (interval[r] = 0 \/ r \in stop)
      BY <1>5, <2>1, <2>7 DEF CallbackReturns, Repeats
    <3>2. r \in wanted => r \in active
      BY <1>1, <3>1 DEF Wants
    <3> QED
      BY <1>1, <1>2, <2>2, <2>5, <3>1, <3>2 DEF Wants
  <2> QED
    BY <2>6, <2>7
<1>6. ASSUME NEW t \in Timers, NEW delay \in Delays, NEW period \in Periods,
             Start(t, delay, period)
      PROVE  Wants'
  <2>1. /\ stop' = stop \ {t} /\ interval' = [interval EXCEPT ![t] = period]
        /\ active' = active \cup {t} /\ wanted' = wanted \cup {t} /\ frames' = frames
    BY <1>6 DEF Start, Add
  <2>2. \A u \in Timers : u # t => interval'[u] = interval[u]
    BY <1>2, <2>1
  <2>3. \A u \in Timers : InCallback(u) => InCallback(u)'
    BY <2>1 DEF InCallback
  <2>4. \A u \in wanted' : u \notin active' => interval'[u] # 0 /\ InCallback(u)'
    BY <1>1, <1>2, <2>1, <2>2, <2>3 DEF Wants
  <2> QED
    BY <1>1, <1>2, <2>1, <2>2, <2>4 DEF Wants
<1>7. ASSUME NEW t \in Timers, Stop(t) PROVE Wants'
  <2>1. /\ stop' = stop \cup {t} /\ interval' = interval
        /\ active' = active \ {t} /\ wanted' = wanted \ {t} /\ frames' = frames
    BY <1>7 DEF Stop, Discard, loop
  <2>2. \A u \in Timers : InCallback(u) => InCallback(u)'
    BY <2>1 DEF InCallback
  <2>3. \A u \in wanted' : u \notin active' => interval'[u] # 0 /\ InCallback(u)'
    BY <1>1, <1>2, <2>1, <2>2 DEF Wants
  <2> QED
    BY <1>1, <1>2, <2>1, <2>3 DEF Wants
<1>8. ASSUME Pass PROVE Wants'
  <2>1. \A t \in Timers : ~ InCallback(t)
    BY <1>1, <1>8 DEF Pass, Nested, InCallback
  <2> QED
    BY <1>3, <1>8, <2>1 DEF Pass, fields
<1>9. ASSUME Awake PROVE Wants'
  <2>1. Len(frames) = 1 /\ frames[1].timer = Nil
    BY <1>1, <1>9 DEF Awake, Nested, Top
  <2>2. \A t \in Timers : ~ InCallback(t)
    BY <1>2, <2>1 DEF InCallback
  <2> QED
    BY <1>3, <1>9, <2>2 DEF Awake, fields
<1>10. ASSUME LookAtClock PROVE Wants'
  <2>1. frames' = Append(frames, [now |-> clock, timer |-> Nil])
    BY <1>10 DEF LookAtClock
  <2>2. Len(frames') = Len(frames) + 1 /\ \A i \in 1..Len(frames) : frames'[i] = frames[i]
    BY <1>2, <2>1, FramePushed
  <2>3. \A i \in 1..Len(frames) : i \in 1..Len(frames')
    BY <1>2, <2>2
  <2>4. \A t \in Timers : InCallback(t) => InCallback(t)'
    BY <2>2, <2>3 DEF InCallback
  <2> QED
    BY <1>3, <1>10, <2>4 DEF LookAtClock, fields
<1>11. ASSUME Arm PROVE Wants'
  <2>1. frames' = SubSeq(frames, 1, Len(frames) - 1)
    BY <1>11 DEF Arm
  <2>2. Len(frames) >= 1
    BY <1>1, <1>11 DEF Arm, Scanned, Nested
  <2>3. /\ frames' \in Seq(Frame) /\ Len(frames') = Len(frames) - 1
        /\ \A i \in 1..Len(frames') : frames'[i] = frames[i]
    BY <1>2, <2>1, <2>2, FramePopped
  <2>4. \A i \in 1..Len(frames) : i = Len(frames) \/ i \in 1..Len(frames')
    BY <1>2, <2>2, <2>3
  <2>5. frames[Len(frames)].timer = Nil
    BY <1>1, <1>11 DEF Arm, Scanned, Nested, Top
  <2>6. \A t \in Timers : InCallback(t) => InCallback(t)'
    BY <1>2, <2>3, <2>4, <2>5 DEF InCallback
  <2> QED
    BY <1>3, <1>11, <2>6 DEF Arm, fields
<1>12. ASSUME \/ Tick \/ Sleep \/ EpollWait \/ Events \/ TimerIoCb \/ StartCrashes
              \/ RepeatCrashes \/ UNCHANGED vars
       PROVE  Wants'
  <2>1. UNCHANGED <<active, wanted, stop, interval, frames>>
    BY <1>12 DEF Tick, Sleep, EpollWait, Events, TimerIoCb, StartCrashes, RepeatCrashes,
                 vars, fields, loop
  <2>2. \A t \in Timers : InCallback(t) => InCallback(t)'
    BY <2>1 DEF InCallback
  <2> QED
    BY <1>3, <2>1, <2>2
<1> QED
  BY <1>4, <1>5, <1>6, <1>7, <1>8, <1>9, <1>10, <1>11, <1>12 DEF Next

LEMMA ArmedKept == IInv /\ [Next]_vars => Armed'
<1> SUFFICES ASSUME IInv, [Next]_vars PROVE Armed'
  OBVIOUS
<1>1. Types /\ Layout /\ Nested /\ Armed
  BY DEF IInv
<1>2. /\ frames \in Seq(Frame) /\ clock \in Nat /\ clock >= 1 /\ wake \in Int
      /\ timeout \in [Timers -> Nat] /\ interval \in [Timers -> Nat]
      /\ active \in SUBSET Timers
      /\ Nil \notin Timers /\ platform \in {"darwin", "linux"}
  BY <1>1, TimerAssumption DEF Types
<1>3. /\ \A t \in active : timeout[t] >= 1
      /\ platform = "darwin" => ~ event
      /\ platform = "linux" /\ pc = "wait" => ~ event
      /\ platform = "linux" /\ pc \in {"user", "wait"} /\ ~ event /\ ~ displaced =>
             \A t \in active : wake # 0 /\ wake <= timeout[t]
      /\ platform = "darwin" /\ pc = "wait" /\ ~ displaced =>
             \A t \in active : wake <= timeout[t] + (clock - Top.now)
  BY <1>1, Zenon DEF Armed
(* Nothing waits after most steps.                                         *)
<1>4. ASSUME \A t \in active' : timeout'[t] >= 1, UNCHANGED <<platform, event>>,
             pc' \notin {"user", "wait"} \/ (pc' # "wait" /\ platform # "linux")
      PROVE  Armed'
  <2>1. platform' = "darwin" => ~ event'
    BY <1>3, <1>4, Zenon
  <2>2. pc' # "wait" /\ (platform' = "linux" => pc' \notin {"user", "wait"})
    BY <1>4
  <2> QED
    BY <1>4, <2>1, <2>2, Zenon DEF Armed
<1>5. ASSUME Expire PROVE Armed'
  <2>1. PICK r \in Timers : r = heap.root /\ Discard(r)
    BY <1>1, <1>2, <1>5, RootKnown DEF Expire
  <2>2. active' = active \ {r} /\ \A u \in Timers : timeout'[u] = IF u = r THEN 0 ELSE timeout[u]
    BY <1>1, <2>1, DiscardKeeps DEF Dropped
  <2>3. \A t \in active' : timeout'[t] >= 1
    BY <1>2, <1>3, <2>2
  <2> QED
    BY <1>4, <1>5, <2>3 DEF Expire
<1>6. ASSUME CallbackReturns PROVE Armed'
  <2>1. PICK r \in Timers : r = Top.timer
    BY <1>1, <1>6, TopKnown DEF CallbackReturns
  <2>2. \A t \in active' : timeout'[t] >= 1
    <3>1. CASE Repeats
      <4>1. Add(r, clock + interval[r], "scan")
        BY <1>6, <2>1, <3>1 DEF CallbackReturns
      <4>2. PICK time \in Nat : time = clock + interval[r] /\ time >= 1
        BY <1>2
      <4>3. active' = active \cup {r} /\ \A u \in Timers : timeout'[u] = IF u = r THEN time ELSE timeout[u]
        BY <1>1, <4>1, <4>2, AddKeeps DEF Added
      <4> QED
        BY <1>2, <1>3, <4>2, <4>3
    <3>2. CASE ~ Repeats
      BY <1>3, <1>6, <3>2 DEF CallbackReturns
    <3> QED
      BY <3>1, <3>2
  <2>3. pc' \in {"scan", "clock"}
    BY <1>6 DEF CallbackReturns, Add
  <2> QED
    BY <1>4, <1>6, <2>2, <2>3 DEF CallbackReturns
<1>7. ASSUME NEW t \in Timers, NEW delay \in Delays, NEW period \in Periods,
             Start(t, delay, period)
      PROVE  Armed'
  <2>1. PICK time \in Nat : time = clock + (IF delay = 0 THEN period ELSE delay) /\ time >= 1
    BY <1>2, TimerAssumption
  <2>2. Add(t, time, pc) /\ UNCHANGED <<platform, event>> /\ pc \in {"user", "callback"}
    BY <1>7, <2>1 DEF Start, InUserCode
  <2>3. active' = active \cup {t} /\ \A u \in Timers : timeout'[u] = IF u = t THEN time ELSE timeout[u]
    BY <1>1, <2>1, <2>2, AddKeeps DEF Added
  <2>4. \A u \in active' : timeout'[u] >= 1
    BY <1>2, <1>3, <2>1, <2>3
  <2>5. CASE platform = "linux" /\ t \in active
    <3>1. displaced' /\ pc' = pc
      BY <2>2, <2>5, Zenon DEF Add
    <3>2. platform' # "darwin" /\ pc' # "wait"
      BY <2>2, <2>5, <3>1
    <3> QED
      BY <2>4, <3>1, <3>2, Zenon DEF Armed
  <2>6. CASE platform = "linux" /\ t \notin active
    BY <1>4, <2>2, <2>4, <2>6 DEF Add
  <2>7. CASE platform # "linux"
    BY <1>4, <2>2, <2>4, <2>7 DEF Add
  <2> QED
    BY <2>5, <2>6, <2>7
<1>8. ASSUME NEW t \in Timers, Stop(t) PROVE Armed'
  <2>1. /\ Discard(t) /\ pc' = pc /\ wake' = wake /\ UNCHANGED <<platform, event>>
        /\ pc \in {"user", "callback"}
    BY <1>8 DEF Stop, InUserCode, loop
  <2>2. /\ active' = active \ {t} /\ \A u \in Timers : timeout'[u] = IF u = t THEN 0 ELSE timeout[u]
        /\ ~ displaced' => ~ displaced \/ active' = {}
    BY <1>1, <2>1, DiscardKeeps, Zenon DEF Dropped
  <2>3. \A u \in active' : u \in active /\ timeout'[u] = timeout[u]
    BY <1>2, <2>2
  <2>4. \A u \in active' : timeout'[u] >= 1
    BY <1>3, <2>3
  <2>5. pc' # "wait"
    BY <2>1
  <2>6. ASSUME platform' = "linux", pc' \in {"user", "wait"}, ~ event', ~ displaced'
        PROVE  \A u \in active' : wake' # 0 /\ wake' <= timeout'[u]
    <3>1. ~ displaced => \A u \in active : wake # 0 /\ wake <= timeout[u]
      BY <1>3, <2>1, <2>6, Zenon
    <3>2. ~ displaced \/ active' = {}
      BY <2>2, <2>6, Zenon
    <3>3. CASE ~ displaced
      BY <2>1, <2>3, <3>1, <3>3
    <3>4. CASE active' = {}
      BY <3>4
    <3> QED
      BY <3>2, <3>3, <3>4
  <2>7. platform' = "darwin" => ~ event'
    BY <1>3, <2>1, Zenon
  <2> QED
    BY <2>4, <2>5, <2>6, <2>7, Zenon DEF Armed
<1>9. ASSUME Sleep PROVE Armed'
  <2>1. /\ platform = "darwin" /\ platform' = platform /\ pc = "scan" /\ wake' = clock + Wait
        /\ UNCHANGED <<timeout, active, clock, frames, event, displaced>>
    BY <1>9 DEF Sleep, Scanned, fields
  <2>2. PICK now \in Nat : now = Top.now
    <3>1. Len(frames) \in 1..Len(frames)
      BY <1>1, <1>2, <2>1 DEF Nested
    <3>2. Top \in Frame
      BY <1>2, <3>1 DEF Top
    <3> QED
      BY <3>2 DEF Frame
  <2>3. ASSUME ~ displaced', NEW t \in active' PROVE wake' <= timeout'[t] + (clock' - Top'.now)
    <3>1. t \in active /\ heap.root # Nil /\ heap.root \in active
      BY <1>1, <2>1, <2>3, RootKnown
    <3>2. timeout[heap.root] <= timeout[t]
      <4>1. ~ displaced
        BY <2>1, <2>3, Zenon
      <4> QED
        BY <1>1, <3>1, <4>1, RootKnown
    <3>3. wake' = clock + (timeout[heap.root] - now)
      BY <2>1, <2>2, <3>1 DEF Wait
    <3>4. Top' = Top
      BY <2>1 DEF Top
    <3>5. timeout[heap.root] \in Nat /\ timeout[t] \in Nat
      BY <1>2, <3>1
    <3>6. wake' <= timeout[t] + (clock - now)
      BY <1>2, <3>2, <3>3, <3>5
    <3> QED
      BY <2>1, <2>2, <3>4, <3>6
  <2>4. platform' = "darwin" /\ platform' # "linux" /\ \A t \in active' : timeout'[t] >= 1
    BY <1>3, <2>1
  <2>5. ~ event'
    BY <1>3, <2>1, Zenon
  <2> QED
    BY <2>3, <2>4, <2>5, Zenon DEF Armed
<1>10. ASSUME Arm PROVE Armed'
  <2>1. /\ platform = "linux" /\ platform' = platform
        /\ pc' \in {"user", "scan", "callback"}
        /\ wake' = IF heap.root = Nil THEN wake ELSE timeout[heap.root]
        /\ UNCHANGED <<timeout, active, event, displaced>>
    BY <1>10 DEF Arm, fields
  <2>2. ASSUME ~ displaced', NEW t \in active' PROVE wake' # 0 /\ wake' <= timeout'[t]
    <3>1. t \in active /\ heap.root # Nil /\ heap.root \in active
      BY <1>1, <2>1, <2>2, RootKnown
    <3>2. timeout[heap.root] <= timeout[t]
      <4>1. ~ displaced
        BY <2>1, <2>2, Zenon
      <4> QED
        BY <1>1, <3>1, <4>1, RootKnown
    <3>3. timeout[heap.root] \in Nat /\ timeout[heap.root] >= 1
      BY <1>2, <1>3, <3>1
    <3> QED
      BY <2>1, <3>1, <3>2, <3>3
  <2>3. platform' # "darwin" /\ pc' # "wait" /\ \A t \in active' : timeout'[t] >= 1
    BY <1>3, <2>1
  <2> QED
    BY <2>2, <2>3, Zenon DEF Armed
<1>11. ASSUME EpollWait PROVE Armed'
  <2>1. /\ platform = "linux" /\ platform' = platform /\ pc = "user"
        /\ UNCHANGED <<timeout, active, wake, displaced>>
    BY <1>11 DEF EpollWait, fields
  <2>2. ~ event /\ event' = event
    BY <1>11, Zenon DEF EpollWait
  <2>3. platform' # "darwin" /\ \A t \in active' : timeout'[t] >= 1
    BY <1>3, <2>1
  <2>4. ASSUME ~ displaced' PROVE \A t \in active' : wake' # 0 /\ wake' <= timeout'[t]
    <3>1. pc \in {"user", "wait"}
      BY <2>1
    <3>2. \A t \in active : wake # 0 /\ wake <= timeout[t]
      BY <1>3, <2>1, <2>2, <2>4, <3>1, Zenon
    <3> QED
      BY <2>1, <3>2
  <2>5. ~ event'
    BY <2>2, Zenon
  <2> QED
    BY <2>3, <2>4, <2>5, Zenon DEF Armed
<1>12. ASSUME Events PROVE Armed'
  <2>1. /\ platform = "linux" /\ platform' = platform /\ pc = "wait" /\ pc' = "user"
        /\ UNCHANGED <<timeout, active, wake, displaced>>
    BY <1>12 DEF Events, fields
  <2>2. platform' # "darwin" /\ pc' # "wait" /\ \A t \in active' : timeout'[t] >= 1
    BY <1>3, <2>1
  <2>3. ASSUME ~ displaced' PROVE \A t \in active' : wake' # 0 /\ wake' <= timeout'[t]
    <3>1. pc \in {"user", "wait"}
      BY <2>1
    <3>2. \A t \in active : wake # 0 /\ wake <= timeout[t]
      BY <1>3, <2>1, <2>3, <3>1, Zenon
    <3> QED
      BY <2>1, <3>2
  <2> QED
    BY <2>2, <2>3, Zenon DEF Armed
<1>13. ASSUME TimerIoCb PROVE Armed'
  <2>1. pc' = "clock" /\ UNCHANGED <<timeout, active>>
    BY <1>13 DEF TimerIoCb, fields
  <2>2. ~ event'
    BY <1>13, Zenon DEF TimerIoCb
  <2>3. pc' \notin {"user", "wait"} /\ pc' # "wait" /\ \A t \in active' : timeout'[t] >= 1
    BY <1>3, <2>1
  <2> QED
    BY <2>2, <2>3, Zenon DEF Armed
<1>14. ASSUME Tick PROVE Armed'
  <2>1. /\ clock' = clock + 1
        /\ UNCHANGED <<platform, pc, frames, wake, event, timeout, active, displaced>>
    BY <1>14 DEF Tick, fields, loop
  <2>2. \A t \in active' : timeout'[t] >= 1
    BY <1>3, <2>1
  <2>3. /\ platform' = "darwin" => ~ event'
        /\ platform' = "linux" /\ pc' = "wait" => ~ event'
        /\ platform' = "linux" /\ pc' \in {"user", "wait"} /\ ~ event' /\ ~ displaced' =>
               \A t \in active' : wake' # 0 /\ wake' <= timeout'[t]
    BY <1>3, <2>1, Zenon
  <2>4. ASSUME platform' = "darwin", pc' = "wait", ~ displaced', NEW t \in active'
        PROVE  wake' <= timeout'[t] + (clock' - Top'.now)
    <3>1. platform = "darwin" /\ pc = "wait" /\ t \in active
      BY <2>1, <2>4
    <3>2. wake <= timeout[t] + (clock - Top.now)
      BY <1>3, <2>1, <2>4, <3>1, Zenon
    <3>3. PICK now \in Nat : now = Top.now
      <4>1. Len(frames) = 1
        BY <1>1, <3>1 DEF Nested
      <4>2. Len(frames) \in 1..Len(frames)
        BY <4>1
      <4>3. Top \in Frame
        BY <1>2, <4>2 DEF Top
      <4> QED
        BY <4>3 DEF Frame
    <3>4. Top'.now = now
      BY <2>1, <3>3 DEF Top
    <3>5. timeout[t] \in Nat
      BY <1>2, <3>1
    <3>6. wake <= timeout[t] + (clock + 1 - now)
      BY <1>2, <3>2, <3>3, <3>5
    <3>7. wake' = wake /\ timeout'[t] = timeout[t] /\ clock' = clock + 1
      BY <2>1
    <3>8. clock \in Nat /\ wake \in Int
      BY <1>2
    <3> QED
      BY ONLY <3>3, <3>4, <3>5, <3>6, <3>7, <3>8
  <2> QED
    BY <2>2, <2>3, <2>4, Zenon DEF Armed
<1>15. ASSUME Pass \/ Awake \/ LookAtClock \/ StartCrashes \/ RepeatCrashes PROVE Armed'
  <2>1. /\ UNCHANGED <<platform, event, timeout, active>>
        /\ pc' \in {"scan", "crashed"} \/ (pc' = "user" /\ platform = "darwin")
    BY <1>15 DEF Pass, Awake, LookAtClock, StartCrashes, RepeatCrashes, fields
  <2> QED
    BY <1>3, <1>4, <2>1
<1>16. ASSUME UNCHANGED vars PROVE Armed'
  BY <1>1, <1>16, Zenon DEF vars, fields, loop, Armed, Top
<1> QED
  BY <1>5, <1>6, <1>7, <1>8, <1>9, <1>10, <1>11, <1>12, <1>13, <1>14, <1>15, <1>16 DEF Next

-----------------------------------------------------------------------------
LEMMA Initially == Init => IInv
<1> SUFFICES ASSUME Init PROVE IInv
  OBVIOUS
<1>1. Nil \in Ref /\ Nil \notin Timers
  BY TimerAssumption DEF Ref
<1>2. frames = <<>> /\ Len(frames) = 0 /\ frames \in Seq(Frame)
  BY DEF Init
<1>3. Types
  <2>1. platform \in {"darwin", "linux"}
    BY TimerAssumption DEF Init
  <2>2. event \in BOOLEAN /\ displaced \in BOOLEAN
    BY Zenon DEF Init
  <2>3. /\ timeout \in [Timers -> Nat] /\ interval \in [Timers -> Nat]
        /\ active = {} /\ stop = {} /\ wanted = {}
        /\ clock \in Nat /\ clock >= 1 /\ wake \in Int
    BY DEF Init
  <2> QED
    BY <1>2, <2>1, <2>2, <2>3 DEF Types
<1>4. Layout
  <2>1. PICK a : a = [k \in Nat |-> Nil]
    OBVIOUS
  <2>2. PICK h : h = EmptyHeap
    OBVIOUS
  <2>3. /\ h \in Heaps /\ h.cnt = 0 /\ h.root = Nil
        /\ \A n \in Ref : h.p[n] = Nil /\ h.l[n] = Nil /\ h.r[n] = Nil
    BY <1>1, <2>2 DEF EmptyHeap, AllNil, Heaps
  <2>4. a \in [Nat -> Ref] /\ \A k \in Nat : a[k] = Nil
    BY <1>1, <2>1
  <2>5. Placed(h, {}, a)
    BY <2>3, <2>4 DEF Placed
  <2>6. Laid(h, {}, a)
    BY <1>1, <2>3, <2>4, <2>5 DEF Laid
  <2>7. InOrder(0, a, timeout)
    BY DEF InOrder
  <2>8. heap = h /\ active = {}
    BY <2>2 DEF Init
  <2> QED
    BY <2>3, <2>6, <2>7, <2>8 DEF Layout
<1>5. Nested
  BY <1>2 DEF Init, Nested
<1>6. Wants
  BY DEF Init, Wants
<1>7. Armed
  <2>1. active = {} /\ pc = "user"
    BY DEF Init
  <2>2. ~ event
    BY Zenon DEF Init
  <2> QED
    BY <2>1, <2>2 DEF Armed
<1> QED
  BY <1>3, <1>4, <1>5, <1>6, <1>7 DEF IInv

LEMMA Invariance == Spec => []IInv
<1>1. Init => IInv
  BY Initially
<1>2. IInv /\ [Next]_vars => IInv'
  BY TypesKept, LayoutKept, NestedKept, WantsKept, ArmedKept DEF IInv
<1> QED
  BY <1>1, <1>2, PTL DEF Spec

(* After every sequence of starts, stops and expirations the heap of       *)
(* src/lc_heap.c is the complete tree of the active timers, each in one    *)
(* place and with its links both ways, also when a timer in the heap was   *)
(* given another timeout.                                                  *)
THEOREM HeapComplete == Spec => []HeapHoldsActive
<1>1. IInv => HeapHoldsActive
  BY LaidIsLinked DEF IInv, Layout, HeapHoldsActive
<1> QED
  BY <1>1, Invariance, PTL

(* liteco_eloop_timer_active and the calls made in its callbacks lose no   *)
(* timer: one that the program expects a callback of is in the heap, or    *)
(* its callback is running.                                                *)
THEOREM WantedStaysActive == Spec => []WantedIsActive
<1>1. IInv => WantedIsActive
  <2> SUFFICES ASSUME Wants PROVE WantedIsActive
    BY DEF IInv
  <2>1. \A t \in wanted : t \notin active => \E i \in 1..Len(frames) : frames[i].timer = t
    BY DEF Wants, InCallback
  <2> QED
    BY <2>1 DEF Wants, WantedIsActive
<1> QED
  BY <1>1, Invariance, PTL

(* The loop of either platform does not sleep past the earliest timeout,   *)
(* on Darwin but for the time its callbacks took, as long as no timeout    *)
(* was changed in the heap.                                                *)
THEOREM WaitEndsInTime == Spec => []SleepsUntilEarliest
<1>1. IInv => SleepsUntilEarliest
  <2> SUFFICES ASSUME Types, Armed, pc = "wait", ~ displaced, NEW t \in active
               PROVE  IF platform = "linux" THEN wake # 0 /\ wake <= timeout[t]
                      ELSE wake <= timeout[t] + (clock - Top.now)
    BY DEF IInv, SleepsUntilEarliest
  <2>1. platform \in {"darwin", "linux"}
    BY DEF Types
  <2>2. CASE platform = "linux"
    <3>1. ~ event
      BY <2>2, Zenon DEF Armed
    <3>2. \A s \in active : wake # 0 /\ wake <= timeout[s]
      BY <2>2, <3>1, Zenon DEF Armed
    <3> QED
      BY <2>2, <3>2
  <2>3. CASE platform = "darwin"
    <3>1. \A s \in active : wake <= timeout[s] + (clock - Top.now)
      BY <2>3, Zenon DEF Armed
    <3> QED
      BY <2>3, <3>1
  <2> QED
    BY <2>1, <2>2, <2>3
<1> QED
  BY <1>1, Invariance, PTL

RunsWanted ==
    Len(frames') = Len(frames) =>
        \A i \in 1..Len(frames) :
            frames'[i].timer \notin {frames[i].timer, Nil} =>
                frames'[i].timer \in wanted /\ timeout[frames'[i].timer] < clock

LEMMA OnlyWantedStep == IInv /\ [Next]_vars => RunsWanted
<1> SUFFICES ASSUME IInv, [Next]_vars PROVE RunsWanted
  OBVIOUS
<1>1. Types /\ Layout /\ Nested /\ Wants
  BY DEF IInv
<1>2. frames \in Seq(Frame) /\ Len(frames) \in Nat
  BY <1>1 DEF Types
<1>3. ASSUME UNCHANGED frames PROVE RunsWanted
  BY <1>3 DEF RunsWanted
<1>4. ASSUME Len(frames') # Len(frames) PROVE RunsWanted
  BY <1>4 DEF RunsWanted
<1>5. ASSUME Expire PROVE RunsWanted
  <2>1. PICK r \in Timers : r = heap.root /\ r \in active /\ timeout[r] < Top.now
    BY <1>1, <1>5, RootKnown DEF Expire, Due, Types
  <2>2. frames' = [frames EXCEPT ![Len(frames)].timer = r]
    BY <1>5, <2>1 DEF Expire
  <2>3. PICK n \in Nat : n = Len(frames) /\ n \in 1..Len(frames) /\ n >= 1
    BY <1>1, <1>2, <1>5 DEF Expire, Nested
  <2>4. r \in Ref
    BY DEF Ref
  <2>5. \A i \in 1..Len(frames) : frames'[i].timer = IF i = Len(frames) THEN r ELSE frames[i].timer
    BY <1>2, <2>2, <2>3, <2>4, FrameMarked
  <2>6. Top.now \in Nat /\ Top.now <= clock
    <3>1. frames[n] \in Frame
      BY <1>2, <2>3
    <3>2. frames[n].now <= clock
      BY <1>1, <2>3 DEF Nested
    <3> QED
      BY <2>3, <3>1, <3>2 DEF Top, Frame
  <2>7. r \in wanted /\ timeout[r] < clock
    BY <1>1, <2>1, <2>6 DEF Types, Wants
  <2> QED
    BY <2>5, <2>7 DEF RunsWanted
<1>6. ASSUME CallbackReturns PROVE RunsWanted
  <2>1. frames' = [frames EXCEPT ![Len(frames)].timer = Nil] /\ Len(frames) >= 1
    BY <1>1, <1>6 DEF CallbackReturns, Nested
  <2>2. Nil \in Ref
    BY DEF Ref
  <2>3. \A i \in 1..Len(frames) : frames'[i].timer = IF i = Len(frames) THEN Nil ELSE frames[i].timer
    BY <1>2, <2>1, <2>2, FrameMarked
  <2> QED
    BY <2>3 DEF RunsWanted
<1>7. ASSUME Pass PROVE RunsWanted
  <2>1. Len(frames) = 0
    BY <1>1, <1>7 DEF Pass, Nested
  <2> QED
    BY <2>1 DEF RunsWanted
<1>8. ASSUME Awake PROVE RunsWanted
  <2>1. Len(frames) = 1 /\ Len(frames') = 0
    BY <1>1, <1>8 DEF Awake, Nested
  <2> QED
    BY <1>4, <2>1
<1>9. ASSUME LookAtClock PROVE RunsWanted
  <2>1. clock \in Nat /\ frames' = Append(frames, [now |-> clock, timer |-> Nil])
    BY <1>1, <1>9 DEF LookAtClock, Types
  <2>2. Len(frames') = Len(frames) + 1
    BY <1>2, <2>1, FramePushed
  <2> QED
    BY <1>2, <1>4, <2>2
<1>10. ASSUME Arm PROVE RunsWanted
  <2>1. Len(frames) >= 1 /\ frames' = SubSeq(frames, 1, Len(frames) - 1)
    BY <1>1, <1>10 DEF Arm, Scanned, Nested
  <2>2. Len(frames') = Len(frames) - 1
    BY <1>2, <2>1, FramePopped
  <2> QED
    BY <1>2, <1>4, <2>2
<1>11. CASE UNCHANGED vars
  BY <1>3, <1>11 DEF vars, loop
<1>12. CASE Tick
  BY <1>3, <1>12 DEF Tick, loop
<1>13. CASE Sleep
  BY <1>3, <1>13 DEF Sleep
<1>14. CASE EpollWait
  BY <1>3, <1>14 DEF EpollWait
<1>15. CASE Events
  BY <1>3, <1>15 DEF Events
<1>16. CASE TimerIoCb
  BY <1>3, <1>16 DEF TimerIoCb
<1>17. CASE StartCrashes
  BY <1>3, <1>17 DEF StartCrashes
<1>18. CASE RepeatCrashes
  BY <1>3, <1>18 DEF RepeatCrashes
<1>19. ASSUME NEW t \in Timers, NEW delay \in Delays, NEW period \in Periods, Start(t, delay, period)
       PROVE  RunsWanted
  BY <1>3, <1>19 DEF Start
<1>20. ASSUME NEW t \in Timers, Stop(t) PROVE RunsWanted
  BY <1>3, <1>20 DEF Stop, loop
<1> QED
  BY <1>5, <1>6, <1>7, <1>8, <1>9, <1>10, <1>11, <1>12, <1>13, <1>14, <1>15, <1>16,
     <1>17, <1>18, <1>19, <1>20 DEF Next

(* A step that begins a callback does so for a timer that was started, was *)
(* not stopped since, has not had its last callback and whose timeout has  *)
(* passed, however deep the calls of liteco_eloop_timer_active are nested. *)
THEOREM CallbacksAreDue == Spec => OnlyWantedRun
<1>1. IInv /\ [Next]_vars => RunsWanted
  BY OnlyWantedStep
<1>2. IInv /\ [Next]_vars => [RunsWanted]_vars
  BY <1>1
<1>3. Spec => [][RunsWanted]_vars
  BY <1>2, Invariance, PTL DEF Spec
<1> QED
  BY <1>3 DEF RunsWanted, OnlyWantedRun

(* The timers are in heap order by their timeouts, so that the root is the *)
(* earliest, unless liteco_timer_start gave another timeout to a timer     *)
(* that was in the heap: the code then leaves it at its place.             *)
THEOREM HeapInOrder == Spec => [](~ displaced => Ordered(heap, timeout))
<1>1. IInv => (~ displaced => Ordered(heap, timeout))
  <2> SUFFICES ASSUME Types, Layout, ~ displaced PROVE Ordered(heap, timeout)
    BY Zenon DEF IInv
  <2>1. PICK a : Laid(heap, active, a) /\ (~ displaced => InOrder(heap.cnt, a, timeout))
    BY Zenon DEF Layout
  <2>2. InOrder(heap.cnt, a, timeout)
    BY <2>1, Zenon
  <2>3. PICK at : at = Places(heap)
    OBVIOUS
  <2>4. \A k \in 1..heap.cnt : at[k] = a[k]
    BY <2>1, <2>3, PlacesLaid
  <2>5. timeout \in [Timers -> Int] /\ heap.cnt \in Nat
    BY <2>1, LaidLinks DEF Types
  <2>6. \A k \in Nat : k \in 1..heap.cnt => timeout[a[k]] \in Int
    BY <2>1, <2>5, KeysOf
  <2>7. ASSUME NEW k \in 2..heap.cnt PROVE ~ Swaps(timeout, at[k \div 2], at[k])
    <3>1. PICK q \in Nat : q = k \div 2 /\ q >= 1 /\ q <= heap.cnt
      BY <2>5, <2>7, Halves
    <3>2. at[q] = a[q] /\ at[k] = a[k]
      BY <2>4, <2>5, <3>1
    <3>3. timeout[a[k \div 2]] <= timeout[a[k]]
      BY <2>2, <2>5 DEF InOrder
    <3> QED
      BY <2>5, <2>6, <3>1, <3>2, <3>3 DEF Swaps
  <2> QED
    BY <2>3, <2>7, Zenon DEF Ordered
<1> QED
  BY <1>1, Invariance, PTL
=============================================================================
