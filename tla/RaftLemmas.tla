----------------------------- MODULE RaftLemmas -----------------------------
(***************************************************************************)
(* What the operators on logs compute, for logs of any length.             *)
(***************************************************************************)
EXTENDS RaftLog, TLAPS, SequenceTheorems, WellFoundedInduction

\* Every leaf is tried with Zenon for a moment, then with SMT, then with each of
\* them for longer.
USE ZenonT(2), SMTT(10), ZenonT(20), SMTT(40)

\* Min of a non-empty set of naturals is its least element.
LEMMA MinNat ==
  ASSUME NEW S \in SUBSET Nat, S # {}
  PROVE  Min(S) \in S /\ \A y \in S : Min(S) <= y
  <1>1. PICK x \in S : \A y \in S : ~(<<y, x>> \in OpToRel(<, Nat))
    BY NatLessThanWellFounded, WFMin
  <1>2. \A y \in S : ~(y < x)
    BY <1>1 DEF OpToRel
  <1>3. \A y \in S : x <= y
    BY <1>2
  <1> QED
    BY <1>3 DEF Min

\* Max of a non-empty bounded set of naturals is its greatest element.
LEMMA MaxNat ==
  ASSUME NEW n \in Nat, NEW S \in SUBSET (0 .. n), S # {}
  PROVE  Max(S) \in S /\ \A y \in S : Max(S) >= y
  <1> DEFINE T == {n - x : x \in S}
  <1>1. \A x \in S : n - x \in Nat
    OBVIOUS
  <1>1a. T \in SUBSET Nat /\ T # {}
    BY <1>1
  <1>2. Min(T) \in T /\ \A y \in T : Min(T) <= y
    BY <1>1a, MinNat
  <1>3. PICK x \in S : Min(T) = n - x
    BY <1>2
  <1>4. \A y \in S : x >= y
    BY <1>2, <1>3
  <1> QED
    BY <1>4 DEF Max

-----------------------------------------------------------------------------
(* Logs.                                                                   *)

\* The first and the last entry of a log, and every other, are entries.
LEMMA LogBasics ==
  ASSUME NEW l \in Log
  PROVE  /\ Len(l) \in Nat \ {0}
         /\ DOMAIN l = 1 .. Len(l)
         /\ \A k \in 1 .. Len(l) : /\ l[k] \in Entry
                                  /\ l[k].index \in Nat
                                  /\ l[k].term \in Nat
         /\ FirstLog(l) \in Entry
         /\ LastLog(l) \in Entry
  <1>1. l \in Seq(Entry) /\ l # <<>>
    BY DEF Log
  <1>2. Len(l) \in Nat \ {0} /\ DOMAIN l = 1 .. Len(l)
    BY <1>1, EmptySeq, LenProperties
  <1>3. \A k \in 1 .. Len(l) : l[k] \in Entry
    BY <1>1, ElementOfSeq
  <1>4. \A k \in 1 .. Len(l) : l[k].index \in Nat /\ l[k].term \in Nat
    BY <1>3 DEF Entry
  <1>5. FirstLog(l) \in Entry /\ LastLog(l) \in Entry
    BY <1>2, <1>3 DEF FirstLog, LastLog
  <1> QED
    BY <1>2, <1>3, <1>4, <1>5

\* In a contiguous log, Pos and the index field are inverse to each other.
LEMMA ContiguousPos ==
  ASSUME NEW l \in Log, Contiguous(l)
  PROVE  /\ FirstLog(l).index \in Nat /\ LastLog(l).index \in Nat
         /\ \A k \in 1 .. Len(l) : l[k].index = FirstLog(l).index + k - 1
         /\ LastLog(l).index = FirstLog(l).index + Len(l) - 1
         /\ \A i \in FirstLog(l).index .. LastLog(l).index :
               Pos(l, i) \in 1 .. Len(l) /\ l[Pos(l, i)].index = i
  <1>1. /\ Len(l) \in Nat \ {0} /\ DOMAIN l = 1 .. Len(l)
        /\ FirstLog(l).index \in Nat /\ LastLog(l).index \in Nat
    BY LogBasics DEF Entry
  <1>2. \A k \in 1 .. Len(l) : l[k].index = FirstLog(l).index + k - 1
    BY <1>1 DEF Contiguous, FirstLog
  <1>3. LastLog(l).index = FirstLog(l).index + Len(l) - 1
    BY <1>1, <1>2 DEF LastLog
  <1>4. ASSUME NEW i \in FirstLog(l).index .. LastLog(l).index
        PROVE  Pos(l, i) \in 1 .. Len(l) /\ l[Pos(l, i)].index = i
    <2>1. i \in Nat /\ Pos(l, i) = i - FirstLog(l).index + 1 /\ Pos(l, i) \in 1 .. Len(l)
      BY <1>1, <1>3 DEF Pos
    <2>2. l[Pos(l, i)].index = FirstLog(l).index + Pos(l, i) - 1
      BY <1>2, <2>1
    <2> QED
      BY <1>1, <2>1, <2>2
  <1> QED
    BY <1>1, <1>2, <1>3, <1>4

\* Contiguity, shown entry by entry.
LEMMA ContiguousIntro ==
  ASSUME NEW l \in Log, NEW f \in Nat,
         \A k \in 1 .. Len(l) : l[k].index = f + k - 1
  PROVE  Contiguous(l) /\ FirstLog(l).index = f
  <1>1. Len(l) \in Nat \ {0} /\ DOMAIN l = 1 .. Len(l)
    BY LogBasics
  <1>2. l[1].index = f
    BY <1>1
  <1> QED
    BY <1>1, <1>2 DEF Contiguous, FirstLog

\* A suffix of a log that keeps at least one entry is again a log.
LEMMA SuffixShape ==
  ASSUME NEW l \in Log, Contiguous(l), Sorted(l), NEW i \in 1 .. Len(l),
         NEW r, r = Suffix(l, i)
  PROVE  /\ r \in Log
         /\ Contiguous(r)
         /\ Sorted(r)
         /\ LastLog(r) = LastLog(l)
         /\ FirstLog(r) = l[i]
  <1>0. Len(l) \in Nat \ {0} /\ i \in Nat /\ DOMAIN l = 1 .. Len(l)
    BY LogBasics
  <1>1. /\ r \in Seq(Entry)
        /\ Len(r) = Len(l) - i + 1
        /\ \A k \in 1 .. Len(l) - i + 1 : r[k] = l[i + k - 1]
    <2>1. \A j \in i .. Len(l) : l[j] \in Entry
      BY <1>0, LogBasics
    <2>2. r = SubSeq(l, i, Len(l))
      BY DEF Suffix
    <2> QED
      BY <1>0, <2>1, <2>2, SubSeqProperties
  <1>2. r \in Log /\ DOMAIN r = 1 .. Len(l) - i + 1
    <2>1. Len(r) # 0
      BY <1>0, <1>1
    <2> QED
      BY <1>1, <2>1, EmptySeq, LenProperties DEF Log
  <1>3. \A k \in 1 .. Len(r) : i + k - 1 \in 1 .. Len(l) /\ r[k] = l[i + k - 1]
    BY <1>0, <1>1
  <1>4. Contiguous(r)
    <2>1. PICK f \in Nat : f = FirstLog(l).index
      BY ContiguousPos
    <2>2. ASSUME NEW k \in 1 .. Len(r) PROVE r[k].index = (f + i - 1) + k - 1
      <3>1. r[k].index = f + (i + k - 1) - 1
        BY <1>3, <2>1, ContiguousPos
      <3> QED
        BY <1>0, <1>1, <3>1
    <2>3. f + i - 1 \in Nat
      BY <1>0
    <2> QED
      BY <1>2, <2>2, <2>3, ContiguousIntro
  <1>5. Sorted(r)
    <2> SUFFICES ASSUME NEW j \in 1 .. Len(r), NEW k \in 1 .. Len(r), j <= k
                 PROVE  r[j].term <= r[k].term
      BY <1>1, <1>2 DEF Sorted
    <2>1. i + j - 1 <= i + k - 1
      BY <1>0
    <2>2. l[i + j - 1].term <= l[i + k - 1].term
      BY <1>0, <1>3, <2>1 DEF Sorted
    <2> QED
      BY <1>3, <2>2
  <1>6. LastLog(r) = LastLog(l) /\ FirstLog(r) = l[i]
    <2>1. Len(r) \in 1 .. Len(r) /\ 1 \in 1 .. Len(r)
      BY <1>0, <1>1
    <2>2. i + Len(r) - 1 = Len(l) /\ i + 1 - 1 = i
      BY <1>0, <1>1
    <2> QED
      BY <1>3, <2>1, <2>2 DEF LastLog, FirstLog
  <1> QED
    BY <1>2, <1>4, <1>5, <1>6

\* Start: an entry of the server's term at the next index.
LEMMA AppendShape ==
  ASSUME NEW l \in Log, Contiguous(l), Sorted(l), NEW e \in Entry,
         e.index = LastLog(l).index + 1, LastLog(l).term <= e.term,
         NEW r, r = Append(l, e)
  PROVE  /\ r \in Log
         /\ Contiguous(r)
         /\ Sorted(r)
         /\ LastLog(r) = e
         /\ FirstLog(r) = FirstLog(l)
  <1>0. Len(l) \in Nat \ {0} /\ DOMAIN l = 1 .. Len(l)
    BY LogBasics
  <1>1. /\ r \in Seq(Entry)
        /\ r # <<>>
        /\ Len(r) = Len(l) + 1
        /\ \A k \in 1 .. Len(l) : r[k] = l[k]
        /\ r[Len(l) + 1] = e
    BY AppendProperties DEF Log
  <1>2. r \in Log /\ DOMAIN r = 1 .. Len(l) + 1
    BY <1>1, LenProperties DEF Log
  <1>3. Contiguous(r)
    <2>1. FirstLog(l).index \in Nat /\ e.index = FirstLog(l).index + Len(l) - 1 + 1
      BY ContiguousPos
    <2>2. ASSUME NEW k \in 1 .. Len(r) PROVE r[k].index = FirstLog(l).index + k - 1
      <3>1. CASE k \in 1 .. Len(l)
        BY <1>1, <3>1, ContiguousPos
      <3>2. CASE k = Len(l) + 1
        BY <1>0, <1>1, <2>1, <3>2
      <3> QED
        BY <1>0, <1>1, <3>1, <3>2
    <2> QED
      BY <1>2, <2>1, <2>2, ContiguousIntro
  <1>4. \A k \in 1 .. Len(l) : l[k].term <= e.term
    BY LogBasics DEF Sorted, LastLog, Entry
  <1>5. Sorted(r)
    <2> SUFFICES ASSUME NEW j \in 1 .. Len(l) + 1, NEW k \in 1 .. Len(l) + 1, j <= k
                 PROVE  r[j].term <= r[k].term
      BY <1>2 DEF Sorted
    <2>1. CASE k \in 1 .. Len(l)
      BY <1>0, <1>1, <2>1 DEF Sorted
    <2>2. CASE k = Len(l) + 1 /\ j \in 1 .. Len(l)
      BY <1>1, <1>4, <2>2
    <2>3. CASE k = Len(l) + 1 /\ j = Len(l) + 1
      BY <1>1, <2>3 DEF Entry
    <2> QED
      BY <1>0, <2>1, <2>2, <2>3
  <1>6. LastLog(r) = e /\ FirstLog(r) = FirstLog(l)
    BY <1>0, <1>1 DEF LastLog, FirstLog
  <1> QED
    BY <1>2, <1>3, <1>5, <1>6

-----------------------------------------------------------------------------
(* The log after AppendEntries.                                            *)

\* A prefix of l and a suffix of e that starts at the next index make a log.
LEMMA SpliceShape ==
  ASSUME NEW l \in Log, Contiguous(l), Sorted(l),
         NEW e \in Log, Contiguous(e), Sorted(e),
         NEW k \in 1 .. Len(e), NEW n \in 0 .. Len(l),
         e[k].index = FirstLog(l).index + n,
         \A j \in 1 .. n : l[j].term <= e[k].term,
         NEW r, r = Splice(l, n, e, k)
  PROVE  /\ r \in Log
         /\ Contiguous(r)
         /\ Sorted(r)
         /\ LastLog(r) = LastLog(e)
         /\ FirstLog(r).index = FirstLog(l).index
  <1> DEFINE a == SubSeq(l, 1, n)
             b == Suffix(e, k)
  <1>0. /\ Len(l) \in Nat \ {0} /\ DOMAIN l = 1 .. Len(l) /\ n \in Nat
        /\ Len(e) \in Nat \ {0} /\ DOMAIN e = 1 .. Len(e) /\ k \in Nat
        /\ FirstLog(l).index \in Nat
    BY LogBasics, ContiguousPos
  <1>1. a \in Seq(Entry) /\ Len(a) = n /\ \A j \in 1 .. n : a[j] = l[j]
    <2>1. \A j \in 1 .. n : l[j] \in Entry
      BY <1>0, LogBasics
    <2>2. /\ a \in Seq(Entry)
          /\ Len(a) = IF 1 <= n THEN n - 1 + 1 ELSE 0
          /\ \A j \in 1 .. n - 1 + 1 : a[j] = l[1 + j - 1]
      BY <1>0, <2>1, SubSeqProperties
    <2> QED
      BY <1>0, <2>2
  <1>2. /\ b \in Log /\ Contiguous(b) /\ Sorted(b)
        /\ LastLog(b) = LastLog(e) /\ FirstLog(b) = e[k]
    BY SuffixShape
  <1>3. b \in Seq(Entry) /\ Len(b) \in Nat \ {0} /\ DOMAIN b = 1 .. Len(b)
    BY <1>2, LogBasics DEF Log
  <1> HIDE DEF a, b
  <1>4. /\ r \in Seq(Entry)
        /\ Len(r) = n + Len(b)
        /\ \A j \in 1 .. n + Len(b) : r[j] = IF j <= n THEN a[j] ELSE b[j - n]
    <2>1. r = a \o b
      BY DEF a, b, Splice
    <2> QED
      <3>1. /\ a \o b \in Seq(Entry)
            /\ Len(a \o b) = Len(a) + Len(b)
            /\ \A j \in 1 .. Len(a) + Len(b) :
                  (a \o b)[j] = IF j <= Len(a) THEN a[j] ELSE b[j - Len(a)]
        BY <1>1, <1>3, ConcatProperties
      <3> QED
        BY <1>1, <2>1, <3>1
  <1>5. r \in Log /\ DOMAIN r = 1 .. n + Len(b)
    <2>1. Len(r) # 0
      BY <1>0, <1>3, <1>4
    <2> QED
      BY <1>4, <2>1, EmptySeq, LenProperties DEF Log
  <1>6. \A j \in 1 .. n : r[j] = l[j]
    BY <1>0, <1>1, <1>3, <1>4
  <1>7. \A j \in n + 1 .. n + Len(b) : j - n \in 1 .. Len(b) /\ r[j] = b[j - n]
    <2> SUFFICES ASSUME NEW j \in n + 1 .. n + Len(b)
                 PROVE  j - n \in 1 .. Len(b) /\ r[j] = b[j - n]
      OBVIOUS
    <2>1. j \in 1 .. n + Len(b) /\ ~(j <= n) /\ j - n \in 1 .. Len(b)
      BY <1>0, <1>3
    <2> QED
      BY <1>4, <2>1
  <1>8. Contiguous(r) /\ FirstLog(r).index = FirstLog(l).index
    <2>0. PICK f \in Nat : f = FirstLog(l).index
      BY ContiguousPos
    <2>1. ASSUME NEW j \in 1 .. Len(r) PROVE r[j].index = f + j - 1
      <3>1. CASE j \in 1 .. n
        <4>1. j \in 1 .. Len(l)
          BY <1>0, <3>1
        <4> QED
          BY <1>6, <2>0, <3>1, <4>1, ContiguousPos
      <3>2. CASE j \in n + 1 .. n + Len(b)
        <4>1. PICK i \in 1 .. Len(b) : i = j - n /\ r[j] = b[i]
          BY <1>7, <3>2
        <4>2. r[j].index = FirstLog(b).index + i - 1
          BY <1>2, <4>1, ContiguousPos
        <4>3. FirstLog(b).index = f + n
          BY <1>2, <2>0
        <4> QED
          BY <1>0, <1>3, <1>4, <4>1, <4>2, <4>3
      <3> QED
        BY <1>0, <1>3, <1>4, <3>1, <3>2
    <2> QED
      BY <1>5, <2>0, <2>1, ContiguousIntro
  <1>9. Sorted(r)
    <2> SUFFICES ASSUME NEW i \in 1 .. n + Len(b), NEW j \in 1 .. n + Len(b), i <= j
                 PROVE  r[i].term <= r[j].term
      BY <1>5 DEF Sorted
    <2>1. CASE j \in 1 .. n
      <3>1. i \in 1 .. n /\ i \in 1 .. Len(l) /\ j \in 1 .. Len(l)
        BY <1>0, <2>1
      <3> QED
        BY <1>0, <1>6, <2>1, <3>1 DEF Sorted
    <2>2. CASE i \in n + 1 .. n + Len(b)
      <3>1. j \in n + 1 .. n + Len(b) /\ i - n <= j - n
        BY <1>0, <1>3, <2>2
      <3> QED
        BY <1>2, <1>3, <1>7, <2>2, <3>1 DEF Sorted
    <2>3. CASE i \in 1 .. n /\ j \in n + 1 .. n + Len(b)
      <3>1. l[i].term <= e[k].term /\ r[i] = l[i] /\ l[i].term \in Nat
        BY <1>0, <1>6, <2>3, LogBasics
      <3>2. PICK m \in 1 .. Len(b) : m = j - n /\ r[j] = b[m]
        BY <1>7, <2>3
      <3>3. b[1].term <= b[m].term /\ b[m].term \in Nat
        <4>1. 1 \in DOMAIN b /\ m \in DOMAIN b /\ 1 <= m
          BY <1>3
        <4> QED
          BY <1>2, <4>1, LogBasics DEF Sorted
      <3>4. b[1] = e[k] /\ e[k].term \in Nat
        BY <1>2, LogBasics DEF FirstLog
      <3>5. \A x, y, z \in Nat : x <= y /\ y <= z => x <= z
        OBVIOUS
      <3> QED
        BY <3>1, <3>2, <3>3, <3>4, <3>5
    <2>4. \/ j \in 1 .. n
          \/ i \in n + 1 .. n + Len(b)
          \/ i \in 1 .. n /\ j \in n + 1 .. n + Len(b)
      BY <1>0, <1>3
    <2> QED
      BY <2>1, <2>2, <2>3, <2>4
  <1>10. LastLog(r) = LastLog(e)
    <2>1. Len(r) \in n + 1 .. n + Len(b) /\ Len(r) - n = Len(b)
      BY <1>0, <1>3, <1>4
    <2>2. r[Len(r)] = b[Len(b)]
      BY <1>7, <2>1
    <2> QED
      BY <1>2, <2>2 DEF LastLog
  <1> QED
    BY <1>5, <1>8, <1>9, <1>10

\* Where Merge cuts: the log holds everything before entry k of the request,
\* and nothing there is of a later term.
LEMMA MergePoint ==
  ASSUME NEW l \in Log, Contiguous(l), Sorted(l),
         NEW e \in Log, Contiguous(e), Sorted(e),
         NEW prev \in Nat, NEW prevTerm \in Nat,
         \A i \in DOMAIN e : e[i].index <= prev + i /\ prevTerm <= e[i].term,
         IsLogMatched(l, prevTerm, prev),
         NEW k \in 1 .. Len(e), Differs(l, e[k]),
         \A i \in 1 .. k - 1 : ~Differs(l, e[i]),
         NEW n, n = Pos(l, e[k].index) - 1
  PROVE  /\ n \in 0 .. Len(l)
         /\ e[k].index = FirstLog(l).index + n
         /\ \A j \in 1 .. n : l[j].term <= e[k].term
  <1>0. /\ Len(l) \in Nat \ {0} /\ DOMAIN l = 1 .. Len(l)
        /\ Len(e) \in Nat \ {0} /\ DOMAIN e = 1 .. Len(e) /\ k \in Nat \ {0}
    BY LogBasics
  <1>1. PICK f \in Nat : f = FirstLog(l).index
    BY ContiguousPos
  <1>2. PICK x \in Nat, t \in Nat : x = e[k].index /\ t = e[k].term
    BY LogBasics
  <1>3. LastLog(l).index = f + Len(l) - 1
    BY <1>1, ContiguousPos
  <1>4. x >= f /\ n = x - f /\ n \in Nat
    <2>1. e[k].index >= FirstLog(l).index
      BY DEF Differs
    <2>2. n = (e[k].index - FirstLog(l).index + 1) - 1
      BY DEF Pos
    <2> QED
      BY <1>1, <1>2, <2>1, <2>2
  <1>5. \A i, j \in 1 .. Len(l) : i <= j => l[i].term <= l[j].term
    BY <1>0 DEF Sorted
  <1>6. \A i \in 1 .. Len(l) : l[i].term \in Nat
    BY LogBasics
  <1>7. CASE k = 1
    <2>1. x <= prev + 1 /\ prevTerm <= t
      BY <1>0, <1>2, <1>7
    <2>2. CASE prev < f
      BY <1>0, <1>1, <1>2, <1>4, <2>1, <2>2
    <2>3. CASE ~(prev < f)
      <3>1. prev \in f .. f + Len(l) - 1 /\ l[Pos(l, prev)].term = prevTerm
        BY <1>1, <1>3, <2>3 DEF IsLogMatched
      <3>2. PICK p \in 1 .. Len(l) : p = prev - f + 1 /\ l[p].term = prevTerm
        <4>1. Pos(l, prev) = prev - f + 1
          BY <1>1 DEF Pos
        <4>2. prev - f + 1 \in 1 .. Len(l)
          BY <1>0, <3>1
        <4> QED
          BY <3>1, <4>1, <4>2
      <3>3. n <= p /\ n \in 0 .. Len(l)
        BY <1>0, <1>4, <2>1, <3>2
      <3>4. ASSUME NEW j \in 1 .. n PROVE l[j].term <= t
        <4>1. j \in 1 .. Len(l) /\ j <= p
          BY <1>0, <1>4, <3>3
        <4>2. l[j].term <= prevTerm /\ l[j].term \in Nat
          BY <1>5, <1>6, <3>2, <4>1
        <4> QED
          BY <2>1, <4>2
      <3> QED
        BY <1>1, <1>2, <1>4, <3>3, <3>4
    <2> QED
      BY <2>2, <2>3
  <1>8. CASE k # 1
    <2>1. PICK h \in 1 .. Len(e) : h = k - 1 /\ h \in 1 .. k - 1
      BY <1>0, <1>8
    <2>2. PICK y \in Nat, u \in Nat : y = e[h].index /\ u = e[h].term
      BY LogBasics
    <2>3. x = y + 1
      <3>1. PICK g \in Nat : /\ e[k].index = g + k - 1
                             /\ e[h].index = g + h - 1
        BY ContiguousPos
      <3> QED
        <4>1. x = g + k - 1 /\ y = g + h - 1
          BY ONLY <1>2, <2>2, <3>1
        <4>2. h = k - 1 /\ k \in Nat /\ g \in Nat
          BY ONLY <1>0, <2>1, <3>1
        <4> QED
          BY ONLY <4>1, <4>2
    <2>4. u <= t
      <3>1. h \in DOMAIN e /\ k \in DOMAIN e /\ h <= k
        BY <1>0, <2>1
      <3>2. e[h].term <= e[k].term
        BY <3>1 DEF Sorted
      <3> QED
        BY <1>2, <2>2, <3>2
    <2>5. ~Differs(l, e[h])
      BY <2>1
    <2>6. CASE y < f
      BY <1>0, <1>1, <1>2, <1>4, <2>3, <2>6
    <2>7. CASE ~(y < f)
      <3>1. PICK p \in Int : p = y - f + 1 /\ p = Pos(l, e[h].index)
        BY <1>1, <2>2 DEF Pos
      <3>2. p <= Len(l) /\ l[p].term = u
        <4>1. e[h].index >= FirstLog(l).index
          BY <1>1, <2>2, <2>7
        <4>2. ~(Pos(l, e[h].index) > Len(l)) /\ l[Pos(l, e[h].index)].term = e[h].term
          BY <2>5, <4>1 DEF Differs
        <4> QED
          BY <1>0, <2>2, <3>1, <4>2
      <3>3. n = p /\ p \in 1 .. Len(l)
        <4>1. n = x - f /\ x = y + 1 /\ ~(y < f) /\ p = y - f + 1 /\ p <= Len(l)
          BY ONLY <1>4, <2>3, <2>7, <3>1, <3>2
        <4>2. x \in Nat /\ y \in Nat /\ f \in Nat /\ Len(l) \in Nat
          BY ONLY <1>0, <1>1, <1>2, <2>2
        <4> QED
          BY ONLY <4>1, <4>2
      <3>4. ASSUME NEW j \in 1 .. n PROVE l[j].term <= t
        <4>1. j \in 1 .. Len(l) /\ j <= p
          BY <1>0, <3>3
        <4>2. l[j].term <= u /\ l[j].term \in Nat
          BY <1>5, <1>6, <3>2, <3>3, <4>1
        <4> QED
          BY <2>4, <4>2
      <3> QED
        BY <1>0, <1>1, <1>2, <1>4, <3>3, <3>4
    <2> QED
      BY <2>6, <2>7
  <1> QED
    BY <1>7, <1>8

\* AppendEntries leaves a log that starts where it did and has the shape again.
LEMMA MergeShape ==
  ASSUME NEW l \in Log, Contiguous(l), Sorted(l),
         NEW e \in Seq(Entry), Contiguous(e), Sorted(e),
         NEW prev \in Nat, NEW prevTerm \in Nat, NEW term \in Nat,
         \A i \in DOMAIN e : e[i].index <= prev + i /\ e[i].term \in prevTerm .. term,
         LastLog(l).term <= term,
         IsLogMatched(l, prevTerm, prev),
         NEW r, r = Merge(l, e)
  PROVE  /\ r \in Log
         /\ Contiguous(r)
         /\ Sorted(r)
         /\ LastLog(r).term <= term
         /\ FirstLog(r).index = FirstLog(l).index
  <1> DEFINE diff == {k \in DOMAIN e : Differs(l, e[k])}
  <1>1. CASE diff = {}
    <2>1. r = l
      BY <1>1 DEF Merge
    <2> QED
      BY <2>1
  <1>2. CASE diff # {}
    <2>1. DOMAIN e = 1 .. Len(e) /\ Len(e) \in Nat
      BY LenProperties
    <2>2. e \in Log
      BY <1>2, <2>1 DEF Log
    <2>3. diff \in SUBSET Nat
      BY <2>1
    <2>4. PICK k \in Nat : k = Min(diff) /\ k \in diff /\ \A i \in diff : k <= i
      BY <1>2, <2>3, MinNat
    <2>5. k \in 1 .. Len(e) /\ Differs(l, e[k])
      BY <2>1, <2>4
    <2>6. ASSUME NEW i \in 1 .. k - 1 PROVE ~Differs(l, e[i])
      <3>1. i \in DOMAIN e /\ ~(k <= i)
        BY <2>1, <2>5
      <3> QED
        BY <2>4, <3>1
    <2> DEFINE n == Pos(l, e[k].index) - 1
    <2>7. r = Splice(l, n, e, k)
      BY <1>2, <2>4 DEF Merge
    <2>8. \A i \in DOMAIN e : e[i].index <= prev + i /\ prevTerm <= e[i].term
      BY <2>1, <2>2, LogBasics
    <2>9. /\ n \in 0 .. Len(l)
          /\ e[k].index = FirstLog(l).index + n
          /\ \A j \in 1 .. n : l[j].term <= e[k].term
      BY <2>2, <2>5, <2>6, <2>8, MergePoint
    <2> HIDE DEF n, diff
    <2>10. /\ r \in Log
           /\ Contiguous(r)
           /\ Sorted(r)
           /\ LastLog(r) = LastLog(e)
           /\ FirstLog(r).index = FirstLog(l).index
      BY <2>2, <2>5, <2>7, <2>9, SpliceShape
    <2>11. LastLog(e).term <= term
      BY <2>1, <2>2, LogBasics DEF LastLog
    <2> QED
      BY <2>10, <2>11
  <1> QED
    BY <1>1, <1>2

-----------------------------------------------------------------------------
(* The other operators of the handlers.                                    *)

\* InstallSnapshot leaves a log that starts at the snapshot's last index.
LEMMA AfterSnapshotShape ==
  ASSUME NEW l \in Log, Contiguous(l), Sorted(l),
         NEW index \in Nat, NEW lastTerm \in Nat, NEW term \in Nat,
         lastTerm <= term, LastLog(l).term <= term, index > FirstLog(l).index,
         NEW r, r = AfterSnapshot(l, index, lastTerm)
  PROVE  /\ r \in Log
         /\ Contiguous(r)
         /\ Sorted(r)
         /\ LastLog(r).term <= term
         /\ FirstLog(r).index = index
  <1>1. CASE index <= LastLog(l).index /\ l[Pos(l, index)].term = lastTerm
    <2>1. r = Suffix(l, Pos(l, index))
      BY <1>1 DEF AfterSnapshot
    <2>2. FirstLog(l).index \in Nat /\ LastLog(l).index \in Nat
      BY ContiguousPos
    <2>3. index \in FirstLog(l).index .. LastLog(l).index
      BY <1>1, <2>2
    <2>4. Pos(l, index) \in 1 .. Len(l) /\ l[Pos(l, index)].index = index
      BY <2>3, ContiguousPos
    <2> QED
      BY <2>1, <2>4, SuffixShape
  <1>2. CASE ~(index <= LastLog(l).index /\ l[Pos(l, index)].term = lastTerm)
    <2> DEFINE x == [term |-> lastTerm, cmd |-> None, index |-> index]
    <2>1. r = <<x>> /\ x \in Entry
      BY <1>2 DEF AfterSnapshot, Entry
    <2>2. r \in Log /\ Len(r) = 1 /\ r[1] = x
      BY <2>1 DEF Log
    <2>3. x.index = index /\ x.term = lastTerm
      OBVIOUS
    <2>4. DOMAIN r = {1}
      BY <2>1
    <2> HIDE DEF x
    <2>5. Contiguous(r) /\ Sorted(r)
      BY <2>2, <2>3, <2>4 DEF Contiguous, Sorted
    <2> QED
      BY <2>2, <2>3, <2>5 DEF LastLog, FirstLog
  <1> QED
    BY <1>1, <1>2

\* What a leader sends continues its log after prev.
LEMMA SentShape ==
  ASSUME NEW l \in Log, Contiguous(l), Sorted(l),
         NEW prev \in Nat, prev >= FirstLog(l).index,
         NEW at, at = PrevPos(l, prev),
         NEW e, e = Suffix(l, at + 1)
  PROVE  /\ at \in 1 .. Len(l)
         /\ e \in Seq(Entry)
         /\ Contiguous(e)
         /\ Sorted(e)
         /\ \A k \in DOMAIN e : /\ e[k].index <= prev + k
                                /\ l[at].term <= e[k].term
                                /\ e[k].term <= LastLog(l).term
  <1>0. Len(l) \in Nat \ {0} /\ DOMAIN l = 1 .. Len(l)
    BY LogBasics
  <1>1. PICK f \in Nat : f = FirstLog(l).index
    BY ContiguousPos
  <1>2. at \in 1 .. Len(l) /\ l[at].index <= prev
    <2> DEFINE found == {i \in DOMAIN l : l[i].index = prev}
    <2>1. CASE found = {}
      <3>1. at = 1
        BY <2>1 DEF PrevPos
      <3> QED
        BY <1>0, <3>1 DEF FirstLog
    <2>2. CASE found # {}
      <3>1. at = Max(found)
        BY <2>2 DEF PrevPos
      <3>2. found \in SUBSET (0 .. Len(l))
        BY <1>0
      <3>3. at \in found
        BY <1>0, <2>2, <3>1, <3>2, MaxNat
      <3> QED
        BY <1>0, <3>3
    <2> QED
      BY <2>1, <2>2
  <1>3. CASE at = Len(l)
    <2>1. e = <<>>
      BY <1>0, <1>3 DEF Suffix
    <2>2. e \in Seq(Entry) /\ Len(e) = 0
      BY <2>1, EmptySeq
    <2>3. DOMAIN e = {}
      BY <2>2, LenProperties
    <2> QED
      BY <1>2, <2>2, <2>3 DEF Contiguous, Sorted
  <1>4. CASE at # Len(l)
    <2>1. PICK i \in 1 .. Len(l) : i = at + 1
      BY <1>0, <1>2, <1>4
    <2>2. /\ e \in Log /\ Contiguous(e) /\ Sorted(e)
          /\ LastLog(e) = LastLog(l) /\ FirstLog(e) = l[i]
      BY <2>1, SuffixShape
    <2>3. e \in Seq(Entry) /\ Len(e) \in Nat \ {0} /\ DOMAIN e = 1 .. Len(e)
      BY <2>2, LogBasics DEF Log
    <2>4. PICK x \in Nat, y \in Nat : x = l[at].index /\ y = l[i].index
      BY <1>2, LogBasics
    <2>5. y = x + 1 /\ x <= prev
      <3>1. x = f + at - 1 /\ y = f + i - 1
        BY <1>1, <1>2, <2>4, ContiguousPos
      <3> QED
        <4>1. at \in Nat /\ i \in Nat /\ x <= prev
          BY <1>2, <2>4
        <4> QED
          <5>1. \A j, q, u, v \in Nat : u = q + j - 1 /\ v = q + (j + 1) - 1 => v = u + 1
            OBVIOUS
          <5> QED
            BY <2>1, <3>1, <4>1, <5>1
    <2>6. ASSUME NEW k \in 1 .. Len(e)
          PROVE  /\ e[k].index <= prev + k
                 /\ l[at].term <= e[k].term
                 /\ e[k].term <= LastLog(l).term
      <3>1. e[k].index = y + k - 1
        <4>1. e[k].index = FirstLog(e).index + k - 1
          BY <2>2, ContiguousPos
        <4> QED
          BY <2>2, <2>4, <4>1
      <3>2. e[k].index <= prev + k
        BY <2>3, <2>5, <3>1
      <3>3. e[1].term <= e[k].term /\ e[k].term <= e[Len(e)].term
        BY <2>2, <2>3 DEF Sorted
      <3>4. l[at].term <= l[i].term
        BY <1>0, <1>2, <2>1 DEF Sorted
      <3>5. PICK a \in Nat, b \in Nat, c \in Nat :
                a = l[at].term /\ b = l[i].term /\ c = e[k].term
        BY <1>2, <2>2, LogBasics
      <3>6. a <= b /\ b <= c
        BY <2>2, <3>3, <3>4, <3>5 DEF FirstLog
      <3> QED
        <4>1. e[k].term <= LastLog(l).term
          BY <2>2, <3>3 DEF LastLog
        <4>2. a <= c
          BY <3>6
        <4> QED
          BY <3>2, <3>5, <4>1, <4>2
    <2> QED
      BY <1>2, <2>2, <2>3, <2>6
  <1> QED
    BY <1>3, <1>4

\* A follower that refuses entries reports a conflict of the right form.
LEMMA ConflictType ==
  ASSUME NEW l \in Log, Contiguous(l),
         NEW prev \in Nat, NEW prevTerm, ~IsLogMatched(l, prevTerm, prev)
  PROVE  Conflict(l, prev) \in ConflictReport
  <1>1. PICK f \in Nat, x \in Nat : f = FirstLog(l).index /\ x = LastLog(l).index
    BY ContiguousPos
  <1>2. CASE prev > x
    BY <1>1, <1>2 DEF Conflict, ConflictReport
  <1>3. CASE ~(prev > x)
    <2>1. prev \in f .. x
      BY <1>1, <1>3 DEF IsLogMatched
    <2>2. Pos(l, prev) \in 1 .. Len(l)
      BY <1>1, <2>1, ContiguousPos
    <2> DEFINE t == l[Pos(l, prev)].term
               run == {i \in f .. prev : \A j \in i .. prev : l[Pos(l, j)].term = t}
    <2>3. t \in Nat
      BY <2>2, LogBasics
    <2>4. run \in SUBSET Nat
      OBVIOUS
    <2>5. prev \in run
      <3>1. prev \in f .. prev /\ \A j \in prev .. prev : j = prev
        BY <2>1
      <3> QED
        BY <3>1
    <2>6. Min(run) \in Nat
      BY <2>4, <2>5, MinNat
    <2>7. Conflict(l, prev) = [xterm |-> t, xindex |-> Min(run), xlen |-> 0]
      BY <1>1, <1>3 DEF Conflict
    <2> HIDE DEF t, run
    <2> QED
      BY <2>3, <2>6, <2>7 DEF ConflictReport
  <1> QED
    BY <1>2, <1>3

\* Where the leader's back-off does not panic it yields an index.
LEMMA BackoffType ==
  ASSUME NEW l \in Log, NEW c \in ConflictReport, ~BackoffPanics(l, c)
  PROVE  BackoffIndex(l, c) \in Nat
  <1>0. Len(l) \in Nat \ {0} /\ DOMAIN l = 1 .. Len(l)
    BY LogBasics
  <1>1. c.xterm \in Nat \cup {-1} /\ c.xindex \in Nat /\ c.xlen \in Nat
    BY DEF ConflictReport
  <1>2. CASE c.xterm = -1
    BY <1>1, <1>2 DEF BackoffIndex
  <1>3. CASE c.xterm # -1 /\ ~HasTerm(l, c.xterm)
    BY <1>1, <1>3 DEF BackoffIndex
  <1>4. CASE c.xterm # -1 /\ HasTerm(l, c.xterm)
    <2> DEFINE i == SearchAbove(l, c.xterm)
               above == {k \in DOMAIN l : l[k].term > c.xterm}
    <2>1. ~(i > Len(l)) /\ i > 1
      BY <1>4 DEF BackoffPanics, HasTerm
    <2>2. i \in Nat
      <3>1. CASE above = {}
        BY <1>0, <3>1 DEF SearchAbove
      <3>2. CASE above # {}
        <4>1. above \in SUBSET Nat
          BY <1>0
        <4>2. Min(above) \in above
          BY <3>2, <4>1, MinNat
        <4> QED
          BY <3>2, <4>1, <4>2 DEF SearchAbove
      <3> QED
        BY <3>1, <3>2
    <2>3. i \in 1 .. Len(l)
      BY <1>0, <2>1, <2>2
    <2>4. l[i].index \in Nat
      BY <2>3, LogBasics
    <2> QED
      BY <1>4, <2>4 DEF BackoffIndex
  <1> QED
    BY <1>2, <1>3, <1>4

=============================================================================
