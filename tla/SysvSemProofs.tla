---------------------------- MODULE SysvSemProofs ---------------------------
(***************************************************************************)
(* Proofs about System V semaphores, for every number of processes, arrays *)
(* and semaphores, every size of the table and all the sequences of        *)
(* operations semop may be given.                                          *)
(*                                                                         *)
(* The invariant Inv has a part about the table, one about each array and  *)
(* one about each process. That an array is Sound (typed, balanced, no     *)
(* process queued twice) is kept by every operation on an array: one       *)
(* operation applied, the course of a sequence of them, a turn of          *)
(* update_queue and the walk made of such turns. What ties the parts       *)
(* together is kept by every step: a process is queued where it waits and  *)
(* its identifier still names that array, a process has an undo structure  *)
(* for exactly the arrays that list it, and what it will look at when it   *)
(* has the lock again is still good or recognisably stale. One lemma for   *)
(* each action says so; the theorems at the end follow from the invariant. *)
(***************************************************************************)
EXTENDS SysvSem, FiniteSetTheorems, FunctionTheorems, SequenceTheorems, WellFoundedInduction, TLAPS

Slots == 0 .. IPCMNI - 1
PCs == {"idle", "alloc", "sleep", "setall", "exit", "adjust"}

\* A table of IPCMNI slots. Nothing here depends on in_use and max_id.
Table(tab) ==
    \E n, x : tab \in [size : {IPCMNI}, in_use : {n}, max_id : {x}, seq : 0 .. SeqMax,
                       entries : [Slots -> Perms \cup {NULL}]]

\* An array whose semaphores have values in V.
ArraysOf(V) ==
    [semval : [Sems -> V], sempid : [Sems -> PidPair], pending : Seq(Procs),
     undo : SUBSET Procs, semadj : [Procs -> [Sems -> ShortRange]],
     base : [Sems -> 0 .. ShortCount - 1], mixed : BOOLEAN]

\* Only processes with an undo structure have something to undo, and undoing all
\* of it gives the history value.
AdjOwned(a) == \A p \in Procs \ a.undo : \A i \in Sems : a.semadj[p][i] = 0
BalancedAt(a, i) ==
    (a.semval[i] + Cardinality(UndoUnits(a, i)) - a.base[i]) % ShortCount = 0
Kept(a) == AdjOwned(a) /\ \A i \in Sems : BalancedAt(a, i)

(***************************************************************************)
(* Loops over a sequence.                                                  *)
(***************************************************************************)
\* A set of numbers that is not empty has a least element.
LEMMA LeastNumber ==
    ASSUME NEW S \in SUBSET Nat, S # {}
    PROVE  \E x \in S : \A y \in S : x <= y
<1>1. PICK x \in S : \A y \in S : ~ (<<y, x>> \in OpToRel(<, Nat))
    BY NatLessThanWellFounded, WFMin, S \subseteq Nat, Zenon
<1>2. \A y \in S : ~ (y < x)
    BY <1>1 DEF OpToRel
<1>3. QED
    BY <1>2

\* A loop of n turns, given by what each turn makes of a value, has a course.
Loop(A, a, n, turn) == a \in A /\ n \in Nat /\ turn \in [1 .. n -> [A -> A]]
CourseOf(A, a, n, turn, f) ==
    /\ f \in [0 .. n -> A] /\ f[0] = a
    /\ \A i \in 1 .. n : f[i] = turn[i][f[i - 1]]

\* A loop over 1 .. n is a function that satisfies its recursion equation.
LEMMA Iterate ==
    ASSUME NEW A, NEW a, NEW n, NEW turn, Loop(A, a, n, turn)
    PROVE  \E f : CourseOf(A, a, n, turn, f)
<1> USE DEF CourseOf, Loop
<1> DEFINE Run(m, f) == f \in [0 .. m -> A] /\ f[0] = a
                           /\ \A i \in 1 .. m : f[i] = turn[i][f[i - 1]]
           Bad == {m \in 0 .. n : ~ \E f : Run(m, f)}
<1>1. SUFFICES ASSUME Bad # {} PROVE FALSE
    <2>1. n \in 0 .. n
        OBVIOUS
    <2>2. \E f : Run(n, f)
        BY <1>1, <2>1
    <2>3. QED
        BY <2>2
<1>2. PICK m \in Bad : \A y \in Bad : m <= y
    <2>1. Bad \in SUBSET Nat
        OBVIOUS
    <2>2. QED
        BY <1>1, <2>1, LeastNumber
<1>3. m \in 0 .. n /\ ~ \E f : Run(m, f)
    BY <1>2
<1>4. m # 0
    <2>1. PICK g : g = [i \in 0 .. 0 |-> a]
        OBVIOUS
    <2>2. Run(0, g)
        BY <2>1
    <2>3. QED
        BY <1>3, <2>2
<1>5. PICK f : Run(m - 1, f)
    <2>1. m - 1 \in 0 .. n /\ ~ (m <= m - 1)
        BY <1>3, <1>4
    <2>2. m - 1 \notin Bad
        BY <1>2, <2>1
    <2>3. QED
        BY <2>1, <2>2
<1>6. PICK g : g = [i \in 0 .. m |-> IF i = m THEN turn[m][f[m - 1]] ELSE f[i]]
    OBVIOUS
<1>7. Run(m, g)
    <2>1. m \in 1 .. n /\ m - 1 \in 0 .. m - 1 /\ 0 \in 0 .. m - 1
        BY <1>3, <1>4
    <2>2. f[m - 1] \in A /\ turn[m] \in [A -> A] /\ turn[m][f[m - 1]] \in A
        BY <2>1, <1>5
    <2>3. g \in [0 .. m -> A]
        BY <2>1, <2>2, <1>3, <1>5, <1>6
    <2>4. g[0] = a
        BY <2>1, <1>5, <1>6, <1>4
    <2>5. ASSUME NEW i \in 1 .. m PROVE g[i] = turn[i][g[i - 1]]
        <3>1. i - 1 \in 0 .. m - 1 /\ i - 1 \in 0 .. m /\ i - 1 # m /\ i \in 0 .. m
            BY <2>1, SMT
        <3>2. g[i - 1] = f[i - 1]
            BY <3>1, <1>6
        <3>3. CASE i = m
            BY <3>1, <3>2, <3>3, <1>6
        <3>4. CASE i # m
            <4>1. i \in 1 .. m - 1
                BY <3>4, <2>1, SMT
            <4>2. g[i] = f[i] /\ f[i] = turn[i][f[i - 1]]
                BY <4>1, <3>1, <3>4, <1>5, <1>6
            <4>3. QED
                BY <4>2, <3>2
        <3>5. QED
            BY <3>3, <3>4
    <2>6. QED
        BY <2>3, <2>4, <2>5
<1>8. QED
    BY <1>3, <1>7
\* RemoveAt takes one element out of a sequence.
LEMMA RemoveElems ==
    ASSUME NEW T, NEW s \in Seq(T), NEW pos \in 1 .. Len(s)
    PROVE  /\ RemoveAt(s, pos) \in Seq(T) /\ Len(RemoveAt(s, pos)) = Len(s) - 1
           /\ DOMAIN RemoveAt(s, pos) = 1 .. Len(s) - 1
           /\ \A i \in 1 .. Len(s) - 1 :
                 RemoveAt(s, pos)[i] = IF i < pos THEN s[i] ELSE s[i + 1]
<1> DEFINE a == SubSeq(s, 1, pos - 1)
           b == SubSeq(s, pos + 1, Len(s))
<1>0. Len(s) \in Nat /\ pos \in Nat /\ pos <= Len(s) /\ pos >= 1
    OBVIOUS
<1>1. a \in Seq(T) /\ Len(a) = pos - 1 /\ \A i \in 1 .. pos - 1 : a[i] = s[i]
    BY <1>0
<1>2. b \in Seq(T) /\ Len(b) = Len(s) - pos /\ \A i \in 1 .. Len(s) - pos : b[i] = s[i + pos]
    BY <1>0
<1> HIDE DEF a, b
<1>3. PICK r : r = a \o b
    OBVIOUS
<1>4. /\ r \in Seq(T) /\ Len(r) = Len(s) - 1
      /\ \A i \in 1 .. Len(s) - 1 : r[i] = IF i <= pos - 1 THEN a[i] ELSE b[i - (pos - 1)]
    <2>1. /\ r \in Seq(T) /\ Len(r) = Len(a) + Len(b)
          /\ \A i \in 1 .. Len(a) + Len(b) : r[i] = IF i <= Len(a) THEN a[i] ELSE b[i - Len(a)]
        BY <1>1, <1>2, <1>3, ConcatProperties
    <2>2. Len(a) + Len(b) = Len(s) - 1 /\ Len(a) = pos - 1
        BY <1>0, <1>1, <1>2
    <2>3. QED
        BY <2>1, <2>2
<1>5. ASSUME NEW i \in 1 .. Len(s) - 1 PROVE r[i] = IF i < pos THEN s[i] ELSE s[i + 1]
    <2>1. CASE i < pos
        <3>1. i \in 1 .. pos - 1 /\ i <= pos - 1
            BY <2>1, <1>0
        <3>2. r[i] = a[i]
            BY <3>1, <1>4
        <3>3. a[i] = s[i]
            BY <3>1, <1>1
        <3>4. QED
            BY <2>1, <3>2, <3>3
    <2>2. CASE ~(i < pos)
        <3>1. i - (pos - 1) \in 1 .. Len(s) - pos /\ ~(i <= pos - 1)
              /\ i - (pos - 1) + pos = i + 1
            BY <2>2, <1>0
        <3>2. r[i] = b[i - (pos - 1)]
            BY <3>1, <1>4
        <3>3. b[i - (pos - 1)] = s[i + 1]
            BY <3>1, <1>2
        <3>4. QED
            BY <2>2, <3>2, <3>3
    <2>3. QED
        BY <2>1, <2>2
<1>6. DOMAIN r = 1 .. Len(s) - 1
    BY <1>4
<1>7. r = RemoveAt(s, pos)
    BY <1>3 DEF RemoveAt, a, b
<1>8. QED
    BY <1>4, <1>5, <1>6, <1>7

(***************************************************************************)
(* The pending queue.                                                      *)
(***************************************************************************)
NoRepeat(s) == \A i, j \in DOMAIN s : s[i] = s[j] => i = j

\* The least member of a set of numbers is in it, and below the others.
LEMMA MinProps ==
    ASSUME NEW S \in SUBSET Nat, S # {}
    PROVE  Min(S) \in S /\ \A y \in S : Min(S) <= y
<1>1. \E x \in S : \A y \in S : x =< y
    BY LeastNumber
<1>2. QED
    BY <1>1 DEF Min

\* remove_from_queue takes one process off the queue, and no other.
LEMMA RemovedOne ==
    ASSUME NEW T, NEW s \in Seq(T), NoRepeat(s), NEW e
    PROVE  /\ RemoveFirst(s, e) \in Seq(T) /\ NoRepeat(RemoveFirst(s, e))
           /\ ToSet(RemoveFirst(s, e)) = ToSet(s) \ {e}
           /\ e \notin ToSet(s) => RemoveFirst(s, e) = s
<1>0. Len(s) \in Nat /\ DOMAIN s = 1 .. Len(s)
    OBVIOUS
<1>1. CASE ~ \E i \in 1 .. Len(s) : s[i] = e
    <2>1. RemoveFirst(s, e) = s
        BY <1>1 DEF RemoveFirst
    <2>2. e \notin ToSet(s)
        BY <1>0, <1>1 DEF ToSet
    <2>3. QED
        BY <2>1, <2>2
<1>2. CASE \E i \in 1 .. Len(s) : s[i] = e
    <2>1. PICK pos : pos = SelectInSeq(s, LAMBDA v : v = e)
        OBVIOUS
    <2>2. pos \in 1 .. Len(s) /\ s[pos] = e
        <3>1. PICK I : I = {i \in 1 .. Len(s) : s[i] = e}
            OBVIOUS
        <3>2. I # {} /\ I \in SUBSET Nat
            BY <1>2, <3>1
        <3>3. pos = Min(I)
            BY <2>1, <3>1, <3>2 DEF SelectInSeq
        <3>4. pos \in I
            BY <3>2, <3>3, MinProps
        <3>5. QED
            BY <3>1, <3>4
    <2>3. PICK r, n : r = RemoveAt(s, pos) /\ n = Len(s)
        OBVIOUS
    <2>4. RemoveFirst(s, e) = r
        BY <1>2, <2>1, <2>3 DEF RemoveFirst
    <2>5. /\ r \in Seq(T) /\ DOMAIN r = 1 .. n - 1 /\ DOMAIN s = 1 .. n
          /\ n \in Nat /\ pos \in 1 .. n
          /\ \A i \in 1 .. n - 1 : r[i] = IF i < pos THEN s[i] ELSE s[i + 1]
        BY <1>0, <2>2, <2>3, RemoveElems
    <2>6. \A i \in 1 .. n - 1 : i \in Int /\ (i < pos => i \in 1 .. n /\ i # pos)
                                /\ (~(i < pos) => i + 1 \in 1 .. n /\ i + 1 # pos)
        BY <2>5
    \* Where an element of r comes from, and where one of s goes.
    <2>7. PICK g : g = [i \in 1 .. n - 1 |-> IF i < pos THEN i ELSE i + 1]
        OBVIOUS
    <2>8. \A i \in 1 .. n - 1 : g[i] \in 1 .. n /\ g[i] # pos /\ r[i] = s[g[i]]
        BY <2>5, <2>6, <2>7
    <2>9. \A i, j \in 1 .. n - 1 : g[i] = g[j] => i = j
        BY <2>5, <2>6, <2>7
    <2>10. \A m \in 1 .. n : m # pos => \E i \in 1 .. n - 1 : g[i] = m
        <3>1. SUFFICES ASSUME NEW m \in 1 .. n, m # pos PROVE \E i \in 1 .. n - 1 : g[i] = m
            OBVIOUS
        <3>2. CASE m < pos
            <4>1. m \in 1 .. n - 1
                BY <2>5, <3>1, <3>2
            <4>2. QED
                BY <2>7, <3>2, <4>1
        <3>3. CASE ~(m < pos)
            <4>1. m - 1 \in 1 .. n - 1 /\ ~(m - 1 < pos) /\ (m - 1) + 1 = m
                BY <2>5, <3>1, <3>3
            <4>2. g[m - 1] = m
                BY <2>7, <4>1
            <4>3. QED
                BY <4>1, <4>2
        <3>4. QED
            BY <3>2, <3>3
    <2>11. \A m \in 1 .. n : s[m] = e <=> m = pos
        BY <2>2, <2>5 DEF NoRepeat
    <2>12. NoRepeat(r)
        BY <2>5, <2>8, <2>9 DEF NoRepeat
    <2>13. \A x : x \in ToSet(r) <=> x \in ToSet(s) \ {e}
        <3>1. ASSUME NEW x \in ToSet(r) PROVE x \in ToSet(s) \ {e}
            <4>1. PICK i \in 1 .. n - 1 : x = r[i]
                BY <2>5 DEF ToSet
            <4>2. QED
                BY <4>1, <2>5, <2>8, <2>11 DEF ToSet
        <3>2. ASSUME NEW x \in ToSet(s) \ {e} PROVE x \in ToSet(r)
            <4>1. PICK m \in 1 .. n : x = s[m] /\ m # pos
                BY <2>5, <2>11 DEF ToSet
            <4>2. PICK i \in 1 .. n - 1 : g[i] = m
                BY <2>10, <4>1
            <4>3. x = r[i]
                BY <2>8, <4>1, <4>2
            <4>4. QED
                BY <2>5, <4>3 DEF ToSet
        <3>3. QED
            BY <3>1, <3>2
    <2>14. e \in ToSet(s)
        BY <2>2, <2>5 DEF ToSet
    <2>15. QED
        BY <2>4, <2>5, <2>12, <2>13, <2>14
<1>3. QED
    BY <1>1, <1>2

\* append_to_queue and prepend_to_queue add one process.
Adds(s, e, r) == r = Append(s, e) \/ r = <<e>> \o s
LEMMA AddedOne ==
    ASSUME NEW T, NEW s \in Seq(T), NoRepeat(s), NEW e \in T, e \notin ToSet(s),
           NEW r, Adds(s, e, r)
    PROVE  r \in Seq(T) /\ NoRepeat(r) /\ ToSet(r) = ToSet(s) \cup {e}
<1>0. PICK n : n = Len(s)
    OBVIOUS
<1>1. n \in Nat /\ DOMAIN s = 1 .. n /\ \A i \in 1 .. n : s[i] # e
    BY <1>0 DEF ToSet
<1>2. CASE r = Append(s, e)
    <2>1. r \in Seq(T) /\ DOMAIN r = 1 .. n + 1 /\ r[n + 1] = e /\ \A i \in 1 .. n : r[i] = s[i]
        BY <1>0, <1>2, AppendProperties
    <2>2. \A i \in 1 .. n + 1 : i \in 1 .. n \/ i = n + 1
        BY <1>1
    <2>3. 1 .. n \subseteq 1 .. n + 1 /\ n + 1 \in 1 .. n + 1
        BY <1>1
    <2>4. NoRepeat(r)
        BY <1>1, <2>1, <2>2 DEF NoRepeat
    <2>5. \A x : x \in ToSet(r) <=> x \in ToSet(s) \/ x = e
        BY <1>1, <2>1, <2>2, <2>3 DEF ToSet
    <2>6. QED
        BY <2>1, <2>4, <2>5
<1>3. CASE r = <<e>> \o s
    <2>1. PICK t : t = <<e>>
        OBVIOUS
    <2>2. t \in Seq(T) /\ Len(t) = 1 /\ t[1] = e
        BY <2>1
    <2>3. r \in Seq(T) /\ Len(r) = 1 + n
          /\ \A i \in 1 .. 1 + n : r[i] = IF i <= 1 THEN t[i] ELSE s[i - 1]
        BY <1>0, <1>3, <2>1, <2>2, ConcatProperties
    <2>4. DOMAIN r = 1 .. n + 1 /\ r[1] = e
        BY <1>1, <2>2, <2>3
    <2>5. \A i \in 1 .. n + 1 : i = 1 \/ (i - 1 \in 1 .. n /\ r[i] = s[i - 1])
        BY <1>1, <2>3
    <2>6. \A i \in 1 .. n : i + 1 \in 1 .. n + 1 /\ r[i + 1] = s[i]
        BY <1>1, <2>3
    <2>7. NoRepeat(r)
        <3>1. SUFFICES ASSUME NEW i \in 1 .. n + 1, NEW j \in 1 .. n + 1, r[i] = r[j] PROVE i = j
            BY <2>4 DEF NoRepeat
        <3>2. CASE i = 1
            BY <1>1, <2>4, <2>5, <3>1, <3>2
        <3>3. CASE j = 1
            BY <1>1, <2>4, <2>5, <3>1, <3>3
        <3>4. CASE i # 1 /\ j # 1
            <4>1. i - 1 \in 1 .. n /\ j - 1 \in 1 .. n /\ s[i - 1] = s[j - 1]
                BY <2>5, <3>1, <3>4
            <4>2. i - 1 = j - 1
                BY <1>1, <4>1 DEF NoRepeat
            <4>3. QED
                BY <1>1, <4>2
        <3>5. QED
            BY <3>2, <3>3, <3>4
    <2>8. \A x : x \in ToSet(r) <=> x \in ToSet(s) \/ x = e
        <3>1. ASSUME NEW x \in ToSet(r) PROVE x \in ToSet(s) \/ x = e
            BY <1>1, <2>4, <2>5 DEF ToSet
        <3>2. ASSUME NEW x \in ToSet(s) PROVE x \in ToSet(r)
            <4>1. PICK i \in 1 .. n : x = s[i]
                BY <1>1 DEF ToSet
            <4>2. i + 1 \in DOMAIN r /\ r[i + 1] = x
                BY <2>4, <2>6, <4>1
            <4>3. QED
                BY <4>2, Zenon DEF ToSet
        <3>3. e \in ToSet(r)
            <4>1. 1 \in DOMAIN r
                BY <1>1, <2>4
            <4>2. QED
                BY <2>4, <4>1, Zenon DEF ToSet
        <3>4. QED
            BY <3>1, <3>2, <3>3
    <2>9. QED
        BY <2>3, <2>7, <2>8
<1>4. QED
    BY <1>2, <1>3 DEF Adds

(***************************************************************************)
(* Shorts, and numbers that agree modulo their range.                      *)
(***************************************************************************)
LEMMA ShortCountProps == ShortCount \in Nat \ {0} /\ ShortCount = 2 * (SEMVMX + 1) /\ SEMVMX \in Nat
BY SemAssumption DEF ShortCount

\* x is a multiple of the range.
Multiple(x) == \E z \in Int : x = ShortCount * z

\* Multiples of the range add up.
LEMMA MultipleSum ==
    ASSUME NEW x \in Int, NEW y \in Int, Multiple(x), Multiple(y)
    PROVE  Multiple(x + y) /\ Multiple(x - y)
<1>1. PICK a \in Int, b \in Int : x = ShortCount * a /\ y = ShortCount * b
    BY DEF Multiple
<1>2. PICK M : M = ShortCount
    OBVIOUS
<1>3. M \in Int
    BY <1>2, ShortCountProps
<1>4. M * a + M * b = M * (a + b) /\ M * a - M * b = M * (a - b)
    BY ONLY <1>3, a \in Int, b \in Int, SMT
<1>5. QED
    BY <1>1, <1>2, <1>4 DEF Multiple

\* Zero is one.
LEMMA MultipleZero == Multiple(0)
<1>1. 0 = ShortCount * 0
    BY ShortCountProps
<1>2. QED
    BY <1>1 DEF Multiple

\* What division by the range leaves.
LEMMA Remainder ==
    ASSUME NEW n \in Int
    PROVE  /\ n % ShortCount \in 0 .. ShortCount - 1
           /\ Multiple(n - (n % ShortCount))
           /\ n \in 0 .. ShortCount - 1 => n % ShortCount = n
<1>1. PICK M : M = ShortCount
    OBVIOUS
<1>2. M \in Nat \ {0}
    BY <1>1, ShortCountProps
<1>3. n % M \in 0 .. M - 1 /\ n \div M \in Int /\ n = M * (n \div M) + (n % M)
    BY ONLY <1>2, n \in Int, SMT
<1>4. n - (n % M) = M * (n \div M)
    BY ONLY <1>2, <1>3, n \in Int, SMT
<1>5. n \in 0 .. M - 1 => n % M = n
    BY ONLY <1>2, n \in Int, SMT
<1>6. QED
    BY <1>1, <1>3, <1>4, <1>5 DEF Multiple

\* Nothing is left of the multiples, and of nothing else.
LEMMA ZeroRemainder ==
    ASSUME NEW n \in Int
    PROVE  n % ShortCount = 0 <=> Multiple(n)
<1>1. ASSUME n % ShortCount = 0 PROVE Multiple(n)
    <2>1. n - (n % ShortCount) = n
        BY <1>1
    <2>2. QED
        BY <2>1, Remainder
<1>2. ASSUME Multiple(n) PROVE n % ShortCount = 0
    <2>1. PICK r : r = n % ShortCount
        OBVIOUS
    <2>2. r \in 0 .. ShortCount - 1 /\ Multiple(n - r)
        BY <2>1, Remainder
    <2>3. r \in Int /\ n - r \in Int
        BY <2>2, ShortCountProps
    <2>4. Multiple(n - (n - r))
        BY <1>2, <2>2, <2>3, MultipleSum
    <2>5. n - (n - r) = r
        BY <2>3
    <2>6. Multiple(r)
        BY <2>4, <2>5
    <2>7. PICK z \in Int : r = ShortCount * z
        BY <2>6 DEF Multiple
    <2>8. PICK M : M = ShortCount
        OBVIOUS
    <2>9. M \in Nat \ {0} /\ r = M * z /\ r \in 0 .. M - 1
        BY <2>2, <2>7, <2>8, ShortCountProps
    <2>10. z = 0
        <3>1. CASE z >= 1
            <4>1. M * z >= M
                BY ONLY <2>9, <3>1, z \in Int, SMT
            <4>2. QED
                BY ONLY <2>9, <4>1, SMT
        <3>2. CASE z <= -1
            <4>1. M * z <= -M
                BY ONLY <2>9, <3>2, z \in Int, SMT
            <4>2. QED
                BY ONLY <2>9, <4>1, SMT
        <3>3. QED
            BY <3>1, <3>2
    <2>11. QED
        BY <2>1, <2>9, <2>10
<1>3. QED
    BY <1>1, <1>2

\* A number stored in a short loses a multiple of the range.
LEMMA ShortProps ==
    ASSUME NEW n \in Int
    PROVE  Short(n) \in ShortRange /\ Short(n) \in Int /\ Multiple(Short(n) - n)
<1>1. PICK M, h : M = ShortCount /\ h = SEMVMX + 1
    OBVIOUS
<1>2. h \in Nat /\ M = h + h /\ M \in Nat
    BY <1>1, ShortCountProps
<1>3. PICK r : r = (n + h) % M
    OBVIOUS
<1>4. n + h \in Int
    BY <1>2
<1>5. r \in 0 .. M - 1 /\ Multiple((n + h) - r)
    BY <1>1, <1>3, <1>4, Remainder
<1>6. Short(n) = r - h
    <2>1. n + SEMVMX + 1 = n + h
        BY <1>1, ShortCountProps
    <2>2. Short(n) = ((n + SEMVMX + 1) % ShortCount) - (SEMVMX + 1)
        BY DEF Short
    <2>3. (n + SEMVMX + 1) % ShortCount = r
        BY <1>1, <1>3, <2>1, Zenon
    <2>4. QED
        BY <1>1, <2>2, <2>3, Zenon
<1>7. r - h \in -h .. h - 1 /\ r - h \in Int
    BY <1>2, <1>5
<1>8. h - 1 = SEMVMX /\ -h = -(SEMVMX + 1)
    BY <1>1, ShortCountProps
<1>9. Multiple(0 - ((n + h) - r))
    BY <1>2, <1>5, MultipleZero, MultipleSum
<1>10. 0 - ((n + h) - r) = (r - h) - n
    BY <1>2, <1>5
<1>11. QED
    BY <1>6, <1>7, <1>8, <1>9, <1>10 DEF ShortRange

\* A short is a number.
LEMMA ShortRangeInt == ShortRange \subseteq Int /\ 0 \in ShortRange
BY ShortCountProps DEF ShortRange

\* Whether a number is a multiple, once what is added to it is one.
LEMMA MultipleShift ==
    ASSUME NEW x \in Int, NEW y \in Int, Multiple(y - x)
    PROVE  x % ShortCount = 0 <=> y % ShortCount = 0
<1>1. ASSUME Multiple(x) PROVE Multiple(y)
    <2>1. Multiple(x + (y - x)) /\ x + (y - x) = y
        BY <1>1, MultipleSum
    <2>2. QED
        BY <2>1
<1>2. ASSUME Multiple(y) PROVE Multiple(x)
    <2>1. Multiple(y - (y - x)) /\ y - (y - x) = x
        BY <1>2, MultipleSum
    <2>2. QED
        BY <2>1
<1>3. QED
    BY <1>1, <1>2, ZeroRemainder

(***************************************************************************)
(* What is to be undone, counted in units.                                 *)
(***************************************************************************)
LEMMA UnitsFinite ==
    ASSUME NEW a, NEW i
    PROVE  IsFiniteSet(UndoUnits(a, i)) /\ Cardinality(UndoUnits(a, i)) \in Nat
<1>1. IsFiniteSet(1 .. ShortCount)
    BY ShortCountProps, FS_Interval
<1>2. IsFiniteSet(Procs \X (1 .. ShortCount))
    BY <1>1, SemAssumption, FS_Product
<1>3. IsFiniteSet(UndoUnits(a, i))
    BY <1>2, FS_Subset DEF UndoUnits
<1>4. QED
    BY <1>3, FS_CardinalityType

\* The units of the others, and those of p.
Others(a, p, i) == {x \in UndoUnits(a, i) : x[1] # p}

\* The units to undo are those of p and those of the others.
LEMMA UnitsSplit ==
    ASSUME NEW a, NEW p \in Procs, NEW i, a.semadj[p][i] \in Int
    PROVE  /\ Cardinality(Others(a, p, i)) \in Nat
           /\ Cardinality(UndoUnits(a, i))
                = Cardinality(Others(a, p, i)) + (a.semadj[p][i] % ShortCount)
<1>1. PICK m : m = a.semadj[p][i] % ShortCount
    OBVIOUS
<1>2. m \in 0 .. ShortCount - 1 /\ m \in Nat
    BY <1>1, Remainder, ShortCountProps, SMTT(30)
<1>3. PICK R, W : R = Others(a, p, i) /\ W = {p} \X (1 .. m)
    OBVIOUS
<1>4. IsFiniteSet(R) /\ Cardinality(R) \in Nat
    <2>1. R \subseteq UndoUnits(a, i)
        BY <1>3 DEF Others
    <2>2. QED
        BY <2>1, UnitsFinite, FS_Subset, FS_CardinalityType
<1>5. IsFiniteSet(W) /\ Cardinality(W) = m
    <2>1. IsFiniteSet(1 .. m) /\ Cardinality(1 .. m) = m
        <3>1. 1 \in Int /\ m \in Int
            BY <1>2
        <3>2. IsFiniteSet(1 .. m) /\ Cardinality(1 .. m) = IF 1 > m THEN 0 ELSE m - 1 + 1
            BY <3>1, FS_Interval
        <3>3. QED
            BY <1>2, <3>2
    <2>2. IsFiniteSet({p}) /\ Cardinality({p}) = 1
        BY FS_Singleton
    <2>3. IsFiniteSet({p} \X (1 .. m)) /\ Cardinality({p} \X (1 .. m)) = 1 * m
        BY <2>1, <2>2, FS_Product, ZenonT(30)
    <2>4. QED
        BY <1>2, <1>3, <2>3
<1>6. R \cap W = {}
    BY <1>3 DEF Others
<1>7. UndoUnits(a, i) = R \cup W
    <2>1. ASSUME NEW x \in UndoUnits(a, i) PROVE x \in R \cup W
        <3>1. x \in Procs \X (1 .. ShortCount) /\ x[2] <= a.semadj[x[1]][i] % ShortCount
            BY DEF UndoUnits
        <3>2. CASE x[1] = p
            <4>1. x[2] \in 1 .. ShortCount /\ x[2] <= m /\ x = <<x[1], x[2]>>
                BY <1>1, <3>1, <3>2
            <4>2. x[2] \in 1 .. m
                BY <1>2, <4>1, ShortCountProps
            <4>3. x \in W
                BY <1>3, <3>2, <4>1, <4>2
            <4>4. QED
                BY <4>3
        <3>3. CASE x[1] # p
            BY <1>3, <3>3 DEF Others
        <3>4. QED
            BY <3>2, <3>3
    <2>2. ASSUME NEW x \in W PROVE x \in UndoUnits(a, i)
        <3>1. x[1] = p /\ x[2] \in 1 .. m /\ x = <<x[1], x[2]>>
            BY <1>3
        <3>2. x[2] \in 1 .. ShortCount /\ x[2] <= m
            BY <1>2, <3>1, ShortCountProps
        <3>3. x \in Procs \X (1 .. ShortCount)
            BY <3>1, <3>2
        <3>4. QED
            BY <1>1, <3>1, <3>2, <3>3 DEF UndoUnits
    <2>3. R \subseteq UndoUnits(a, i)
        BY <1>3 DEF Others
    <2>4. QED
        BY <2>1, <2>2, <2>3
<1>8. Cardinality(R \cup W) = Cardinality(R) + Cardinality(W)
    <2>1. Cardinality(R \cup W) = Cardinality(R) + Cardinality(W) - Cardinality(R \cap W)
        BY <1>4, <1>5, FS_Union
    <2>2. Cardinality(R \cap W) = 0
        BY <1>6, FS_EmptySet
    <2>3. QED
        BY <1>2, <1>4, <1>5, <2>1, <2>2
<1>9. QED
    BY <1>1, <1>3, <1>4, <1>5, <1>7, <1>8

\* One process has its adjustment of a semaphore changed.
OneAdj(a, b, p, i) ==
    /\ p \in Procs /\ a.semadj[p][i] \in Int /\ b.semadj[p][i] \in Int
    /\ \A q \in Procs \ {p} : b.semadj[q][i] = a.semadj[q][i]
\* A new adjustment of p changes their number by the difference of the remainders.
LEMMA UnitsChange ==
    ASSUME NEW a, NEW b, NEW p, NEW i, OneAdj(a, b, p, i)
    PROVE  Cardinality(UndoUnits(b, i)) = Cardinality(UndoUnits(a, i))
              - (a.semadj[p][i] % ShortCount) + (b.semadj[p][i] % ShortCount)
<1>0. /\ p \in Procs /\ a.semadj[p][i] \in Int /\ b.semadj[p][i] \in Int
      /\ \A q \in Procs \ {p} : b.semadj[q][i] = a.semadj[q][i]
    BY DEF OneAdj
<1>1. Others(a, p, i) = Others(b, p, i)
    <2>1. ASSUME NEW x \in Procs \X (1 .. ShortCount), x[1] # p
          PROVE  a.semadj[x[1]][i] = b.semadj[x[1]][i]
        BY <1>0, <2>1
    <2>2. \A x \in Procs \X (1 .. ShortCount) : x[1] # p =>
             (x[2] <= a.semadj[x[1]][i] % ShortCount <=> x[2] <= b.semadj[x[1]][i] % ShortCount)
        BY <2>1, Zenon
    <2>3. ASSUME NEW c
          PROVE  Others(c, p, i) = {x \in Procs \X (1 .. ShortCount) :
                     x[1] # p /\ x[2] <= c.semadj[x[1]][i] % ShortCount}
        BY DEF Others, UndoUnits
    <2>4. QED
        BY <2>2, <2>3, Zenon
<1>2. PICK m, n, c : m = a.semadj[p][i] % ShortCount /\ n = b.semadj[p][i] % ShortCount
                     /\ c = Cardinality(Others(a, p, i))
    OBVIOUS
<1>3. m \in Int /\ n \in Int /\ c \in Nat
    <2>1. c \in Nat
        BY <1>0, <1>2, UnitsSplit
    <2>2. PICK u, v : u = a.semadj[p][i] /\ v = b.semadj[p][i]
        OBVIOUS
    <2>3. m \in 0 .. ShortCount - 1 /\ n \in 0 .. ShortCount - 1
        BY <1>0, <1>2, <2>2, Remainder
    <2>4. QED
        BY <2>1, <2>3, ShortCountProps
<1>4. Cardinality(UndoUnits(a, i)) = c + m /\ Cardinality(UndoUnits(b, i)) = c + n
    BY <1>0, <1>1, <1>2, UnitsSplit
<1>5. QED
    BY <1>2, <1>3, <1>4

\* Nobody has anything to undo.
LEMMA UnitsNone ==
    ASSUME NEW a, NEW i, \A p \in Procs : a.semadj[p][i] = 0
    PROVE  Cardinality(UndoUnits(a, i)) = 0
<1>1. 0 % ShortCount = 0
    BY Remainder, ShortCountProps
<1>2. UndoUnits(a, i) = {}
    <2>1. SUFFICES ASSUME NEW x \in UndoUnits(a, i) PROVE FALSE
        OBVIOUS
    <2>2. x[1] \in Procs /\ x[2] \in 1 .. ShortCount /\ x[2] <= a.semadj[x[1]][i] % ShortCount
        BY DEF UndoUnits
    <2>3. x[2] <= 0
        BY <1>1, <2>2
    <2>4. QED
        BY <2>2, <2>3
<1>3. QED
    BY <1>2, FS_EmptySet

(***************************************************************************)
(* One operation applied.                                                  *)
(***************************************************************************)
LEMMA ArrayFields ==
    ASSUME NEW V, NEW a \in ArraysOf(V)
    PROVE  /\ a.semval \in [Sems -> V] /\ a.sempid \in [Sems -> PidPair]
           /\ a.pending \in Seq(Procs) /\ a.undo \in SUBSET Procs
           /\ a.semadj \in [Procs -> [Sems -> ShortRange]]
           /\ a.base \in [Sems -> 0 .. ShortCount - 1] /\ a.mixed \in BOOLEAN
BY DEF ArraysOf

\* An array is its fields.
LEMMA SameFields ==
    ASSUME NEW V, NEW a \in ArraysOf(V), NEW b \in ArraysOf(V),
           a.semval = b.semval, a.sempid = b.sempid, a.pending = b.pending,
           a.undo = b.undo, a.semadj = b.semadj, a.base = b.base, a.mixed = b.mixed
    PROVE  a = b
<1>1. PICK T1, T2, T3, T4, T5, T6, T7 :
        /\ a \in [semval : T1, sempid : T2, pending : T3, undo : T4, semadj : T5, base : T6, mixed : T7]
        /\ b \in [semval : T1, sempid : T2, pending : T3, undo : T4, semadj : T5, base : T6, mixed : T7]
    <2>1. PICK T1, T2, T3, T4, T5, T6, T7 :
            /\ T1 = [Sems -> V] /\ T2 = [Sems -> PidPair] /\ T3 = Seq(Procs) /\ T4 = SUBSET Procs
            /\ T5 = [Procs -> [Sems -> ShortRange]] /\ T6 = [Sems -> 0 .. ShortCount - 1]
            /\ T7 = BOOLEAN
        OBVIOUS
    <2>2. ArraysOf(V) =
             [semval : T1, sempid : T2, pending : T3, undo : T4, semadj : T5, base : T6, mixed : T7]
        BY <2>1, Zenon DEF ArraysOf
    <2>3. QED
        BY <2>2, Zenon
<1>2. QED
    BY ONLY <1>1, a.semval = b.semval, a.sempid = b.sempid, a.pending = b.pending,
            a.undo = b.undo, a.semadj = b.semadj, a.base = b.base, a.mixed = b.mixed

\* The components Apply changes.
AppliedVal(a, op) == [a.semval EXCEPT ![op.sem_num] = @ + op.sem_op]
AppliedAdj(a, p, op) ==
    [a.semadj[p] EXCEPT ![op.sem_num] = IF op.undo THEN Short(@ - op.sem_op) ELSE @]
AppliedAdjs(a, p, op) == [a.semadj EXCEPT ![p] = AppliedAdj(a, p, op)]
AppliedBase(a, op) ==
    [a.base EXCEPT ![op.sem_num] = IF op.undo THEN @ ELSE (@ + op.sem_op) % ShortCount]

Applies(a, p, op, r) ==
    a \in ArraysOf(Int) /\ p \in Procs /\ op \in Sembuf /\ op.sem_num \in Sems /\ r = Apply(a, p, op)

\* Apply yields an array that differs in the components named above.
LEMMA ApplyFields ==
    ASSUME NEW a, NEW p, NEW op, NEW r, Applies(a, p, op, r)
    PROVE  /\ r \in ArraysOf(Int) /\ r.pending = a.pending /\ r.undo = a.undo
           /\ r.semval = AppliedVal(a, op) /\ r.base = AppliedBase(a, op)
           /\ r.semadj = AppliedAdjs(a, p, op) /\ r.mixed = a.mixed
<1> USE DEF Applies
<1>1. PICK sp, sv, sa, sb :
         /\ sp = [a.sempid EXCEPT ![op.sem_num] = <<@[2], p>>]
         /\ sv = AppliedVal(a, op) /\ sb = AppliedBase(a, op)
         /\ sa = AppliedAdjs(a, p, op)
    OBVIOUS
<1>2. r = [a EXCEPT !.sempid = sp, !.semval = sv, !.semadj = sa, !.base = sb]
    BY <1>1, Zenon DEF Apply, AppliedVal, AppliedAdj, AppliedAdjs, AppliedBase
<1>3. op.sem_op \in Int /\ op.undo \in BOOLEAN
    BY DEF Sembuf
<1>4. sp \in [Sems -> PidPair]
    <2>1. a.sempid[op.sem_num] \in PidPair
        BY ArrayFields
    <2>2. <<a.sempid[op.sem_num][2], p>> \in PidPair
        BY <2>1 DEF PidPair
    <2>3. QED
        BY <1>1, <2>2, ArrayFields
<1>5. sv \in [Sems -> Int]
    BY <1>1, <1>3, ArrayFields DEF AppliedVal
<1>6. sb \in [Sems -> 0 .. ShortCount - 1]
    <2>1. a.base[op.sem_num] \in 0 .. ShortCount - 1 /\ a.base \in [Sems -> 0 .. ShortCount - 1]
        BY ArrayFields
    <2>2. (a.base[op.sem_num] + op.sem_op) % ShortCount \in 0 .. ShortCount - 1
        <3>1. a.base[op.sem_num] + op.sem_op \in Int
            BY <1>3, <2>1, ShortCountProps
        <3>2. QED
            BY <3>1, Remainder
    <2>3. QED
        BY <1>1, <2>1, <2>2 DEF AppliedBase
<1>7. sa \in [Procs -> [Sems -> ShortRange]]
    <2>1. a.semadj[p] \in [Sems -> ShortRange] /\ a.semadj \in [Procs -> [Sems -> ShortRange]]
        BY ArrayFields
    <2>2. Short(a.semadj[p][op.sem_num] - op.sem_op) \in ShortRange
        <3>1. a.semadj[p][op.sem_num] - op.sem_op \in Int
            <4>1. a.semadj[p][op.sem_num] \in ShortRange
                BY <2>1
            <4>2. a.semadj[p][op.sem_num] \in Int /\ op.sem_op \in Int
                BY <1>3, <4>1, ShortRangeInt
            <4>3. QED
                BY ONLY <4>2
        <3>2. QED
            BY <3>1, ShortProps
    <2>3. AppliedAdj(a, p, op) \in [Sems -> ShortRange]
        BY <2>1, <2>2 DEF AppliedAdj
    <2>4. QED
        BY <1>1, <2>1, <2>3 DEF AppliedAdjs
<1>8. QED
    BY <1>1, <1>2, <1>4, <1>5, <1>6, <1>7 DEF ArraysOf

\* Whatever is applied, what is to be undone and the history agree.
LEMMA ApplyKept ==
    ASSUME NEW a, NEW p, NEW op, NEW r, Applies(a, p, op, r), op.undo => p \in a.undo, Kept(a)
    PROVE  Kept(r)
<1>0. a \in ArraysOf(Int) /\ p \in Procs /\ op \in Sembuf /\ op.sem_num \in Sems
    BY DEF Applies
<1>1. /\ r \in ArraysOf(Int) /\ r.undo = a.undo
      /\ r.semval = AppliedVal(a, op) /\ r.base = AppliedBase(a, op)
      /\ r.semadj = AppliedAdjs(a, p, op)
    BY ApplyFields
<1>2. PICK i, d : i = op.sem_num /\ d = op.sem_op
    OBVIOUS
<1>3. i \in Sems /\ d \in Int /\ op.undo \in BOOLEAN
    BY <1>0, <1>2 DEF Sembuf
<1>4. PICK adj, new : adj = a.semadj[p][i] /\ new = IF op.undo THEN Short(adj - d) ELSE adj
    OBVIOUS
<1>5. adj \in Int /\ a.semadj \in [Procs -> [Sems -> ShortRange]]
    <2>1. a.semadj \in [Procs -> [Sems -> ShortRange]]
        BY <1>0, ArrayFields
    <2>2. a.semadj[p][i] \in ShortRange
        BY <1>0, <1>3, <2>1
    <2>3. QED
        BY <1>4, <2>1, <2>2, ShortRangeInt
<1>6. r.semadj[p] = [a.semadj[p] EXCEPT ![i] = new] /\ \A q \in Procs \ {p} : r.semadj[q] = a.semadj[q]
    BY <1>0, <1>1, <1>2, <1>4, <1>5 DEF AppliedAdj, AppliedAdjs
<1>7. r.semadj[p][i] = new /\ \A j \in Sems \ {i} : r.semadj[p][j] = a.semadj[p][j]
    BY <1>0, <1>3, <1>5, <1>6
<1>8. AdjOwned(r)
    <2>1. SUFFICES ASSUME NEW q \in Procs \ a.undo, NEW j \in Sems PROVE r.semadj[q][j] = 0
        BY <1>1 DEF AdjOwned
    <2>2. a.semadj[q][j] = 0
        BY DEF Kept, AdjOwned
    <2>3. CASE q = p
        <3>1. ~op.undo /\ new = adj
            BY <1>4, <2>3
        <3>2. QED
            BY <1>4, <1>7, <2>2, <2>3, <3>1
    <2>4. CASE q # p
        BY <1>6, <2>2, <2>4
    <2>5. QED
        BY <2>3, <2>4
<1>9. ASSUME NEW j \in Sems, j # i PROVE BalancedAt(r, j)
    <2>1. r.semval[j] = a.semval[j] /\ r.base[j] = a.base[j]
        BY <1>0, <1>1, <1>2, <1>9, ArrayFields DEF AppliedVal, AppliedBase
    <2>2. \A q \in Procs : r.semadj[q][j] = a.semadj[q][j]
        BY <1>6, <1>7, <1>9
    <2>3. UndoUnits(r, j) = UndoUnits(a, j)
        <3>1. \A x \in Procs \X (1 .. ShortCount) : r.semadj[x[1]][j] = a.semadj[x[1]][j]
            BY <2>2
        <3>2. QED
            BY <3>1, Zenon DEF UndoUnits
    <2>4. BalancedAt(a, j)
        BY DEF Kept
    <2>5. QED
        BY <2>1, <2>3, <2>4, Zenon DEF BalancedAt
<1>10. BalancedAt(r, i)
    <2>1. PICK v, u, b, u1, b1 : v = a.semval[i] /\ u = Cardinality(UndoUnits(a, i)) /\ b = a.base[i]
                                 /\ u1 = Cardinality(UndoUnits(r, i)) /\ b1 = r.base[i]
        OBVIOUS
    <2>2. v \in Int /\ u \in Int /\ b \in Int /\ u1 \in Int /\ b1 \in Int
        <3>1. v \in Int /\ b \in 0 .. ShortCount - 1 /\ b1 \in 0 .. ShortCount - 1
            BY <1>0, <1>1, <1>3, <2>1, ArrayFields
        <3>2. u \in Nat /\ u1 \in Nat
            BY <2>1, UnitsFinite
        <3>3. QED
            BY <3>1, <3>2, ShortCountProps
    <2>3. r.semval[i] = v + d
        BY <1>0, <1>1, <1>2, <1>3, <2>1, ArrayFields DEF AppliedVal
    <2>4. b1 = IF op.undo THEN b ELSE (b + d) % ShortCount
        BY <1>0, <1>1, <1>2, <1>3, <2>1, ArrayFields DEF AppliedBase
    <2>5. new \in Int
        <3>1. adj - d \in Int
            BY <1>3, <1>5
        <3>2. QED
            BY <1>4, <1>5, <3>1, ShortProps
    <2>6. u1 = u - (adj % ShortCount) + (new % ShortCount)
        <3>1. \A q \in Procs \ {p} : r.semadj[q][i] = a.semadj[q][i]
            BY <1>6
        <3>2. a.semadj[p][i] \in Int /\ r.semadj[p][i] \in Int
            BY <1>4, <1>5, <1>7, <2>5
        <3>3. Cardinality(UndoUnits(r, i)) = Cardinality(UndoUnits(a, i))
                - (a.semadj[p][i] % ShortCount) + (r.semadj[p][i] % ShortCount)
            <4>1. OneAdj(a, r, p, i)
                BY <1>0, <3>1, <3>2 DEF OneAdj
            <4>2. QED
                BY ONLY <4>1, UnitsChange
        <3>4. QED
            BY <1>4, <1>7, <2>1, <3>3
    <2>7. (v + u - b) % ShortCount = 0
        BY <1>3, <2>1 DEF Kept, BalancedAt
    <2>8. Multiple((v + d + u1 - b1) - (v + u - b))
        <3>1. CASE op.undo
            <4>1. PICK m, n : m = adj % ShortCount /\ n = new % ShortCount
                OBVIOUS
            <4>2. m \in Int /\ n \in Int
                BY <1>5, <2>5, <4>1, Remainder, ShortCountProps
            <4>3. Multiple(adj - m) /\ Multiple(new - n) /\ Multiple(new - (adj - d))
                <5>1. new = Short(adj - d) /\ adj - d \in Int
                    BY <1>3, <1>4, <1>5, <3>1
                <5>2. QED
                    BY <1>5, <2>5, <4>1, <5>1, Remainder, ShortProps
            <4>4. Multiple((new - (adj - d)) - (new - n))
                BY <1>3, <1>5, <2>5, <4>2, <4>3, MultipleSum
            <4>5. Multiple(((new - (adj - d)) - (new - n)) + (adj - m))
                BY <1>3, <1>5, <2>5, <4>2, <4>3, <4>4, MultipleSum, SMTT(30)
            <4>6. (v + d + u1 - b1) - (v + u - b) = ((new - (adj - d)) - (new - n)) + (adj - m)
                <5>1. u1 = u - m + n /\ b1 = b
                    BY <2>4, <2>6, <3>1, <4>1
                <5>2. QED
                    BY <1>3, <1>5, <2>2, <2>5, <4>2, <5>1
            <4>7. QED
                BY <4>5, <4>6
        <3>2. CASE ~op.undo
            <4>1. PICK m : m = adj % ShortCount
                OBVIOUS
            <4>2. m \in Int
                BY <1>5, <4>1, Remainder, ShortCountProps
            <4>3. u1 = u /\ b1 = (b + d) % ShortCount
                <5>1. new = adj
                    BY <1>4, <3>2
                <5>2. u1 = u - m + m
                    BY <2>6, <4>1, <5>1
                <5>3. QED
                    BY <2>2, <2>4, <3>2, <4>2, <5>2
            <4>4. b + d \in Int
                BY <1>3, <2>2
            <4>5. Multiple((b + d) - b1)
                BY <4>3, <4>4, Remainder
            <4>6. (v + d + u1 - b1) - (v + u - b) = (b + d) - b1
                BY <1>3, <2>2, <4>3
            <4>7. QED
                BY <4>5, <4>6
        <3>3. QED
            BY <3>1, <3>2
    <2>9. (v + d + u1 - b1) % ShortCount = 0
        <3>1. v + d + u1 - b1 \in Int /\ v + u - b \in Int
            BY <1>3, <2>2
        <3>2. QED
            BY <2>7, <2>8, <3>1, MultipleShift
    <2>10. QED
        BY <2>1, <2>3, <2>9 DEF BalancedAt
<1>11. QED
    BY <1>8, <1>9, <1>10 DEF Kept

(***************************************************************************)
(* try_atomic_semop: the course of the operations.                         *)
(***************************************************************************)
\* A sequence semop accepts; p has the undo structure it needs.
Legal(ops) ==
    /\ ops \in Seq(Sembuf) /\ ops # <<>>
    /\ \A j \in DOMAIN ops : ops[j].sem_num \in Sems
UndoReady(a, p, ops) == Undone(ops) # {} => p \in a.undo

\* x is the array a with other semaphores, adjustments and pids.
Like(a, x) ==
    x \in ArraysOf(Int) /\ x.pending = a.pending /\ x.undo = a.undo /\ x.mixed = a.mixed
StillKept(a, p, ops, x) == UndoReady(a, p, ops) /\ Kept(a) => Kept(x)
Runs(a, p, ops, f) ==
    /\ f[0] = a /\ \A n \in 1 .. Len(ops) : f[n] = Apply(f[n - 1], p, ops[n])
    /\ \A n \in 0 .. Len(ops) : Like(a, f[n]) /\ StillKept(a, p, ops, f[n])
CourseTurn(a, p, ops, f, n) == IF n = 0 THEN a ELSE Apply(f[n - 1], p, ops[n])

\* Course applies the operations one after another and keeps the array in order.
LEMMA CourseRuns ==
    ASSUME NEW a \in ArraysOf(Int), NEW p \in Procs, NEW ops, Legal(ops)
    PROVE  Runs(a, p, ops, Course(a, p, ops))
<1>1. PICK n : n = Len(ops)
    OBVIOUS
<1>2. n \in Nat /\ DOMAIN ops = 1 .. n
    BY <1>1 DEF Legal
<1>3. PICK A : A = {x \in ArraysOf(Int) : Like(a, x) /\ StillKept(a, p, ops, x)}
    OBVIOUS
<1>4. a \in A
    BY <1>3 DEF Like, StillKept
<1>5. ASSUME NEW x \in A, NEW i \in 1 .. n PROVE Apply(x, p, ops[i]) \in A
    <2>1. x \in ArraysOf(Int) /\ x.pending = a.pending /\ x.undo = a.undo /\ x.mixed = a.mixed
          /\ StillKept(a, p, ops, x)
        BY <1>3 DEF Like
    <2>2. ops[i] \in Sembuf /\ ops[i].sem_num \in Sems
        BY <1>2 DEF Legal
    <2>3. PICK r : r = Apply(x, p, ops[i])
        OBVIOUS
    <2>4. r \in ArraysOf(Int) /\ r.pending = x.pending /\ r.undo = x.undo /\ r.mixed = x.mixed
        <3>1. PICK op : op = ops[i]
            OBVIOUS
        <3>2. x \in ArraysOf(Int) /\ p \in Procs /\ op \in Sembuf /\ op.sem_num \in Sems
              /\ r = Apply(x, p, op)
            BY <2>1, <2>2, <2>3, <3>1
        <3>3. Applies(x, p, op, r)
            BY <3>2 DEF Applies
        <3>4. QED
            BY ONLY <3>3, ApplyFields
    <2>5. ASSUME UndoReady(a, p, ops), Kept(a) PROVE Kept(r)
        <3>1. ops[i].undo => p \in x.undo
            BY <1>2, <2>1, <2>5 DEF UndoReady, Undone
        <3>2. QED
            BY <2>1, <2>2, <2>3, <2>5, <3>1, ApplyKept DEF StillKept, Applies
    <2>6. Like(a, r) /\ StillKept(a, p, ops, r)
        BY <2>1, <2>4, <2>5 DEF Like, StillKept
    <2>7. QED
        BY <1>3, <2>3, <2>4, <2>6
<1>6. PICK f : /\ f \in [0 .. n -> A] /\ f[0] = a
               /\ \A i \in 1 .. n : f[i] = Apply(f[i - 1], p, ops[i])
    <2>1. PICK turn : turn = [i \in 1 .. n |-> [x \in A |-> Apply(x, p, ops[i])]]
        OBVIOUS
    <2>2. Loop(A, a, n, turn)
        BY <1>2, <1>4, <1>5, <2>1 DEF Loop
    <2>3. PICK f : CourseOf(A, a, n, turn, f)
        BY ONLY <2>2, Iterate, Zenon
    <2>4. f \in [0 .. n -> A] /\ f[0] = a /\ \A i \in 1 .. n : f[i] = turn[i][f[i - 1]]
        BY <2>3 DEF CourseOf
    <2>5. ASSUME NEW i \in 1 .. n PROVE f[i] = Apply(f[i - 1], p, ops[i])
        <3>1. i - 1 \in 0 .. n
            BY <1>2
        <3>2. f[i - 1] \in A
            BY <2>4, <3>1
        <3>3. QED
            BY <2>1, <2>4, <3>2
    <2>6. QED
        BY <2>4, <2>5
<1>7. f = [i \in 0 .. n |-> CourseTurn(a, p, ops, f, i)]
    <2>1. ASSUME NEW i \in 0 .. n PROVE f[i] = CourseTurn(a, p, ops, f, i)
        <3>1. CASE i = 0
            BY <1>6, <3>1 DEF CourseTurn
        <3>2. CASE i # 0
            <4>1. i \in 1 .. n
                BY <1>2, <3>2
            <4>2. QED
                BY <1>6, <3>2, <4>1 DEF CourseTurn
        <3>3. QED
            BY <3>1, <3>2
    <2>2. QED
        BY <1>6, <2>1
<1>8. PICK g : g = [i \in 0 .. n |-> CourseTurn(a, p, ops, g, i)] /\ Course(a, p, ops) = g
    <2> DEFINE G == CHOOSE h : h = [i \in 0 .. Len(ops) |->
                        IF i = 0 THEN a ELSE Apply(h[i - 1], p, ops[i])]
    <2>1. Course(a, p, ops) = G
        BY Zenon DEF Course
    <2>2. \E h : h = [i \in 0 .. Len(ops) |-> IF i = 0 THEN a ELSE Apply(h[i - 1], p, ops[i])]
        BY <1>1, <1>7, Zenon DEF CourseTurn
    <2>3. G = [i \in 0 .. Len(ops) |-> IF i = 0 THEN a ELSE Apply(G[i - 1], p, ops[i])]
        BY <2>2, Zenon
    <2> HIDE DEF G
    <2>4. QED
        BY <2>1, <2>3, <1>1, Zenon DEF CourseTurn
<1>9. g[0] = a /\ \A i \in 1 .. n : g[i] = Apply(g[i - 1], p, ops[i])
    <2>1. \A i \in 0 .. n : g[i] = CourseTurn(a, p, ops, g, i)
        BY <1>8, Zenon
    <2>2. 0 \in 0 .. n /\ \A i \in 1 .. n : i \in 0 .. n /\ i # 0
        BY <1>2
    <2>3. QED
        BY <2>1, <2>2 DEF CourseTurn
<1> DEFINE Bad == {i \in 0 .. n : g[i] \notin A}
<1>10. \A i \in 0 .. n : g[i] \in A
    <2>1. SUFFICES ASSUME Bad # {} PROVE FALSE
        OBVIOUS
    <2>2. Bad \in SUBSET Nat
        BY <1>2
    <2>3. PICK m \in Bad : \A y \in Bad : m <= y
        BY <2>1, <2>2, LeastNumber
    <2>4. m \in 0 .. n /\ g[m] \notin A
        BY <2>3
    <2>5. m # 0
        BY <1>4, <1>9, <2>4
    <2>6. m \in 1 .. n /\ m - 1 \in 0 .. n /\ ~(m <= m - 1)
        BY <1>2, <2>4, <2>5
    <2>7. m - 1 \notin Bad
        BY <2>3, <2>6
    <2>8. g[m - 1] \in A
        BY <2>6, <2>7
    <2>9. QED
        BY <1>5, <1>9, <2>4, <2>6, <2>8
<1>11. \A i \in 0 .. n : Like(a, g[i]) /\ StillKept(a, p, ops, g[i])
    BY <1>3, <1>10
<1>12. QED
    BY <1>1, <1>8, <1>9, <1>11 DEF Runs
\* Induction over the turns of a loop.
LEMMA TurnByTurn ==
    ASSUME NEW n \in Nat, NEW S, 0 \in S, \A i \in 1 .. n : i - 1 \in S => i \in S
    PROVE  \A i \in 0 .. n : i \in S
<1> DEFINE Bad == {i \in 0 .. n : i \notin S}
<1>1. SUFFICES ASSUME Bad # {} PROVE FALSE
    OBVIOUS
<1>2. Bad \in SUBSET Nat
    OBVIOUS
<1>3. PICK m \in Bad : \A y \in Bad : m <= y
    BY <1>1, <1>2, LeastNumber
<1>4. m \in 0 .. n /\ m \notin S
    BY <1>3
<1>5. m \in 1 .. n /\ m - 1 \in 0 .. n /\ ~(m <= m - 1)
    BY <1>4
<1>6. m - 1 \notin Bad
    BY <1>3, <1>5
<1>7. m - 1 \in S
    BY <1>5, <1>6
<1>8. QED
    BY <1>4, <1>5, <1>7

(***************************************************************************)
(* try_atomic_semop: its result and the array it leaves.                   *)
(***************************************************************************)
\* The values along the course.
ValuesRun(a, ops, f) ==
    /\ f[0].semval = a.semval
    /\ \A n \in 1 .. Len(ops) : f[n].semval = AppliedVal(f[n - 1], ops[n])
    /\ \A n \in 0 .. Len(ops) : f[n].semval \in [Sems -> Int]

\* The values along a course are those of the operations on the first values.
LEMMA CourseValues ==
    ASSUME NEW a, NEW p \in Procs, NEW ops, NEW f, Legal(ops), Runs(a, p, ops, f)
    PROVE  ValuesRun(a, ops, f)
<1>1. ASSUME NEW n \in 0 .. Len(ops) PROVE f[n] \in ArraysOf(Int)
    BY DEF Runs, Like
<1>2. \A n \in 0 .. Len(ops) : f[n].semval \in [Sems -> Int]
    BY <1>1, ArrayFields
<1>3. ASSUME NEW n \in 1 .. Len(ops) PROVE f[n].semval = AppliedVal(f[n - 1], ops[n])
    <2>1. n - 1 \in 0 .. Len(ops) /\ n \in DOMAIN ops
        BY DEF Legal
    <2>2. Applies(f[n - 1], p, ops[n], f[n])
        BY <1>1, <2>1 DEF Applies, Runs, Legal
    <2>3. PICK x, op, r : x = f[n - 1] /\ op = ops[n] /\ r = f[n]
        OBVIOUS
    <2>4. Applies(x, p, op, r)
        BY <2>2, <2>3
    <2>5. r.semval = AppliedVal(x, op)
        BY ONLY <2>4, ApplyFields
    <2>6. QED
        BY <2>3, <2>5
<1>4. QED
    BY <1>2, <1>3 DEF ValuesRun, Runs

\* What an operation does to the values depends on the values.
LEMMA AppliedSame ==
    ASSUME NEW x, NEW y, NEW op, x.semval = y.semval
    PROVE  AppliedVal(x, op) = AppliedVal(y, op)
BY DEF AppliedVal

\* Arrays with the same values answer in the same way.
LEMMA SameResult ==
    ASSUME NEW a, NEW b, NEW ops, NEW f, NEW g, Legal(ops),
           ValuesRun(a, ops, f), ValuesRun(b, ops, g), a.semval = b.semval
    PROVE  Result(f, ops) = Result(g, ops)
<1>1. PICK n : n = Len(ops)
    OBVIOUS
<1>2. n \in Nat /\ DOMAIN ops = 1 .. n
    BY <1>1 DEF Legal
<1>3. PICK S : S = {i \in 0 .. n : f[i].semval = g[i].semval}
    OBVIOUS
<1>4. 0 \in S
    BY <1>2, <1>3 DEF ValuesRun
<1>5. ASSUME NEW i \in 1 .. n, i - 1 \in S PROVE i \in S
    <2>1. f[i - 1].semval = g[i - 1].semval
        BY <1>3, <1>5
    <2>2. f[i].semval = AppliedVal(f[i - 1], ops[i]) /\ g[i].semval = AppliedVal(g[i - 1], ops[i])
        BY <1>1 DEF ValuesRun
    <2>3. AppliedVal(f[i - 1], ops[i]) = AppliedVal(g[i - 1], ops[i])
        BY <2>1, AppliedSame
    <2>4. QED
        BY <1>2, <1>3, <2>2, <2>3
<1>6. \A i \in 1 .. n : f[i].semval = g[i].semval
    <2>1. \A i \in 0 .. n : i \in S
        BY <1>2, <1>4, <1>5, TurnByTurn
    <2>2. \A i \in 1 .. n : i \in 0 .. n
        BY <1>2
    <2>3. QED
        BY <1>3, <2>1, <2>2
<1>7. \A i \in DOMAIN ops : Value(f, ops, i) = Value(g, ops, i)
    BY <1>2, <1>6 DEF Value
<1>8. Stops(f, ops) = Stops(g, ops)
    BY <1>7, Zenon DEF Stops
<1>9. CASE Stops(f, ops) = {}
    BY <1>8, <1>9, Zenon DEF Result
<1>10. CASE Stops(f, ops) # {}
    <2>1. PICK m : m = Min(Stops(f, ops))
        OBVIOUS
    <2>2. m \in DOMAIN ops
        <3>1. Stops(f, ops) \in SUBSET Nat /\ Stops(f, ops) \subseteq DOMAIN ops
            BY <1>2 DEF Stops
        <3>2. QED
            BY <1>10, <2>1, <3>1, MinProps
    <2>3. Result(f, ops) = Stopped(ops[m], Value(f, ops, m))
        BY <1>10, <2>1, Zenon DEF Result
    <2>4. Result(g, ops) = Stopped(ops[m], Value(g, ops, m))
        BY <1>8, <1>10, <2>1, Zenon DEF Result
    <2>5. QED
        BY <1>7, <2>2, <2>3, <2>4, Zenon
<1>11. QED
    BY <1>9, <1>10
\* As long as the loop has not stopped no value is negative.
LEMMA CourseSign ==
    ASSUME NEW a, NEW ops, NEW f, Legal(ops), ValuesRun(a, ops, f),
           a.semval \in [Sems -> Nat], NEW m \in 0 .. Len(ops), \A j \in Stops(f, ops) : m < j
    PROVE  f[m].semval \in [Sems -> Nat]
<1>1. PICK n : n = Len(ops)
    OBVIOUS
<1>2. n \in Nat /\ DOMAIN ops = 1 .. n
    BY <1>1 DEF Legal
<1>3. PICK S : S = {i \in 0 .. n : i <= m => f[i].semval \in [Sems -> Nat]}
    OBVIOUS
<1>4. 0 \in S
    BY <1>2, <1>3 DEF ValuesRun
<1>5. ASSUME NEW i \in 1 .. n, i - 1 \in S PROVE i \in S
    <2>0. SUFFICES ASSUME i <= m PROVE f[i].semval \in [Sems -> Nat]
        BY <1>2, <1>3
    <2>1. PICK x, y, op : x = f[i - 1].semval /\ y = f[i].semval /\ op = ops[i]
        OBVIOUS
    <2>2. x \in [Sems -> Nat]
        BY <1>1, <1>2, <1>3, <1>5, <2>0, <2>1
    <2>3. op \in Sembuf /\ op.sem_num \in Sems
        BY <1>2, <2>1 DEF Legal
    <2>4. op.sem_op \in Int
        BY <2>3 DEF Sembuf
    <2>5. y = [x EXCEPT ![op.sem_num] = @ + op.sem_op]
        BY <1>1, <2>1 DEF ValuesRun, AppliedVal
    <2>6. ~Blocks(op, y[op.sem_num])
        <3>1. i \notin Stops(f, ops)
            BY <1>1, <1>2, <2>0
        <3>2. QED
            BY <1>2, <2>1, <3>1 DEF Stops, Value
    <2>7. y[op.sem_num] = x[op.sem_num] + op.sem_op /\ x[op.sem_num] \in Nat
        BY <2>2, <2>3, <2>5
    <2>8. y[op.sem_num] \in Nat
        BY <2>4, <2>6, <2>7 DEF Blocks
    <2>9. y \in [Sems -> Nat]
        BY <2>2, <2>5, <2>7, <2>8
    <2>10. QED
        BY <2>1, <2>9
<1>6. m \in S
    BY <1>1, <1>2, <1>4, <1>5, TurnByTurn
<1>7. QED
    BY <1>1, <1>2, <1>3, <1>6

\* Operations that only wait for zero change no value.
LEMMA CourseStill ==
    ASSUME NEW a, NEW ops, NEW f, Legal(ops), ValuesRun(a, ops, f),
           a.semval \in [Sems -> Nat], ~Alter(ops)
    PROVE  f[Len(ops)].semval = a.semval
<1>1. PICK n : n = Len(ops)
    OBVIOUS
<1>2. n \in Nat /\ DOMAIN ops = 1 .. n
    BY <1>1 DEF Legal
<1>3. PICK S : S = {i \in 0 .. n : f[i].semval = a.semval}
    OBVIOUS
<1>4. 0 \in S
    BY <1>2, <1>3 DEF ValuesRun
<1>5. ASSUME NEW i \in 1 .. n, i - 1 \in S PROVE i \in S
    <2>1. PICK x, y, op : x = f[i - 1].semval /\ y = f[i].semval /\ op = ops[i]
        OBVIOUS
    <2>2. x = a.semval /\ x \in [Sems -> Nat]
        BY <1>3, <1>5, <2>1
    <2>3. op.sem_num \in Sems /\ op.sem_op = 0
        BY <1>2, <2>1 DEF Legal, Alter
    <2>4. y = [x EXCEPT ![op.sem_num] = @ + op.sem_op]
        BY <1>1, <2>1 DEF ValuesRun, AppliedVal
    <2>5. y = x
        BY <2>2, <2>3, <2>4
    <2>6. f[i].semval = a.semval /\ i \in 0 .. n
        BY <1>2, <2>1, <2>2, <2>5
    <2>7. QED
        BY <1>3, <2>6
<1>6. n \in S
    <2>1. n \in 0 .. n
        BY <1>2
    <2>2. QED
        BY <1>2, <1>4, <1>5, <2>1, TurnByTurn
<1>7. QED
    BY <1>1, <1>3, <1>6

\* The loop stops at one of the operations; a sleeper waits at one that decreases or
\* waits for zero, without IPC_NOWAIT.
Blocking(ops) == \E j \in DOMAIN ops : ops[j].sem_op <= 0 /\ ~ops[j].nowait

\* Result is one of four, and one that sleeps has an operation that may block.
LEMMA ResultIs ==
    ASSUME NEW a, NEW ops, NEW f, Legal(ops), ValuesRun(a, ops, f),
           a.semval \in [Sems -> Nat]
    PROVE  /\ Result(f, ops) \in {"ok", "sleep", "EAGAIN", "ERANGE"}
           /\ Result(f, ops) = "ok" <=> Stops(f, ops) = {}
           /\ Result(f, ops) = "sleep" => Blocking(ops)
<1>1. CASE Stops(f, ops) = {}
    BY <1>1, Zenon DEF Result
<1>2. CASE Stops(f, ops) # {}
    <2>1. PICK m : m = Min(Stops(f, ops))
        OBVIOUS
    <2>2. DOMAIN ops = 1 .. Len(ops) /\ Len(ops) \in Nat
        BY DEF Legal
    <2>3. m \in DOMAIN ops /\ \A y \in Stops(f, ops) : m <= y
        <3>1. Stops(f, ops) \in SUBSET Nat /\ Stops(f, ops) \subseteq DOMAIN ops
            BY <2>2 DEF Stops
        <3>2. QED
            BY <1>2, <2>1, <3>1, MinProps
    <2>4. PICK op, v : op = ops[m] /\ v = Value(f, ops, m)
        OBVIOUS
    <2>5. Result(f, ops) = Stopped(op, v)
        BY <1>2, <2>1, <2>4, Zenon DEF Result
    <2>6. Stopped(op, v) \in {"sleep", "EAGAIN", "ERANGE"}
        BY DEF Stopped
    <2>7. ASSUME Stopped(op, v) = "sleep" PROVE Blocking(ops)
        <3>1. Blocks(op, v) /\ ~op.nowait
            BY <2>7 DEF Stopped
        <3>2. op \in Sembuf /\ op.sem_num \in Sems
            BY <2>3, <2>4 DEF Legal
        <3>3. op.sem_op \in Int
            BY <3>2 DEF Sembuf
        <3>4. CASE op.sem_op <= 0
            BY <2>3, <2>4, <3>1, <3>4 DEF Blocking
        <3>5. CASE op.sem_op > 0
            \* the value was negative before, so the loop had stopped before
            <4>1. v < 0
                BY <3>1, <3>3, <3>5 DEF Blocks
            <4>2. m - 1 \in 0 .. Len(ops) /\ \A j \in Stops(f, ops) : m - 1 < j
                BY <2>2, <2>3 DEF Stops
            <4>4. PICK x : x = f[m - 1].semval
                OBVIOUS
            <4>5. x \in [Sems -> Nat]
                BY <4>2, <4>4, CourseSign
            <4>6. v = [x EXCEPT ![op.sem_num] = @ + op.sem_op][op.sem_num]
                BY <2>2, <2>3, <2>4, <4>4 DEF Value, ValuesRun, AppliedVal
            <4>7. x[op.sem_num] \in Nat /\ v = x[op.sem_num] + op.sem_op
                BY <3>2, <4>5, <4>6
            <4>8. QED
                BY <3>3, <3>5, <4>1, <4>7
        <3>6. QED
            BY <3>3, <3>4, <3>5
    <2>8. QED
        BY <1>2, <2>5, <2>6, <2>7
<1>3. QED
    BY <1>1, <1>2
\* The member of a singleton.
LEMMA TheOne ==
    ASSUME NEW S, NEW x, S = {x}
    PROVE  The(S) = x
BY DEF The

\* Whether an array is kept depends on these components.
LEMMA KeptSame ==
    ASSUME NEW a, NEW b, Kept(a), b.undo = a.undo, b.semval = a.semval,
           b.semadj = a.semadj, b.base = a.base
    PROVE  Kept(b)
<1>1. \A i \in Sems : UndoUnits(b, i) = UndoUnits(a, i)
    BY Zenon DEF UndoUnits
<1>2. AdjOwned(b)
    BY Zenon DEF Kept, AdjOwned
<1>3. ASSUME NEW i \in Sems PROVE BalancedAt(b, i)
    <2>1. BalancedAt(a, i)
        BY DEF Kept
    <2>2. QED
        BY <1>1, <2>1, Zenon DEF BalancedAt
<1>4. QED
    BY <1>2, <1>3 DEF Kept

\* An array as it is between two sections under the lock.
Sound(a) == a \in ArraysOf(Nat) /\ Kept(a) /\ NoRepeat(a.pending)

\* An array of natural numbers is one of integers.
LEMMA NatArray ==
    ASSUME NEW a
    PROVE  a \in ArraysOf(Nat) <=> a \in ArraysOf(Int) /\ a.semval \in [Sems -> Nat]
<1>1. ASSUME a \in ArraysOf(Nat) PROVE a \in ArraysOf(Int) /\ a.semval \in [Sems -> Nat]
    BY <1>1 DEF ArraysOf
<1>2. ASSUME a \in ArraysOf(Int), a.semval \in [Sems -> Nat] PROVE a \in ArraysOf(Nat)
    BY <1>2 DEF ArraysOf
<1>3. QED
    BY <1>1, <1>2

\* The undo loop leaves values and adjustments.
LEMMA Unapplied ==
    ASSUME NEW a, NEW p \in Procs, NEW ops, NEW f, Sound(a), Legal(ops), Runs(a, p, ops, f),
           NEW b, b = Unapply(a, f, ops)
    PROVE  /\ Sound(b) /\ b.pending = a.pending /\ b.undo = a.undo
           /\ b.semval = a.semval /\ b.semadj = a.semadj /\ b.base = a.base
           /\ b.mixed = a.mixed
<1>1. PICK last, shifted :
         /\ last = IF Stops(f, ops) = {} THEN Len(ops) ELSE Min(Stops(f, ops))
         /\ shifted = IF Stops(f, ops) # {} /\ ops[last].sem_op = 0 THEN f[last - 1] ELSE f[last]
    OBVIOUS
<1>2. PICK sp : sp = [i \in Sems |->
         PidPopped(shifted.sempid[i], Cardinality({j \in 1 .. last : ops[j].sem_num = i}))]
    OBVIOUS
<1>3. b = [a EXCEPT !.sempid = sp]
    BY <1>1, <1>2, Zenon DEF Unapply
<1>4. last \in 0 .. Len(ops) /\ last - 1 \in 0 .. Len(ops)
    <2>1. Len(ops) \in Nat /\ DOMAIN ops = 1 .. Len(ops) /\ Len(ops) # 0
        BY EmptySeq DEF Legal
    <2>2. CASE Stops(f, ops) = {}
        BY <1>1, <2>1, <2>2
    <2>3. CASE Stops(f, ops) # {}
        <3>1. Stops(f, ops) \in SUBSET Nat /\ Stops(f, ops) \subseteq 1 .. Len(ops)
            BY <2>1 DEF Stops
        <3>2. last \in 1 .. Len(ops)
            BY <1>1, <2>3, <3>1, MinProps
        <3>3. QED
            BY <2>1, <3>2
    <2>4. QED
        BY <2>2, <2>3
<1>5. shifted \in ArraysOf(Int)
    BY <1>1, <1>4 DEF Runs, Like
<1>6. sp \in [Sems -> PidPair]
    <2>1. ASSUME NEW i \in Sems PROVE shifted.sempid[i] \in PidPair
        BY <1>5, ArrayFields
    <2>2. ASSUME NEW x \in PidPair, NEW n PROVE PidPopped(x, n) \in PidPair
        BY DEF PidPopped, PidPair
    <2>3. QED
        BY <1>2, <2>1, <2>2
<1>7. a \in ArraysOf(Nat) /\ NoRepeat(a.pending) /\ Kept(a)
    BY DEF Sound
<1>8. b \in ArraysOf(Nat) /\ b.pending = a.pending /\ b.undo = a.undo
      /\ b.semval = a.semval /\ b.semadj = a.semadj /\ b.base = a.base /\ b.mixed = a.mixed
    BY <1>3, <1>6, <1>7 DEF ArraysOf
<1>9. Kept(b)
    BY <1>7, <1>8, KeptSame
<1>10. QED
    BY <1>7, <1>8, <1>9 DEF Sound

\* Process p can try ops on the array a.
Ready(a, p, ops) == Sound(a) /\ p \in Procs /\ Legal(ops) /\ UndoReady(a, p, ops)
MustWait(a, p, ops) == Result(Course(a, p, ops), ops) = "sleep"
Outcome(a, p, ops, do_undo, t) ==
    /\ t.result \in {"ok", "sleep", "EAGAIN", "ERANGE"}
    /\ Sound(t.a) /\ t.a.pending = a.pending /\ t.a.undo = a.undo /\ t.a.mixed = a.mixed
    /\ (t.result # "ok" \/ do_undo \/ ~Alter(ops)) => t.a.semval = a.semval
    /\ t.result = "sleep" => Blocking(ops)
    /\ t.result = "sleep" <=> MustWait(a, p, ops)

\* A sound array stays sound, whatever is tried on it; operations that fail, block or
\* are only tried leave no trace in its values.
LEMMA TryOutcome ==
    ASSUME NEW a, NEW p, NEW ops, NEW do_undo, Ready(a, p, ops)
    PROVE  Outcome(a, p, ops, do_undo, try_atomic_semop(a, p, ops, do_undo))
<1>1. PICK f : f = Course(a, p, ops)
    OBVIOUS
<1>2. PICK t : t = Tried(a, f, ops, do_undo)
    OBVIOUS
<1>3. try_atomic_semop(a, p, ops, do_undo) = t
    <2>1. PICK S : S = {Tried(a, g, ops, do_undo) : g \in {Course(a, p, ops)}}
        OBVIOUS
    <2>2. S = {t}
        BY <1>1, <1>2, <2>1, Zenon
    <2>3. QED
        BY <2>1, <2>2, TheOne, Zenon DEF try_atomic_semop
<1>4. Sound(a) /\ p \in Procs /\ Legal(ops) /\ UndoReady(a, p, ops) /\ Kept(a)
    BY DEF Ready, Sound
<1>5. a \in ArraysOf(Nat) /\ a \in ArraysOf(Int) /\ a.semval \in [Sems -> Nat]
    BY <1>4, NatArray DEF Sound
<1>6. Runs(a, p, ops, f)
    BY <1>1, <1>4, <1>5, CourseRuns
<1>7. ValuesRun(a, ops, f)
    BY <1>4, <1>6, CourseValues
<1>8. t.result = Result(f, ops)
      /\ t.a = IF Stops(f, ops) = {} /\ ~do_undo THEN f[Len(ops)] ELSE Unapply(a, f, ops)
    BY <1>2 DEF Tried
<1>9. /\ Result(f, ops) \in {"ok", "sleep", "EAGAIN", "ERANGE"}
      /\ Result(f, ops) = "ok" <=> Stops(f, ops) = {}
      /\ Result(f, ops) = "sleep" => Blocking(ops)
    BY <1>4, <1>5, <1>7, ResultIs
<1>10. /\ Sound(t.a) /\ t.a.pending = a.pending /\ t.a.undo = a.undo /\ t.a.mixed = a.mixed
       /\ (t.result # "ok" \/ do_undo \/ ~Alter(ops)) => t.a.semval = a.semval
    <2>1. CASE Stops(f, ops) = {} /\ ~do_undo
        <3>1. PICK b, n : n = Len(ops) /\ b = f[n]
            OBVIOUS
        <3>2. n \in 0 .. n /\ Len(ops) = n
            BY <1>4, <3>1 DEF Legal
        <3>3. Like(a, b) /\ StillKept(a, p, ops, b)
            BY <1>6, <3>1, <3>2 DEF Runs
        <3>4. /\ b \in ArraysOf(Int) /\ b.pending = a.pending /\ b.undo = a.undo /\ b.mixed = a.mixed
              /\ Kept(b)
            BY <1>4, <3>3 DEF Like, StillKept
        <3>5. b.semval \in [Sems -> Nat]
            BY <1>4, <1>5, <1>7, <2>1, <3>1, <3>2, CourseSign
        <3>6. ~Alter(ops) => b.semval = a.semval
            BY <1>4, <1>5, <1>7, <3>1, CourseStill
        <3>7. b \in ArraysOf(Nat)
            BY <3>4, <3>5, NatArray
        <3>8. Sound(b)
            BY <1>4, <3>4, <3>7 DEF Sound
        <3>9. t.a = b /\ t.result = "ok"
            BY <1>8, <1>9, <2>1, <3>1
        <3>10. QED
            BY <2>1, <3>4, <3>6, <3>8, <3>9
    <2>2. CASE ~(Stops(f, ops) = {} /\ ~do_undo)
        <3>1. t.a = Unapply(a, f, ops)
            BY <1>8, <2>2
        <3>2. QED
            BY <1>4, <1>6, <3>1, Unapplied
    <2>3. QED
        BY <2>1, <2>2
<1>11. Result(f, ops) = "sleep" <=> MustWait(a, p, ops)
    BY <1>1 DEF MustWait
<1>12. Outcome(a, p, ops, do_undo, t)
    BY <1>8, <1>9, <1>10, <1>11 DEF Outcome
<1>13. QED
    BY <1>3, <1>12

\* Waiting depends on the values only.
LEMMA MustWaitSame ==
    ASSUME NEW a \in ArraysOf(Nat), NEW b \in ArraysOf(Nat), a.semval = b.semval,
           NEW p \in Procs, NEW ops, Legal(ops)
    PROVE  MustWait(a, p, ops) <=> MustWait(b, p, ops)
<1>1. PICK f, g : f = Course(a, p, ops) /\ g = Course(b, p, ops)
    OBVIOUS
<1>2. a \in ArraysOf(Int) /\ b \in ArraysOf(Int)
    BY NatArray
<1>3. Runs(a, p, ops, f) /\ Runs(b, p, ops, g)
    BY <1>1, <1>2, CourseRuns
<1>4. ValuesRun(a, ops, f) /\ ValuesRun(b, ops, g)
    BY <1>3, CourseValues
<1>5. Result(f, ops) = Result(g, ops)
    BY <1>4, SameResult
<1>6. QED
    BY <1>1, <1>5 DEF MustWait

(***************************************************************************)
(* update_queue: one pending process.                                      *)
(***************************************************************************)
\* The queue of an array is replaced.
Requeued(a, b, s) ==
    /\ Sound(b) /\ b.pending = s /\ b.undo = a.undo /\ b.semval = a.semval
    /\ b.semadj = a.semadj /\ b.base = a.base /\ b.sempid = a.sempid /\ b.mixed = a.mixed
\* An array with another queue is as sound as before.
LEMMA Requeue ==
    ASSUME NEW a, NEW b, NEW s \in Seq(Procs), NoRepeat(s), Sound(a), b = [a EXCEPT !.pending = s]
    PROVE  Requeued(a, b, s)
<1>1. a \in ArraysOf(Nat) /\ Kept(a)
    BY DEF Sound
<1>2. /\ b \in ArraysOf(Nat) /\ b.pending = s /\ b.undo = a.undo /\ b.semval = a.semval
      /\ b.semadj = a.semadj /\ b.base = a.base /\ b.sempid = a.sempid /\ b.mixed = a.mixed
    BY <1>1 DEF ArraysOf
<1>3. Kept(b)
    BY <1>1, <1>2, KeptSame
<1>4. QED
    BY <1>2, <1>3 DEF Sound, Requeued

\* remove_from_queue takes one process off and leaves the rest.
LEMMA Dequeue ==
    ASSUME NEW a, NEW q, Sound(a)
    PROVE  /\ Requeued(a, remove_from_queue(a, q), RemoveFirst(a.pending, q))
           /\ RemoveFirst(a.pending, q) \in Seq(Procs)
           /\ ToSet(RemoveFirst(a.pending, q)) = ToSet(a.pending) \ {q}
           /\ q \notin ToSet(a.pending) => RemoveFirst(a.pending, q) = a.pending
<1>1. a.pending \in Seq(Procs) /\ NoRepeat(a.pending)
    BY ArrayFields DEF Sound
<1>2. PICK s : s = RemoveFirst(a.pending, q)
    OBVIOUS
<1>3. /\ s \in Seq(Procs) /\ NoRepeat(s) /\ ToSet(s) = ToSet(a.pending) \ {q}
      /\ q \notin ToSet(a.pending) => s = a.pending
    BY <1>1, <1>2, RemovedOne
<1>4. PICK b : b = [a EXCEPT !.pending = s]
    OBVIOUS
<1>5. remove_from_queue(a, q) = b
    BY <1>2, <1>4, Zenon DEF remove_from_queue
<1>6. Requeued(a, b, s)
    BY <1>3, <1>4, Requeue
<1>7. QED
    BY <1>2, <1>3, <1>5, <1>6

\* The history of an array is replaced.
Marked(a, b, m) ==
    /\ Sound(b) /\ b.pending = a.pending /\ b.undo = a.undo /\ b.semval = a.semval
    /\ b.mixed = m
\* An array with another history of walks is as sound as before.
LEMMA Mark ==
    ASSUME NEW a, NEW b, NEW m \in BOOLEAN, Sound(a), b = [a EXCEPT !.mixed = m]
    PROVE  Marked(a, b, m)
<1>1. a \in ArraysOf(Nat) /\ Kept(a) /\ NoRepeat(a.pending)
    BY DEF Sound
<1>2. /\ b \in ArraysOf(Nat) /\ b.pending = a.pending /\ b.undo = a.undo /\ b.semval = a.semval
      /\ b.semadj = a.semadj /\ b.base = a.base /\ b.mixed = m
    BY <1>1 DEF ArraysOf
<1>3. Kept(b)
    BY <1>1, <1>2, KeptSame
<1>4. QED
    BY <1>1, <1>2, <1>3 DEF Sound, Marked

\* What a walk works on; the undo structures are those of U.
WalkType ==
    [a : ArraysOf(Nat), status : [Procs -> Status], asleep : SUBSET Procs, done : BOOLEAN]
InWalk(U, v) == v \in WalkType /\ Sound(v.a) /\ v.a.undo = U
Able(U, q) == q \in Procs /\ Legal(sops[q]) /\ (Undone(sops[q]) # {} => q \in U)

\* A process is passed over, told to try again, or taken off the queue.
Passed(v, q, x) ==
    /\ x.a.pending = v.a.pending /\ x.a.semval = v.a.semval /\ x.a.mixed = v.a.mixed
    /\ x.status = v.status /\ x.asleep = v.asleep /\ x.done = v.done
    /\ v.done \/ v.status[q] = "retry" \/ MustWait(v.a, q, sops[q])
Retried(v, q, x) ==
    /\ ~v.done /\ v.status[q] # "retry" /\ Decrease(sops[q]) /\ ~MustWait(v.a, q, sops[q])
    /\ x.a.pending = v.a.pending /\ x.a.semval = v.a.semval /\ x.a.mixed = v.a.mixed
    /\ x.status = [v.status EXCEPT ![q] = "retry"]
    /\ x.asleep = v.asleep \ {q} /\ x.done = TRUE
Settled(v, q, x) ==
    \E r \in {"ok", "EAGAIN", "ERANGE"} :
        /\ ~v.done /\ v.status[q] # "retry"
        /\ x.a.pending = RemoveFirst(v.a.pending, q)
        /\ (r = "ok" /\ Alter(sops[q])) \/ v.a.mixed => x.a.mixed
        /\ (r # "ok" \/ ~Alter(sops[q])) => x.a.semval = v.a.semval
        /\ x.status = [v.status EXCEPT ![q] = r]
        /\ x.asleep = v.asleep \ {q} /\ x.done = v.done
Turned(v, q, x) == Passed(v, q, x) \/ Retried(v, q, x) \/ Settled(v, q, x)

\* One turn of update_queue passes a process, tells it to try, or settles its call.
LEMMA TurnEffect ==
    ASSUME NEW U, NEW v, NEW q, InWalk(U, v), Able(U, q)
    PROVE  InWalk(U, TryPending(v, q)) /\ Turned(v, q, TryPending(v, q))
<1>1. PICK alter, ops, x : alter = Decrease(sops[q]) /\ ops = sops[q] /\ x = TryPending(v, q)
    OBVIOUS
<1>2. PICK r : r = try_atomic_semop(v.a, q, ops, alter)
    OBVIOUS
<1>3. x = UpdateOne(v, q, alter, r)
    BY <1>1, <1>2, Zenon DEF TryPending
<1>4. v \in WalkType /\ Sound(v.a) /\ v.a.undo = U /\ q \in Procs /\ Legal(ops)
    BY <1>1 DEF InWalk, Able
<1>5. Ready(v.a, q, ops)
    BY <1>1, <1>4 DEF Ready, UndoReady, Able
<1>6. Outcome(v.a, q, ops, alter, r)
    BY <1>2, <1>5, TryOutcome
<1>7. /\ r.result \in {"ok", "sleep", "EAGAIN", "ERANGE"}
      /\ Sound(r.a) /\ r.a.pending = v.a.pending /\ r.a.undo = U /\ r.a.mixed = v.a.mixed
      /\ (r.result # "ok" \/ alter \/ ~Alter(ops)) => r.a.semval = v.a.semval
      /\ r.result = "sleep" <=> MustWait(v.a, q, ops)
    BY <1>4, <1>6 DEF Outcome
<1>8. /\ r.a \in ArraysOf(Nat) /\ v.status \in [Procs -> Status]
      /\ v.asleep \in SUBSET Procs /\ v.done \in BOOLEAN
    BY <1>4, <1>7 DEF Sound, WalkType
<1>9. CASE v.done \/ v.status[q] = "retry"
    <2>1. x = v
        BY <1>3, <1>9 DEF UpdateOne
    <2>2. Passed(v, q, x)
        BY <1>9, <2>1 DEF Passed
    <2>3. QED
        BY <1>1, <2>1, <2>2 DEF Turned
<1>10. CASE ~(v.done \/ v.status[q] = "retry") /\ r.result = "sleep"
    <2>1. x = [v EXCEPT !.a = r.a]
        BY <1>3, <1>10 DEF UpdateOne
    <2>2. /\ x \in WalkType /\ x.a = r.a /\ x.status = v.status /\ x.asleep = v.asleep
          /\ x.done = v.done
        BY <1>4, <1>8, <2>1 DEF WalkType
    <2>3. InWalk(U, x)
        BY <1>7, <2>2 DEF InWalk
    <2>4. Passed(v, q, x)
        BY <1>1, <1>7, <1>10, <2>2 DEF Passed
    <2>5. QED
        BY <1>1, <2>3, <2>4 DEF Turned
<1>11. CASE ~(v.done \/ v.status[q] = "retry") /\ r.result = "ok" /\ alter
    <2>1. x = [v EXCEPT !.a = r.a, !.status[q] = "retry", !.asleep = @ \ {q}, !.done = TRUE]
        BY <1>3, <1>11 DEF UpdateOne
    <2>2. /\ x \in WalkType /\ x.a = r.a /\ x.status = [v.status EXCEPT ![q] = "retry"]
          /\ x.asleep = v.asleep \ {q} /\ x.done = TRUE
        <3>1. PICK st : st = [v.status EXCEPT ![q] = "retry"]
            OBVIOUS
        <3>2. st \in [Procs -> Status]
            BY <1>4, <1>8, <3>1 DEF Status
        <3>3. x = [v EXCEPT !.a = r.a, !.status = st, !.asleep = @ \ {q}, !.done = TRUE]
            BY <2>1, <3>1, Zenon
        <3>4. QED
            BY <1>4, <1>8, <3>1, <3>2, <3>3 DEF WalkType
    <2>3. InWalk(U, x)
        BY <1>7, <2>2 DEF InWalk
    <2>4. Retried(v, q, x)
        BY <1>1, <1>7, <1>11, <2>2 DEF Retried
    <2>5. QED
        BY <1>1, <2>3, <2>4 DEF Turned
<1>12. CASE /\ ~(v.done \/ v.status[q] = "retry") /\ r.result # "sleep"
            /\ ~(r.result = "ok" /\ alter)
    <2>0. PICK c, m : c = remove_from_queue(r.a, q) /\ m = (c.mixed \/ (r.result = "ok" /\ Alter(ops)))
        OBVIOUS
    <2>1. PICK b, st : b = [c EXCEPT !.mixed = m] /\ st = [v.status EXCEPT ![q] = r.result]
        OBVIOUS
    <2>2. x = [v EXCEPT !.a = b, !.status[q] = r.result, !.asleep = @ \ {q}]
        <3>1. x = [v EXCEPT !.a = [remove_from_queue(r.a, q) EXCEPT
                                    !.mixed = @ \/ (r.result = "ok" /\ Alter(sops[q]))],
                            !.status[q] = r.result, !.asleep = @ \ {q}]
            BY <1>3, <1>12 DEF UpdateOne
        <3>2. QED
            BY <1>1, <2>0, <2>1, <3>1, Zenon
    <2>3. x = [v EXCEPT !.a = b, !.status = st, !.asleep = @ \ {q}]
        BY <2>1, <2>2, Zenon
    <2>4. Requeued(r.a, c, RemoveFirst(v.a.pending, q))
        BY <1>7, <2>0, Dequeue
    <2>5. /\ Sound(b) /\ b.pending = RemoveFirst(v.a.pending, q) /\ b.undo = U
          /\ b.semval = r.a.semval /\ b.mixed = m
        <3>1. m \in BOOLEAN
            BY <2>0, Zenon DEF Alter
        <3>2. /\ Marked(c, b, m) /\ c.pending = RemoveFirst(v.a.pending, q) /\ c.undo = U
              /\ c.semval = r.a.semval
            BY <1>7, <2>1, <2>4, <3>1, Mark DEF Requeued
        <3>3. QED
            BY <3>2 DEF Marked
    <2>6. st \in [Procs -> Status]
        BY <1>4, <1>7, <1>8, <1>12, <2>1 DEF Status
    <2>7. b \in ArraysOf(Nat)
        BY <2>5 DEF Sound
    <2>8. /\ x \in WalkType /\ x.a = b /\ x.status = st /\ x.asleep = v.asleep \ {q}
          /\ x.done = v.done
        BY <1>4, <1>8, <2>3, <2>6, <2>7 DEF WalkType
    <2>9. InWalk(U, x)
        BY <2>5, <2>8 DEF InWalk
    <2>10. Settled(v, q, x)
        <3>1. r.result \in {"ok", "EAGAIN", "ERANGE"}
            BY <1>7, <1>12
        <3>2. (r.result # "ok" \/ ~Alter(ops)) => x.a.semval = v.a.semval
            BY <1>7, <2>5, <2>8
        <3>3. (r.result = "ok" /\ Alter(ops)) \/ v.a.mixed => x.a.mixed
            <4>1. c.mixed = v.a.mixed
                BY <1>7, <2>4 DEF Requeued
            <4>2. (r.result = "ok" /\ Alter(ops)) \/ c.mixed => m
                BY <2>0, Zenon
            <4>3. QED
                BY <2>5, <2>8, <4>1, <4>2, Zenon
        <3>4. QED
            BY <1>1, <1>12, <2>1, <2>5, <2>8, <3>1, <3>2, <3>3 DEF Settled
    <2>11. QED
        BY <1>1, <2>9, <2>10 DEF Turned
<1>13. QED
    BY <1>7, <1>9, <1>10, <1>11, <1>12

(***************************************************************************)
(* update_queue: the walk.                                                 *)
(***************************************************************************)
WalkRun(U, w, queue, f) ==
    /\ f[0] = w
    /\ \A n \in 1 .. Len(queue) : Turned(f[n - 1], queue[n], f[n])
    /\ \A n \in 0 .. Len(queue) : InWalk(U, f[n])
WalkTurn(w, queue, f, n) ==
    IF n = 0 THEN w ELSE The({TryPending(v, queue[n]) : v \in {f[n - 1]}})

\* A turn of Walk is TryPending on what the last one left.
LEMMA TheTurn ==
    ASSUME NEW x, NEW q
    PROVE  The({TryPending(v, q) : v \in {x}}) = TryPending(x, q)
<1>1. PICK S : S = {TryPending(v, q) : v \in {x}}
    OBVIOUS
<1>2. S = {TryPending(x, q)}
    BY <1>1, Zenon
<1>3. QED
    BY <1>1, <1>2, TheOne, Zenon

\* Walk is the course of these turns.
LEMMA WalkRuns ==
    ASSUME NEW U, NEW w, NEW queue \in Seq(Procs), InWalk(U, w),
           \A i \in DOMAIN queue : Able(U, queue[i])
    PROVE  WalkRun(U, w, queue, Walk(w, queue))
<1>1. PICK n : n = Len(queue)
    OBVIOUS
<1>2. n \in Nat /\ DOMAIN queue = 1 .. n
    BY <1>1
<1>3. PICK A : A = {x \in WalkType : InWalk(U, x)}
    OBVIOUS
<1>4. w \in A
    BY <1>3 DEF InWalk
<1>5. ASSUME NEW x \in A, NEW i \in 1 .. n
      PROVE  TryPending(x, queue[i]) \in A /\ Turned(x, queue[i], TryPending(x, queue[i]))
    <2>1. InWalk(U, x) /\ Able(U, queue[i])
        BY <1>2, <1>3
    <2>2. InWalk(U, TryPending(x, queue[i])) /\ Turned(x, queue[i], TryPending(x, queue[i]))
        BY <2>1, TurnEffect
    <2>3. TryPending(x, queue[i]) \in WalkType
        BY <2>2 DEF InWalk
    <2>4. QED
        BY <1>3, <2>2, <2>3
<1>6. PICK f : /\ f \in [0 .. n -> A] /\ f[0] = w
               /\ \A i \in 1 .. n : f[i] = TryPending(f[i - 1], queue[i])
    <2>1. PICK turn : turn = [i \in 1 .. n |-> [x \in A |-> TryPending(x, queue[i])]]
        OBVIOUS
    <2>2. Loop(A, w, n, turn)
        BY <1>2, <1>4, <1>5, <2>1 DEF Loop
    <2>3. PICK f : CourseOf(A, w, n, turn, f)
        BY ONLY <2>2, Iterate, Zenon
    <2>4. f \in [0 .. n -> A] /\ f[0] = w /\ \A i \in 1 .. n : f[i] = turn[i][f[i - 1]]
        BY <2>3 DEF CourseOf
    <2>5. ASSUME NEW i \in 1 .. n PROVE f[i] = TryPending(f[i - 1], queue[i])
        <3>1. i - 1 \in 0 .. n
            BY <1>2
        <3>2. f[i - 1] \in A
            BY <2>4, <3>1
        <3>3. QED
            BY <2>1, <2>4, <3>2
    <2>6. QED
        BY <2>4, <2>5
<1>7. f = [i \in 0 .. n |-> WalkTurn(w, queue, f, i)]
    <2>1. ASSUME NEW i \in 0 .. n PROVE f[i] = WalkTurn(w, queue, f, i)
        <3>1. CASE i = 0
            BY <1>6, <3>1 DEF WalkTurn
        <3>2. CASE i # 0
            <4>1. i \in 1 .. n
                BY <1>2, <3>2
            <4>2. WalkTurn(w, queue, f, i) = TryPending(f[i - 1], queue[i])
                BY <3>2, TheTurn, Zenon DEF WalkTurn
            <4>3. QED
                BY <1>6, <4>1, <4>2
        <3>3. QED
            BY <3>1, <3>2
    <2>2. QED
        BY <1>6, <2>1
<1>8. PICK g : g = [i \in 0 .. n |-> WalkTurn(w, queue, g, i)] /\ Walk(w, queue) = g
    <2> DEFINE G == CHOOSE h : h = [i \in 0 .. Len(queue) |->
                        IF i = 0 THEN w ELSE The({TryPending(v, queue[i]) : v \in {h[i - 1]}})]
    <2>1. Walk(w, queue) = G
        BY Zenon DEF Walk
    <2>2. \E h : h = [i \in 0 .. Len(queue) |->
             IF i = 0 THEN w ELSE The({TryPending(v, queue[i]) : v \in {h[i - 1]}})]
        BY <1>1, <1>7, Zenon DEF WalkTurn
    <2>3. G = [i \in 0 .. Len(queue) |->
             IF i = 0 THEN w ELSE The({TryPending(v, queue[i]) : v \in {G[i - 1]}})]
        BY <2>2, Zenon
    <2> HIDE DEF G
    <2>4. QED
        BY <2>1, <2>3, <1>1, Zenon DEF WalkTurn
<1>9. g[0] = w /\ \A i \in 1 .. n : g[i] = TryPending(g[i - 1], queue[i])
    <2>1. \A i \in 0 .. n : g[i] = WalkTurn(w, queue, g, i)
        BY <1>8, Zenon
    <2>2. 0 \in 0 .. n /\ \A i \in 1 .. n : i \in 0 .. n /\ i # 0
        BY <1>2
    <2>3. g[0] = w
        BY <2>1, <2>2 DEF WalkTurn
    <2>4. ASSUME NEW i \in 1 .. n PROVE g[i] = TryPending(g[i - 1], queue[i])
        <3>1. g[i] = The({TryPending(v, queue[i]) : v \in {g[i - 1]}})
            BY <2>1, <2>2, Zenon DEF WalkTurn
        <3>2. QED
            BY <3>1, TheTurn, Zenon
    <2>5. QED
        BY <2>3, <2>4
<1>10. \A i \in 0 .. n : g[i] \in A
    <2>1. PICK S : S = {i \in 0 .. n : g[i] \in A}
        OBVIOUS
    <2>2. 0 \in S
        BY <1>2, <1>4, <1>9, <2>1
    <2>3. ASSUME NEW i \in 1 .. n, i - 1 \in S PROVE i \in S
        <3>1. g[i - 1] \in A
            BY <2>1, <2>3
        <3>2. g[i] \in A
            BY <1>5, <1>9, <3>1
        <3>3. QED
            BY <1>2, <2>1, <3>2
    <2>4. \A i \in 0 .. n : i \in S
        BY <1>2, <2>2, <2>3, TurnByTurn
    <2>5. QED
        BY <2>1, <2>4
<1>11. ASSUME NEW i \in 1 .. n PROVE Turned(g[i - 1], queue[i], g[i])
    <2>1. i - 1 \in 0 .. n
        BY <1>2
    <2>2. QED
        BY <1>5, <1>9, <1>10, <2>1
<1>12. \A i \in 0 .. n : InWalk(U, g[i])
    BY <1>3, <1>10
<1>13. QED
    BY <1>1, <1>8, <1>9, <1>11, <1>12 DEF WalkRun

\* What a walk from w may have done when it is at v: who stays in the queue has its
\* status or is told to try again, who has left it has a result, and nobody else is
\* touched.
StatusKept(w, v, q) ==
    /\ q \notin ToSet(w.a.pending) => v.status[q] = w.status[q]
    /\ q \in ToSet(v.a.pending) =>
          v.status[q] = w.status[q] \/ (v.status[q] = "retry" /\ Decrease(sops[q]))
    /\ q \in ToSet(w.a.pending) \ ToSet(v.a.pending) => v.status[q] \in {"ok", "EAGAIN", "ERANGE"}
Walked(w, v) ==
    /\ Sound(v.a) /\ v.a.undo = w.a.undo
    /\ ToSet(v.a.pending) \subseteq ToSet(w.a.pending)
    /\ v.status \in [Procs -> Status] /\ v.asleep \subseteq w.asleep
    /\ \A q \in Procs : StatusKept(w, v, q)
Ahead(queue, v, n) == \A m \in n + 1 .. Len(queue) : queue[m] \in ToSet(v.a.pending)

\* A turn keeps what a walk has kept so far.
LEMMA WalkedTurn ==
    ASSUME NEW U, NEW w, NEW queue \in Seq(Procs), NoRepeat(queue), NEW n \in 1 .. Len(queue),
           w.a.undo = U, NEW v, NEW x, InWalk(U, v), InWalk(U, x),
           Walked(w, v), Ahead(queue, v, n - 1), Turned(v, queue[n], x)
    PROVE  Walked(w, x) /\ Ahead(queue, x, n)
<1>1. PICK q : q = queue[n]
    OBVIOUS
<1>2. q \in Procs /\ n \in Nat /\ Len(queue) \in Nat /\ DOMAIN queue = 1 .. Len(queue)
    BY <1>1
<1>3. q \in ToSet(v.a.pending)
    <2>1. n \in (n - 1) + 1 .. Len(queue)
        BY <1>2
    <2>2. QED
        BY <1>1, <2>1 DEF Ahead
<1>4. /\ Sound(x.a) /\ x.a.undo = w.a.undo /\ x.status \in [Procs -> Status]
      /\ v.status \in [Procs -> Status] /\ Sound(v.a)
    BY DEF InWalk, WalkType
<1>5. /\ ToSet(v.a.pending) \subseteq ToSet(w.a.pending) /\ v.asleep \subseteq w.asleep
      /\ \A p \in Procs : StatusKept(w, v, p)
    BY DEF Walked
<1>6. ASSUME NEW m \in n + 1 .. Len(queue)
      PROVE  queue[m] \in ToSet(v.a.pending) /\ queue[m] # q
    <2>1. m \in (n - 1) + 1 .. Len(queue) /\ m \in 1 .. Len(queue) /\ m # n
        BY <1>2
    <2>2. QED
        BY <1>1, <1>2, <2>1 DEF Ahead, NoRepeat
<1>7. CASE Passed(v, q, x)
    BY <1>4, <1>5, <1>6, <1>7 DEF Passed, Walked, Ahead, StatusKept
<1>8. CASE Retried(v, q, x)
    <2>1. /\ x.a.pending = v.a.pending /\ x.status = [v.status EXCEPT ![q] = "retry"]
          /\ x.asleep = v.asleep \ {q} /\ Decrease(sops[q])
        BY <1>8 DEF Retried
    <2>2. ASSUME NEW p \in Procs PROVE StatusKept(w, x, p)
        <3>1. StatusKept(w, v, p)
            BY <1>5
        <3>2. CASE p = q
            <4>1. x.status[p] = "retry"
                BY <1>2, <1>4, <2>1, <3>2
            <4>2. QED
                BY <1>3, <1>5, <2>1, <3>2, <4>1 DEF StatusKept
        <3>3. CASE p # q
            <4>1. x.status[p] = v.status[p]
                BY <1>4, <2>1, <3>3
            <4>2. QED
                BY <2>1, <3>1, <4>1 DEF StatusKept
        <3>4. QED
            BY <3>2, <3>3
    <2>3. QED
        BY <1>4, <1>5, <1>6, <2>1, <2>2 DEF Walked, Ahead
<1>9. CASE Settled(v, q, x)
    <2>1. PICK r \in {"ok", "EAGAIN", "ERANGE"} :
             /\ x.a.pending = RemoveFirst(v.a.pending, q)
             /\ x.status = [v.status EXCEPT ![q] = r] /\ x.asleep = v.asleep \ {q}
        BY <1>9 DEF Settled
    <2>2. ToSet(x.a.pending) = ToSet(v.a.pending) \ {q}
        BY <1>4, <2>1, Dequeue, ZenonT(60)
    <2>3. ASSUME NEW p \in Procs PROVE StatusKept(w, x, p)
        <3>1. StatusKept(w, v, p)
            BY <1>5
        <3>2. CASE p = q
            <4>1. x.status[p] = r
                BY <1>2, <1>4, <2>1, <3>2
            <4>2. QED
                BY <1>3, <1>5, <2>2, <3>2, <4>1 DEF StatusKept
        <3>3. CASE p # q
            <4>1. x.status[p] = v.status[p]
                BY <1>4, <2>1, <3>3
            <4>2. QED
                BY <2>2, <3>1, <3>3, <4>1 DEF StatusKept
        <3>4. QED
            BY <3>2, <3>3
    <2>4. Ahead(queue, x, n)
        BY <1>6, <2>2 DEF Ahead
    <2>5. QED
        BY <1>4, <1>5, <2>1, <2>2, <2>3, <2>4 DEF Walked
<1>10. QED
    BY <1>1, <1>7, <1>8, <1>9 DEF Turned
\* While no process has its operations done that change a value, those the walk has
\* passed must wait, unless one was told to try that need not.
Held(v, q) == v.status[q] # "retry" => MustWait(v.a, q, sops[q])
Freed(v, q) == v.status[q] = "retry" /\ ~MustWait(v.a, q, sops[q])
SomeFreed(v) == \E q \in ToSet(v.a.pending) : Freed(v, q)
Calm(w, queue, v, n) == ~v.a.mixed =>
    /\ v.a.semval = w.a.semval
    /\ v.done => SomeFreed(v)
    /\ ~v.done => \A m \in 1 .. n : queue[m] \in ToSet(v.a.pending) => Held(v, queue[m])

\* A turn keeps the wake-ups complete as far as the walk has come.
LEMMA CalmTurn ==
    ASSUME NEW U, NEW w, NEW queue \in Seq(Procs), NoRepeat(queue), NEW n \in 1 .. Len(queue),
           NEW v, NEW x, InWalk(U, v), InWalk(U, x), \A i \in DOMAIN queue : Able(U, queue[i]),
           Ahead(queue, v, n - 1), ToSet(v.a.pending) \subseteq ToSet(queue),
           Calm(w, queue, v, n - 1), Turned(v, queue[n], x)
    PROVE  Calm(w, queue, x, n)
<1>0. SUFFICES ASSUME ~x.a.mixed PROVE Calm(w, queue, x, n)
    BY DEF Calm
<1>1. PICK q : q = queue[n]
    OBVIOUS
<1>2. q \in Procs /\ n \in Nat /\ Len(queue) \in Nat /\ DOMAIN queue = 1 .. Len(queue)
    BY <1>1
<1>3. q \in ToSet(v.a.pending)
    <2>1. n \in (n - 1) + 1 .. Len(queue)
        BY <1>2
    <2>2. QED
        BY <1>1, <2>1 DEF Ahead
<1>4. /\ x.a \in ArraysOf(Nat) /\ v.a \in ArraysOf(Nat) /\ Sound(v.a)
      /\ x.status \in [Procs -> Status] /\ v.status \in [Procs -> Status]
    BY DEF InWalk, WalkType
<1>5. \A m \in 1 .. n : m \in 1 .. n - 1 \/ m = n
    BY <1>2
<1>6. \A m \in 1 .. n - 1 : queue[m] # q
    <2>1. \A m \in 1 .. n - 1 : m \in 1 .. Len(queue) /\ m # n
        BY <1>2
    <2>2. QED
        BY <1>1, <1>2, <2>1 DEF NoRepeat
<1>7. x.a.semval = v.a.semval /\ ~v.a.mixed
    <2>1. CASE Passed(v, q, x) \/ Retried(v, q, x)
        BY <1>0, <2>1 DEF Passed, Retried
    <2>2. CASE Settled(v, q, x)
        BY <1>0, <2>2 DEF Settled
    <2>3. QED
        BY <1>1, <2>1, <2>2 DEF Turned
<1>8. ASSUME NEW p \in ToSet(queue) PROVE MustWait(x.a, p, sops[p]) <=> MustWait(v.a, p, sops[p])
    <2>1. Able(U, p)
        BY DEF ToSet
    <2>2. p \in Procs /\ Legal(sops[p])
        BY <2>1 DEF Able
    <2>3. QED
        BY <1>4, <1>7, <2>2, MustWaitSame
<1>9. \A m \in 1 .. n : queue[m] \in ToSet(queue)
    <2>1. \A m \in 1 .. n : m \in DOMAIN queue
        BY <1>2
    <2>2. QED
        BY <2>1, Zenon DEF ToSet
<1>10. CASE Passed(v, q, x)
    <2>1. /\ x.a.pending = v.a.pending /\ x.status = v.status /\ x.done = v.done
          /\ v.done \/ v.status[q] = "retry" \/ MustWait(v.a, q, sops[q])
        BY <1>10 DEF Passed
    <2>2. ASSUME x.done PROVE SomeFreed(x)
        BY <1>7, <1>8, <2>1, <2>2 DEF Calm, SomeFreed, Freed
    <2>3. ASSUME ~x.done, NEW m \in 1 .. n, queue[m] \in ToSet(x.a.pending)
          PROVE  Held(x, queue[m])
        <3>1. Held(v, queue[m])
            <4>1. CASE m = n
                BY <1>1, <2>1, <2>3, <4>1 DEF Held
            <4>2. CASE m \in 1 .. n - 1
                BY <1>7, <2>1, <2>3, <4>2 DEF Calm
            <4>3. QED
                BY <1>5, <4>1, <4>2
        <3>2. QED
            BY <1>8, <1>9, <2>1, <3>1 DEF Held
    <2>4. QED
        BY <1>7, <2>2, <2>3 DEF Calm
<1>11. CASE Retried(v, q, x)
    <2>1. /\ x.a.pending = v.a.pending /\ x.status = [v.status EXCEPT ![q] = "retry"] /\ x.done
          /\ ~MustWait(v.a, q, sops[q])
        BY <1>11 DEF Retried
    <2>2. Freed(x, q)
        BY <1>1, <1>2, <1>4, <1>8, <1>9, <2>1 DEF Freed
    <2>3. SomeFreed(x)
        BY <1>3, <2>1, <2>2 DEF SomeFreed
    <2>4. QED
        BY <1>7, <2>1, <2>3 DEF Calm
<1>12. CASE Settled(v, q, x)
    <2>1. PICK r \in {"ok", "EAGAIN", "ERANGE"} :
             /\ ~v.done /\ x.a.pending = RemoveFirst(v.a.pending, q)
             /\ x.status = [v.status EXCEPT ![q] = r] /\ x.done = v.done
        BY <1>12 DEF Settled
    <2>2. ToSet(x.a.pending) = ToSet(v.a.pending) \ {q}
        BY <1>4, <2>1, Dequeue
    <2>3. ASSUME NEW m \in 1 .. n, queue[m] \in ToSet(x.a.pending)
          PROVE  Held(x, queue[m])
        <3>1. queue[m] # q /\ queue[m] \in ToSet(v.a.pending) /\ m \in 1 .. n - 1
            BY <1>1, <1>5, <2>2, <2>3
        <3>2. Held(v, queue[m])
            BY <1>7, <2>1, <3>1 DEF Calm
        <3>3. x.status[queue[m]] = v.status[queue[m]]
            <4>1. queue[m] \in Procs
                BY <1>2, <3>1
            <4>2. QED
                BY <1>4, <2>1, <3>1, <4>1
        <3>4. QED
            BY <1>8, <1>9, <3>2, <3>3 DEF Held
    <2>4. QED
        BY <1>7, <2>1, <2>3 DEF Calm
<1>13. QED
    BY <1>1, <1>10, <1>11, <1>12 DEF Turned

\* The whole of update_queue.
Alert(a, st) ==
    \/ \A q \in ToSet(a.pending) : st[q] # "retry" => MustWait(a, q, sops[q])
    \/ \E q \in ToSet(a.pending) : st[q] = "retry" /\ ~MustWait(a, q, sops[q])
    \/ a.mixed

\* update_queue keeps the array sound and leaves the wake-ups complete.
LEMMA WalkEffect ==
    ASSUME NEW w, w \in WalkType, Sound(w.a), ~w.done,
           \A q \in ToSet(w.a.pending) : Able(w.a.undo, q)
    PROVE  /\ Walked(w, update_queue(w))
           /\ Alert(update_queue(w).a, update_queue(w).status)
<1>0. PICK w0, a0 : a0 = [w.a EXCEPT !.mixed = FALSE] /\ w0 = [w EXCEPT !.a = a0]
    OBVIOUS
<1>1. PICK U, queue, n, f : U = w.a.undo /\ queue = w.a.pending /\ n = Len(queue) /\ f = Walk(w0, queue)
    OBVIOUS
<1>2. /\ queue \in Seq(Procs) /\ NoRepeat(queue) /\ InWalk(U, w0) /\ ~w0.done
      /\ w0.a.undo = U /\ w0.a.pending = queue /\ w0.status = w.status /\ w0.asleep = w.asleep
    <2>1. Marked(w.a, a0, FALSE)
        BY <1>0, Mark
    <2>2. Sound(a0) /\ a0.pending = queue /\ a0.undo = U /\ a0 \in ArraysOf(Nat)
        BY <1>1, <2>1 DEF Marked, Sound
    <2>3. /\ w0 \in WalkType /\ w0.a = a0 /\ w0.done = w.done /\ w0.status = w.status
          /\ w0.asleep = w.asleep
        BY <1>0, <2>2 DEF WalkType
    <2>4. queue \in Seq(Procs) /\ NoRepeat(queue)
        BY <1>1, ArrayFields DEF Sound
    <2>5. QED
        BY <2>2, <2>3, <2>4 DEF InWalk
<1>3. n \in Nat /\ DOMAIN queue = 1 .. n
    BY <1>1, <1>2
<1>4. \A i \in DOMAIN queue : queue[i] \in ToSet(queue)
    BY Zenon DEF ToSet
<1>5. \A i \in DOMAIN queue : Able(U, queue[i])
    BY <1>1, <1>4
<1>6. WalkRun(U, w0, queue, f)
    BY <1>1, <1>2, <1>5, WalkRuns
<1>7. update_queue(w) = f[n]
    BY <1>0, <1>1, Zenon DEF update_queue
<1>8. PICK S : S = {i \in 0 .. n : Walked(w0, f[i]) /\ Ahead(queue, f[i], i)}
    OBVIOUS
<1>9. 0 \in S
    <2>1. Walked(w0, w0)
        <3>1. w0.status \in [Procs -> Status] /\ Sound(w0.a)
            BY <1>2 DEF InWalk, WalkType
        <3>2. QED
            BY <3>1 DEF Walked, StatusKept
    <2>2. Ahead(queue, w0, 0)
        <3>1. \A m \in 0 + 1 .. n : m \in DOMAIN queue
            BY <1>3
        <3>2. QED
            BY <1>1, <1>2, <1>4, <3>1 DEF Ahead
    <2>3. f[0] = w0 /\ 0 \in 0 .. n
        BY <1>3, <1>6 DEF WalkRun
    <2>4. QED
        BY <1>8, <2>1, <2>2, <2>3
<1>10. ASSUME NEW i \in 1 .. n, i - 1 \in S PROVE i \in S
    <2>1. PICK v, x : v = f[i - 1] /\ x = f[i]
        OBVIOUS
    <2>2. Walked(w0, v) /\ Ahead(queue, v, i - 1) /\ i - 1 \in 0 .. n /\ i \in 0 .. n
        BY <1>3, <1>8, <1>10, <2>1
    <2>3. InWalk(U, v) /\ InWalk(U, x) /\ Turned(v, queue[i], x)
        BY <1>1, <1>6, <2>1, <2>2 DEF WalkRun
    <2>4. Walked(w0, x) /\ Ahead(queue, x, i)
        BY <1>1, <1>2, <2>2, <2>3, WalkedTurn
    <2>5. QED
        BY <1>8, <2>1, <2>2, <2>4
<1>11. \A i \in 0 .. n : i \in S
    BY <1>3, <1>9, <1>10, TurnByTurn
<1>12. n \in 0 .. n
    BY <1>3
<1>13. Walked(w0, f[n])
    BY <1>8, <1>11, <1>12
<1>14. Alert(f[n].a, f[n].status)
    <2>1. PICK R : R = {i \in 0 .. n : Calm(w0, queue, f[i], i)}
        OBVIOUS
    <2>2. 0 \in R
        <3>1. f[0] = w0
            BY <1>6 DEF WalkRun
        <3>2. Calm(w0, queue, w0, 0)
            BY <1>2 DEF Calm
        <3>3. QED
            BY <1>3, <2>1, <3>1, <3>2
    <2>3. ASSUME NEW i \in 1 .. n, i - 1 \in R PROVE i \in R
        <3>1. PICK v, x : v = f[i - 1] /\ x = f[i]
            OBVIOUS
        <3>2. i - 1 \in 0 .. n /\ i \in 0 .. n
            BY <1>3
        <3>3. Walked(w0, v) /\ Ahead(queue, v, i - 1) /\ Calm(w0, queue, v, i - 1)
            BY <1>8, <1>11, <2>1, <2>3, <3>1, <3>2
        <3>4. InWalk(U, v) /\ InWalk(U, x) /\ Turned(v, queue[i], x)
            BY <1>1, <1>6, <3>1, <3>2 DEF WalkRun
        <3>5. ToSet(v.a.pending) \subseteq ToSet(queue)
            BY <1>2, <3>3 DEF Walked
        <3>7. Calm(w0, queue, x, i)
            BY <1>1, <1>2, <1>5, <3>3, <3>4, <3>5, CalmTurn
        <3>8. QED
            BY <2>1, <3>1, <3>2, <3>7
    <2>4. Calm(w0, queue, f[n], n)
        <3>1. \A i \in 0 .. n : i \in R
            BY <1>3, <2>2, <2>3, TurnByTurn
        <3>2. QED
            BY <1>12, <2>1, <3>1
    <2>5. PICK v : v = f[n]
        OBVIOUS
    <2>6. ToSet(v.a.pending) \subseteq ToSet(queue)
        BY <1>2, <1>13, <2>5 DEF Walked
    <2>7. CASE v.a.mixed
        BY <2>5, <2>7 DEF Alert
    <2>8. CASE v.done /\ ~v.a.mixed
        BY <2>4, <2>5, <2>8 DEF Calm, SomeFreed, Freed, Alert
    <2>9. CASE ~v.done /\ ~v.a.mixed
        <3>1. ASSUME NEW q \in ToSet(v.a.pending) PROVE Held(v, q)
            <4>1. PICK m \in 1 .. n : q = queue[m]
                BY <1>3, <2>6 DEF ToSet
            <4>2. QED
                BY <2>4, <2>5, <2>9, <4>1 DEF Calm
        <3>2. QED
            BY <2>5, <3>1 DEF Held, Alert
    <2>10. QED
        BY <2>7, <2>8, <2>9
<1>15. Walked(w, f[n])
    BY <1>1, <1>2, <1>13 DEF Walked, StatusKept
<1>16. QED
    BY <1>7, <1>14, <1>15

(***************************************************************************)
(* The inductive invariant.                                                *)
(***************************************************************************)
\* Slot i of the table holds array k; an identifier names it, or is its own.
At(i, k) == ids.entries[i] # NULL /\ ids.entries[i].obj = k
InTable(k) == \E i \in Slots : At(i, k)
Names(id, k) == At(Lid(id), k)
Exact(id, k) == Names(id, k) /\ ~sem_checkid(id)

\* Every array is in one slot at most, and the semaphores in use are those of the
\* arrays in the table.
Tabled ==
    /\ Table(ids) /\ narrs \in 0 .. MaxArrays
    /\ \A i, j \in Slots, k \in Arrays : At(i, k) /\ At(j, k) => i = j
    /\ \A k \in Arrays : InTable(k) => k < narrs
    /\ used_sems = NSems * Cardinality(Live(ids)) /\ used_sems <= SEMMNS

Undos == [semid : SemIds \cup {-1}, arr : Arrays]
Typed ==
    /\ arr \in [Arrays -> ArraysOf(Nat)]
    /\ pc \in [Procs -> PCs] /\ asleep \in SUBSET Procs
    /\ cur \in [Procs -> Arrays \cup {NULL}] /\ semid \in [Procs -> SemIds]
    /\ sops \in [Procs -> SopLists \cup {<<>>}] /\ status \in [Procs -> Status]
    /\ io \in [Procs -> {<<>>} \cup [Sems -> Vals]]
    /\ semundo \in [Procs -> Seq(Undos)]

\* What a removed array held is gone.
Stored == \A k \in Arrays : Sound(arr[k]) /\ (~InTable(k) => arr[k] = newary)

\* A process is in the queue of the array it waits for, and in no other.
Waiting(p) == pc[p] = "sleep" /\ status[p] \in {"EINTR", "retry"}
Queued(p) == \A k \in Arrays : p \in ToSet(arr[k].pending) <=> Waiting(p) /\ cur[p] = k

Placed(p) ==
    /\ pc[p] # "sleep" => status[p] = "ok"
    /\ pc[p] \in {"sleep", "alloc"} => Legal(sops[p]) /\ sops[p] \in SopLists /\ cur[p] \in Arrays
    /\ pc[p] = "setall" => io[p] \in [Sems -> Vals] /\ cur[p] \in Arrays
Waits(p) == Waiting(p) =>
    /\ Names(semid[p], cur[p]) /\ UndoReady(arr[cur[p]], p, sops[p])
    /\ Blocking(sops[p]) /\ (status[p] = "retry" => Decrease(sops[p]))

\* The undo structures of a process and the arrays it is in the undo list of.
OneEach(L) ==
    \A m, n \in DOMAIN L : L[m].semid # -1 /\ L[n].semid # -1 /\ L[m].arr = L[n].arr => m = n
Covers(L, k) == \E n \in DOMAIN L : L[n].arr = k /\ L[n].semid # -1
Backed(p, u) == u.semid # -1 => Exact(u.semid, u.arr) /\ p \in arr[u.arr].undo
Listed(p) ==
    /\ \A n \in DOMAIN semundo[p] : Backed(p, semundo[p][n])
    /\ OneEach(semundo[p])
    /\ \A k \in Arrays : p \in arr[k].undo => Covers(semundo[p], k)
Owns(p) ==
    /\ Listed(p)
    /\ pc[p] = "alloc" => \A n \in DOMAIN semundo[p] : semundo[p][n].semid # semid[p]
    /\ pc[p] = "adjust" => semundo[p] # <<>> /\ Head(semundo[p]).semid \in {-1, semid[p]}

\* The wake-ups of every array are complete.
Alerted == \A k \in Arrays : Alert(arr[k], status)

ProcInv(p) == Queued(p) /\ Placed(p) /\ Waits(p) /\ Owns(p)
Inv == Tabled /\ Typed /\ Stored /\ Alerted /\ \A p \in Procs : ProcInv(p)

(***************************************************************************)
(* The table.                                                              *)
(***************************************************************************)
LEMMA IdSlot ==
    /\ \A id \in SemIds : Lid(id) \in Slots /\ id \in Nat
    /\ 0 \in SemIds
    /\ \A id, jd \in SemIds : Lid(id) = Lid(jd) /\ id \div SEQ_MULTIPLIER = jd \div SEQ_MULTIPLIER
                                 => id = jd
<1>1. IPCMNI \in Nat \ {0} /\ SeqMax \in Nat
    BY UtilAssumption
<1>2. IPCMNI * (SeqMax + 1) \in Nat /\ IPCMNI * (SeqMax + 1) >= IPCMNI
    BY <1>1, SMT
<1>3. \A id \in SemIds : id \in Nat
    BY <1>2, SMT DEF SemIds
<1>4. PICK M : M = IPCMNI
    OBVIOUS
<1>5. M \in Nat \ {0}
    BY <1>1, <1>4
<1>6. \A n \in Nat : n % M \in 0 .. M - 1 /\ n \div M \in Nat /\ n = M * (n \div M) + (n % M)
    BY ONLY <1>5, SMT
<1>7. \A id \in SemIds : Lid(id) \in Slots
    BY <1>3, <1>4, <1>6 DEF Lid, SEQ_MULTIPLIER, Slots
<1>8. 0 \in SemIds
    BY <1>1, <1>2, SMT DEF SemIds
<1>9. ASSUME NEW id \in SemIds, NEW jd \in SemIds, Lid(id) = Lid(jd),
             id \div SEQ_MULTIPLIER = jd \div SEQ_MULTIPLIER
      PROVE  id = jd
    <2>1. id = M * (id \div M) + (id % M) /\ jd = M * (jd \div M) + (jd % M)
        BY <1>3, <1>6
    <2>2. id % M = jd % M /\ id \div M = jd \div M
        BY <1>4, <1>9 DEF Lid, SEQ_MULTIPLIER
    <2>3. QED
        BY <2>1, <2>2, Zenon
<1>10. QED
    BY <1>3, <1>7, <1>8, <1>9

\* The fields of a table.
LEMMA TableParts ==
    ASSUME NEW tab, Table(tab)
    PROVE  /\ tab.size = IPCMNI /\ tab.seq \in 0 .. SeqMax
           /\ tab.entries \in [Slots -> Perms \cup {NULL}]
BY DEF Table

\* semget takes a free slot.
LEMMA FreeSlot ==
    ASSUME NEW tab, Table(tab), FreeSlots(tab, tab.size) # {}
    PROVE  FirstFree(tab, tab.size) \in Slots /\ tab.entries[FirstFree(tab, tab.size)] = NULL
<1>1. PICK S : S = FreeSlots(tab, tab.size)
    OBVIOUS
<1>2. S \subseteq Slots /\ S \in SUBSET Nat /\ \A i \in S : tab.entries[i] = NULL
    BY <1>1, TableParts, UtilAssumption DEF FreeSlots, Slots
<1>3. FirstFree(tab, tab.size) = CHOOSE i \in S : \A j \in S : i <= j
    BY <1>1 DEF FirstFree
<1>4. \E x \in S : \A y \in S : x <= y
    BY <1>1, <1>2, LeastNumber
<1>5. FirstFree(tab, tab.size) \in S
    BY <1>3, <1>4
<1>6. QED
    BY <1>2, <1>5

\* The table with another entry in slot l.
Replaced(tab, new, l, e) == new.entries = [tab.entries EXCEPT ![l] = e]

\* ipc_addid fills a free slot.
LEMMA AddEffect ==
    ASSUME NEW tab, Table(tab), NEW k \in Arrays, FreeSlots(tab, tab.size) # {},
           NEW new, new = ipc_addid(tab, IPC_PRIVATE, k)
    PROVE  /\ Table(new)
           /\ \E l \in Slots : \E e \in Perms :
                 tab.entries[l] = NULL /\ e.obj = k /\ Replaced(tab, new, l, e)
<1>1. PICK l : l = FirstFree(tab, tab.size)
    OBVIOUS
<1>2. l \in Slots /\ tab.entries[l] = NULL
    BY <1>1, FreeSlot
<1>3. PICK n, x : tab \in [size : {IPCMNI}, in_use : {n}, max_id : {x}, seq : 0 .. SeqMax,
                           entries : [Slots -> Perms \cup {NULL}]]
    BY DEF Table
<1>4. PICK n1, x1, q1 : n1 = tab.in_use + 1 /\ x1 = (IF l > tab.max_id THEN l ELSE tab.max_id)
                        /\ q1 = NextSeq(tab.seq)
    OBVIOUS
<1>5. q1 \in 0 .. SeqMax
    <2>1. tab.seq \in 0 .. SeqMax
        BY <1>3
    <2>2. QED
        BY <1>4, <2>1, UtilAssumption, SMT DEF NextSeq
<1>6. PICK e : e = [key |-> IPC_PRIVATE, seq |-> tab.seq, obj |-> k]
    OBVIOUS
<1>7. e \in Perms /\ e.obj = k
    BY <1>3, <1>6 DEF Perms
<1>8. PICK mid : mid = [tab EXCEPT !.in_use = n1, !.max_id = x1, !.seq = q1]
    OBVIOUS
<1>9. mid \in [size : {IPCMNI}, in_use : {n1}, max_id : {x1}, seq : 0 .. SeqMax,
               entries : [Slots -> Perms \cup {NULL}]]
      /\ mid.entries = tab.entries
    BY <1>3, <1>5, <1>8
<1>10. new = [mid EXCEPT !.entries[l] = e]
    <2>1. ClaimSlot(tab, l) = mid
        BY <1>4, <1>8 DEF ClaimSlot
    <2>2. new = PublishSlot(ClaimSlot(tab, l), l, e)
        BY <1>1, <1>6 DEF ipc_addid
    <2>3. QED
        BY <2>1, <2>2 DEF PublishSlot
<1>11. new \in [size : {IPCMNI}, in_use : {n1}, max_id : {x1}, seq : 0 .. SeqMax,
                entries : [Slots -> Perms \cup {NULL}]]
       /\ new.entries = [tab.entries EXCEPT ![l] = e]
    BY <1>2, <1>7, <1>9, <1>10
<1>12. Table(new)
    BY <1>11 DEF Table
<1>13. QED
    BY <1>2, <1>7, <1>11, <1>12 DEF Replaced

\* IPC_RMID empties one.
LEMMA RemoveEffect ==
    ASSUME NEW tab, Table(tab), NEW l \in Slots, NEW new, new = ipc_rmid(tab, l)
    PROVE  Table(new) /\ Replaced(tab, new, l, NULL)
<1>1. PICK n, x : tab \in [size : {IPCMNI}, in_use : {n}, max_id : {x}, seq : 0 .. SeqMax,
                           entries : [Slots -> Perms \cup {NULL}]]
    BY DEF Table
<1>2. PICK n1, x1, e : n1 = tab.in_use - 1
                    /\ x1 = (IF l = tab.max_id THEN LastUsedBelow(tab, l) ELSE tab.max_id)
                    /\ e = [tab.entries EXCEPT ![l] = NULL]
    OBVIOUS
<1>3. new = [tab EXCEPT !.entries = e, !.in_use = n1, !.max_id = x1]
    BY <1>2, Zenon DEF ipc_rmid
<1>4. e \in [Slots -> Perms \cup {NULL}]
    <2>1. tab.entries \in [Slots -> Perms \cup {NULL}]
        BY <1>1
    <2>2. QED
        BY <1>2, <2>1
<1>5. new \in [size : {IPCMNI}, in_use : {n1}, max_id : {x1}, seq : 0 .. SeqMax,
               entries : [Slots -> Perms \cup {NULL}]]
      /\ new.entries = e
    BY <1>1, <1>3, <1>4
<1>6. QED
    BY <1>2, <1>5 DEF Table, Replaced

\* What sem_lock finds, and the arrays of the table.
LEMMA Lookup ==
    ASSUME Table(ids), NEW id \in SemIds
    PROVE  /\ Found(id) => /\ Names(id, ArrayOf(id)) /\ ArrayOf(id) \in Arrays
                           /\ InTable(ArrayOf(id))
           /\ \A k : Names(id, k) <=> Found(id) /\ ArrayOf(id) = k
           /\ \A k : Names(id, k) => InTable(k) /\ k \in Arrays
<1>1. Lid(id) \in Slots /\ ids.entries \in [Slots -> Perms \cup {NULL}]
    BY IdSlot, TableParts
<1>2. PICK e : e = ids.entries[Lid(id)]
    OBVIOUS
<1>3. e \in Perms \cup {NULL}
    BY <1>1, <1>2
<1>4. e # NULL => e.obj \in Arrays
    BY <1>3 DEF Perms
<1>5. (Found(id) <=> e # NULL) /\ ArrayOf(id) = e.obj
    BY <1>2 DEF Found, ArrayOf
<1>6. \A k : Names(id, k) <=> e # NULL /\ e.obj = k
    BY <1>2 DEF Names, At
<1>7. \A k : Names(id, k) => InTable(k)
    BY <1>1 DEF Names, InTable
<1>8. QED
    BY <1>4, <1>5, <1>6, <1>7

\* LiveArrays are the arrays in a slot ...
LEMMA LiveIs == ASSUME Table(ids) PROVE \A k : k \in LiveArrays <=> InTable(k)
<1>1. DOMAIN ids.entries = Slots
    BY TableParts
<1>2. QED
    BY <1>1, Zenon DEF LiveArrays, Live, InTable, At

\* ... and arrays all of them.
LEMMA LiveIn == ASSUME Table(ids) PROVE LiveArrays \subseteq Arrays
<1>1. ids.entries \in [Slots -> Perms \cup {NULL}]
    BY TableParts
<1>2. ASSUME NEW i \in Slots, ids.entries[i] # NULL PROVE ids.entries[i].obj \in Arrays
    BY <1>1, <1>2 DEF Perms
<1>3. QED
    BY <1>1, <1>2 DEF LiveArrays, Live

\* An array has one identifier.
LEMMA ExactOne ==
    ASSUME Tabled, NEW id \in SemIds, NEW jd \in SemIds, NEW k \in Arrays, Exact(id, k), Exact(jd, k)
    PROVE  id = jd
<1>1. Lid(id) \in Slots /\ Lid(jd) \in Slots
    BY IdSlot
<1>2. Lid(id) = Lid(jd)
    BY <1>1 DEF Tabled, Exact, Names
<1>3. id \div SEQ_MULTIPLIER = jd \div SEQ_MULTIPLIER
    BY <1>2 DEF Exact, sem_checkid, ipc_checkid
<1>4. QED
    BY <1>2, <1>3, IdSlot

(***************************************************************************)
(* What a step of p leaves of the others.                                  *)
(***************************************************************************)
TableSame == ids' = ids /\ narrs' = narrs /\ used_sems' = used_sems
CallSame(q) ==
    /\ pc'[q] = pc[q] /\ cur'[q] = cur[q] /\ semid'[q] = semid[q]
    /\ sops'[q] = sops[q] /\ io'[q] = io[q]
LocalSame(q) ==
    /\ pc'[q] = pc[q] /\ cur'[q] = cur[q] /\ semid'[q] = semid[q]
    /\ sops'[q] = sops[q] /\ io'[q] = io[q] /\ semundo'[q] = semundo[q]
UndoSame(q) == \A j \in Arrays : q \in arr'[j].undo <=> q \in arr[j].undo

\* A process of a queue stays there, maybe told to try again, or leaves it with a result.
Stays(q) == \A j \in Arrays : q \in ToSet(arr'[j].pending) <=> q \in ToSet(arr[j].pending)
Status1(q) == status'[q] = status[q] /\ Stays(q)
Status2(q) == Waiting(q) /\ status'[q] = "retry" /\ Decrease(sops[q]) /\ Stays(q)
Status3(q) == /\ Waiting(q) /\ status'[q] \in {"ok", "EAGAIN", "ERANGE", "EIDRM"}
              /\ \A j \in Arrays : q \notin ToSet(arr'[j].pending)
QStep(q) == Status1(q) \/ Status2(q) \/ Status3(q)

\* What identifiers name depends on the table only.
LEMMA NamesNext ==
    ASSUME ids' = ids
    PROVE  /\ \A id, k : Names(id, k)' <=> Names(id, k)
           /\ \A id, k : Exact(id, k)' <=> Exact(id, k)
           /\ \A k : InTable(k)' <=> InTable(k)
<1>1. \A i, k : At(i, k)' <=> At(i, k)
    BY DEF At
<1>2. \A id, k : Names(id, k)' <=> Names(id, k)
    BY <1>1 DEF Names
<1>3. \A id : sem_checkid(id)' <=> sem_checkid(id)
    BY DEF sem_checkid
<1>4. QED
    BY <1>1, <1>2, <1>3 DEF Exact, InTable

\* The queue and the place of another process.
LEMMA OtherQueued ==
    ASSUME NEW q \in Procs, Queued(q), CallSame(q), QStep(q)
    PROVE  Queued(q)'
<1>1. CASE Status1(q)
    <2>1. Waiting(q)' <=> Waiting(q)
        BY <1>1 DEF Status1, Waiting, CallSame
    <2>2. QED
        BY <1>1, <2>1 DEF Status1, Stays, Queued, CallSame
<1>2. CASE Status2(q)
    <2>1. Waiting(q)' /\ Waiting(q)
        BY <1>2 DEF Status2, Waiting, CallSame
    <2>2. QED
        BY <1>2, <2>1 DEF Status2, Stays, Queued, CallSame
<1>3. CASE Status3(q)
    <2>1. ~Waiting(q)'
        BY <1>3 DEF Status3, Waiting
    <2>2. QED
        BY <1>3, <2>1 DEF Status3, Queued
<1>4. QED
    BY <1>1, <1>2, <1>3 DEF QStep

\* The locals of another process stay as its place requires.
LEMMA OtherPlaced ==
    ASSUME NEW q \in Procs, Placed(q), CallSame(q), QStep(q)
    PROVE  Placed(q)'
<1>1. pc[q] # "sleep" => status'[q] = status[q]
    BY DEF QStep, Status1, Status2, Status3, Waiting
<1>2. QED
    BY <1>1 DEF Placed, CallSame

\* Another sleeper waits as it did.
LEMMA OtherWaits ==
    ASSUME NEW q \in Procs, Placed(q), Waits(q), CallSame(q), QStep(q), UndoSame(q),
           Waiting(q) => (Names(semid[q], cur[q]) => Names(semid[q], cur[q])')
    PROVE  Waits(q)'
<1>1. SUFFICES ASSUME Waiting(q)'
               PROVE  /\ Names(semid[q], cur[q])' /\ UndoReady(arr[cur[q]], q, sops[q])'
                      /\ Blocking(sops[q])' /\ (status[q] = "retry" => Decrease(sops[q]))'
    BY DEF Waits
<1>2. Waiting(q) /\ (status'[q] = "retry" => status[q] = "retry" \/ Decrease(sops[q]))
    BY <1>1 DEF QStep, Status1, Status2, Status3, Waiting, CallSame
<1>3. /\ Names(semid[q], cur[q])' /\ UndoReady(arr[cur[q]], q, sops[q]) /\ cur[q] \in Arrays
      /\ Blocking(sops[q]) /\ (status[q] = "retry" => Decrease(sops[q]))
    BY <1>2 DEF Waits, Placed, Waiting
<1>4. cur'[q] = cur[q] /\ sops'[q] = sops[q]
    BY DEF CallSame
<1>5. q \in arr[cur[q]].undo => q \in arr'[cur[q]].undo
    BY <1>3 DEF UndoSame
<1>6. UndoReady(arr[cur[q]], q, sops[q])'
    BY <1>3, <1>4, <1>5 DEF UndoReady
<1>7. Blocking(sops[q])'
    BY <1>3, <1>4 DEF Blocking
<1>8. (status[q] = "retry" => Decrease(sops[q]))'
    BY <1>2, <1>3, <1>4 DEF Decrease
<1>9. QED
    BY <1>3, <1>6, <1>7, <1>8

\* An undo structure stays good while its array does ...
LEMMA SameBacked ==
    ASSUME NEW q, NEW u \in Undos, Backed(q, u), UndoSame(q),
           \A id \in SemIds, k \in Arrays : Exact(id, k) => Exact(id, k)'
    PROVE  Backed(q, u)'
<1>1. SUFFICES ASSUME u.semid # -1 PROVE Exact(u.semid, u.arr)' /\ q \in arr'[u.arr].undo
    BY DEF Backed
<1>2. PICK i, k : i = u.semid /\ k = u.arr
    OBVIOUS
<1>3. Exact(i, k) /\ q \in arr[k].undo /\ k \in Arrays /\ i \in SemIds
    BY <1>1, <1>2 DEF Backed, Undos
<1>4. Exact(i, k)' /\ q \in arr'[k].undo
    BY <1>3 DEF UndoSame
<1>5. QED
    BY <1>2, <1>4

\* ... and so does a list of them ...
LEMMA SameListed ==
    ASSUME NEW q \in Procs, Listed(q), semundo'[q] = semundo[q], UndoSame(q),
           semundo \in [Procs -> Seq(Undos)],
           \A id \in SemIds, k \in Arrays : Exact(id, k) => Exact(id, k)'
    PROVE  Listed(q)'
<1>1. PICK L : L = semundo[q]
    OBVIOUS
<1>2. L \in Seq(Undos) /\ L = semundo'[q]
    BY <1>1
<1>3. ASSUME NEW n \in DOMAIN L PROVE Backed(q, L[n])'
    <2>1. PICK u : u = L[n]
        OBVIOUS
    <2>2. u \in Undos /\ Backed(q, u)
        BY <1>1, <1>2, <2>1 DEF Listed
    <2>3. Backed(q, u)'
        BY <2>2, SameBacked
    <2>4. QED
        BY <2>1, <2>3
<1>4. \A k \in Arrays : q \in arr'[k].undo => Covers(L, k)
    BY <1>1 DEF UndoSame, Listed
<1>5. OneEach(L)
    BY <1>1 DEF Listed
<1>6. (\A n \in DOMAIN semundo[q] : Backed(q, semundo[q][n]))'
    BY <1>2, <1>3
<1>7. QED
    BY <1>2, <1>4, <1>5, <1>6 DEF Listed

\* ... and all a process holds.
LEMMA OtherOwns ==
    ASSUME NEW q \in Procs, Owns(q), LocalSame(q), UndoSame(q), semundo \in [Procs -> Seq(Undos)],
           \A id \in SemIds, k \in Arrays : Exact(id, k) => Exact(id, k)'
    PROVE  Owns(q)'
<1>1. semundo'[q] = semundo[q] /\ pc'[q] = pc[q] /\ semid'[q] = semid[q]
    BY DEF LocalSame
<1>2. Listed(q)'
    BY <1>1, SameListed DEF Owns
<1>3. pc'[q] = "alloc" => \A n \in DOMAIN semundo'[q] : semundo'[q][n].semid # semid'[q]
    BY <1>1 DEF Owns
<1>4. pc'[q] = "adjust" => semundo'[q] # <<>> /\ Head(semundo'[q]).semid \in {-1, semid'[q]}
    BY <1>1 DEF Owns
<1>5. QED
    BY <1>2, <1>3, <1>4 DEF Owns

\* All together for a process that does not take the step.
LEMMA OtherKept ==
    ASSUME NEW q \in Procs, ProcInv(q), Typed, LocalSame(q), QStep(q), UndoSame(q), ids' = ids
    PROVE  ProcInv(q)'
<1>1. Queued(q) /\ Placed(q) /\ Waits(q) /\ Owns(q)
    BY DEF ProcInv
<1>2. CallSame(q) /\ Queued(q)' /\ Placed(q)'
    <2>1. CallSame(q)
        BY DEF LocalSame, CallSame
    <2>2. QED
        BY <1>1, <2>1, OtherQueued, OtherPlaced
<1>3. Waits(q)'
    <2>1. Names(semid[q], cur[q]) => Names(semid[q], cur[q])'
        <3>1. semid'[q] = semid[q] /\ cur'[q] = cur[q]
            BY DEF LocalSame
        <3>2. QED
            BY <3>1 DEF Names, At
    <2>2. QED
        BY <1>1, <1>2, <2>1, OtherWaits
<1>4. Owns(q)'
    BY <1>1, NamesNext, OtherOwns DEF Typed
<1>5. QED
    BY <1>2, <1>3, <1>4 DEF ProcInv
\* Types of the locals after a step.
LocalsTyped ==
    /\ pc \in [Procs -> PCs] /\ cur \in [Procs -> Arrays \cup {NULL}] /\ semid \in [Procs -> SemIds]
    /\ sops \in [Procs -> SopLists \cup {<<>>}] /\ io \in [Procs -> {<<>>} \cup [Sems -> Vals]]
    /\ semundo \in [Procs -> Seq(Undos)]

\* Array k becomes b in a step of p, whatever p does to itself.
Touches(p, k, b) ==
    /\ k \in Arrays /\ Sound(b) /\ arr' = [arr EXCEPT ![k] = b] /\ (InTable(k) \/ b = arr[k])
    /\ status' \in [Procs -> Status] /\ asleep' \in SUBSET Procs
    /\ \A q \in Procs \ {p} : QStep(q) /\ UndoSame(q)
    /\ \A j \in Arrays \ {k} : \A q \in ToSet(arr[j].pending) : q # p /\ status'[q] = status[q]

\* A table left alone stays in order.
LEMMA TabledNext == ASSUME Tabled, TableSame PROVE Tabled'
<1>1. \A i, k : At(i, k)' <=> At(i, k)
    BY DEF At, TableSame
<1>2. \A k : InTable(k)' <=> InTable(k)
    BY NamesNext DEF TableSame
<1>3. QED
    BY <1>1, <1>2 DEF Tabled, TableSame, Table, Live

\* Whether the wake-ups of an array are complete depends on its queue.
LEMMA AlertNext ==
    ASSUME NEW a, NEW st, NEW k, Alert(a, st), a = arr'[k],
           \A q \in ToSet(a.pending) : status'[q] = st[q] /\ sops'[q] = sops[q]
    PROVE  Alert(arr[k], status)'
<1>1. CASE \A q \in ToSet(a.pending) : st[q] # "retry" => MustWait(a, q, sops[q])
    BY <1>1 DEF Alert
<1>2. CASE \E q \in ToSet(a.pending) : st[q] = "retry" /\ ~MustWait(a, q, sops[q])
    BY <1>2 DEF Alert
<1>3. CASE a.mixed
    BY <1>3 DEF Alert
<1>4. QED
    BY <1>1, <1>2, <1>3 DEF Alert

\* A step of p that touches one array keeps the invariant if it keeps the part of p
\* and the wake-ups of that array.
LEMMA StepKept ==
    ASSUME Inv, NEW p \in Procs, NEW k, NEW b, Touches(p, k, b), TableSame, LocalsTyped',
           \A q \in Procs \ {p} : LocalSame(q), ProcInv(p)', Alert(arr[k], status)'
    PROVE  Inv'
<1>1. Tabled /\ Typed /\ Stored /\ Alerted /\ \A q \in Procs : ProcInv(q)
    BY DEF Inv
<1>2. Tabled'
    BY <1>1, TabledNext
<1>3. arr \in [Arrays -> ArraysOf(Nat)] /\ b \in ArraysOf(Nat) /\ k \in Arrays
    BY <1>1 DEF Typed, Touches, Sound
<1>4. arr' \in [Arrays -> ArraysOf(Nat)] /\ arr'[k] = b /\ \A j \in Arrays \ {k} : arr'[j] = arr[j]
    BY <1>3 DEF Touches
<1>5. Typed'
    BY <1>4 DEF Typed, LocalsTyped, Touches
<1>6. Stored'
    <2>1. \A j : InTable(j)' <=> InTable(j)
        BY NamesNext DEF TableSame
    <2>2. ASSUME NEW j \in Arrays PROVE (Sound(arr[j]) /\ (~InTable(j) => arr[j] = newary))'
        <3>1. Sound(arr[j]) /\ (~InTable(j) => arr[j] = newary)
            BY <1>1 DEF Stored
        <3>2. CASE j = k
            BY <1>4, <2>1, <3>1, <3>2 DEF Touches
        <3>3. CASE j # k
            BY <1>4, <2>1, <3>1, <3>3
        <3>4. QED
            BY <3>2, <3>3
    <2>3. QED
        BY <2>2 DEF Stored
<1>7. ASSUME NEW j \in Arrays PROVE Alert(arr[j], status)'
    <2>1. CASE j = k
        BY <1>7, <2>1
    <2>2. CASE j # k
        <3>1. Alert(arr[j], status) /\ arr[j] = arr'[j]
            BY <1>1, <1>4, <1>7, <2>2 DEF Alerted
        <3>2. ASSUME NEW q \in ToSet(arr[j].pending)
              PROVE  status'[q] = status[q] /\ sops'[q] = sops[q]
            <4>1. q # p /\ status'[q] = status[q]
                BY <2>2 DEF Touches
            <4>2. q \in Procs
                <5>1. arr[j].pending \in Seq(Procs)
                    BY <1>3, ArrayFields
                <5>2. QED
                    BY <5>1 DEF ToSet
            <4>3. QED
                BY <4>1, <4>2 DEF LocalSame
        <3>3. QED
            BY <3>1, <3>2, AlertNext
    <2>3. QED
        BY <2>1, <2>2
<1>8. Alerted'
    BY <1>7 DEF Alerted
<1>9. ASSUME NEW q \in Procs PROVE ProcInv(q)'
    <2>1. CASE q = p
        BY <2>1
    <2>2. CASE q # p
        BY <1>1, <2>2, OtherKept DEF Touches, TableSame
    <2>3. QED
        BY <2>1, <2>2
<1>10. QED
    BY <1>2, <1>5, <1>6, <1>8, <1>9 DEF Inv

\* A step of p that is in no queue and leaves the arrays alone.
LEMMA QuietKept ==
    ASSUME Inv, NEW p \in Procs, ~Waiting(p), TableSame, LocalsTyped', arr' = arr,
           status' \in [Procs -> Status], asleep' \in SUBSET Procs,
           \A q \in Procs \ {p} : LocalSame(q) /\ status'[q] = status[q], ProcInv(p)'
    PROVE  Inv'
<1>1. Tabled /\ Typed /\ Stored /\ Alerted /\ \A q \in Procs : ProcInv(q)
    BY DEF Inv
<1>2. Tabled'
    BY <1>1, TabledNext
<1>3. arr \in [Arrays -> ArraysOf(Nat)]
    BY <1>1 DEF Typed
<1>4. Typed'
    BY <1>3 DEF Typed, LocalsTyped
<1>5. Stored'
    <2>1. \A j : InTable(j)' <=> InTable(j)
        BY NamesNext DEF TableSame
    <2>2. QED
        BY <1>1, <2>1 DEF Stored
<1>6. ASSUME NEW j \in Arrays PROVE Alert(arr[j], status)'
    <2>1. Alert(arr[j], status) /\ arr[j] = arr'[j]
        BY <1>1, <1>6 DEF Alerted
    <2>2. ASSUME NEW q \in ToSet(arr[j].pending)
          PROVE  status'[q] = status[q] /\ sops'[q] = sops[q]
        <3>1. q \in Procs
            <4>1. arr[j].pending \in Seq(Procs)
                BY <1>3, ArrayFields
            <4>2. QED
                BY <4>1 DEF ToSet
        <3>2. Waiting(q)
            BY <1>1, <3>1 DEF ProcInv, Queued
        <3>3. QED
            BY <3>1, <3>2 DEF LocalSame
    <2>3. QED
        BY <2>1, <2>2, AlertNext
<1>7. Alerted'
    BY <1>6 DEF Alerted
<1>8. ASSUME NEW q \in Procs PROVE ProcInv(q)'
    <2>1. CASE q = p
        BY <2>1
    <2>2. CASE q # p
        <3>1. QStep(q) /\ UndoSame(q)
            BY <2>2 DEF QStep, Status1, Stays, UndoSame
        <3>2. QED
            BY <1>1, <2>2, <3>1, OtherKept DEF TableSame
    <2>3. QED
        BY <2>1, <2>2
<1>9. QED
    BY <1>2, <1>4, <1>5, <1>7, <1>8 DEF Inv

(***************************************************************************)
(* A step that ends with the array put back, and maybe its queue walked.   *)
(***************************************************************************)
\* The processes in the queue of an array.
LEMMA InQueue ==
    ASSUME Inv, NEW k \in Arrays, NEW q \in ToSet(arr[k].pending)
    PROVE  /\ q \in Procs /\ Waiting(q) /\ cur[q] = k /\ Able(arr[k].undo, q)
           /\ Blocking(sops[q])
<1>1. Typed /\ \A p \in Procs : ProcInv(p)
    BY DEF Inv
<1>2. arr[k].pending \in Seq(Procs)
    BY <1>1, ArrayFields DEF Typed
<1>3. q \in Procs
    BY <1>2 DEF ToSet
<1>4. Queued(q) /\ Placed(q) /\ Waits(q)
    BY <1>1, <1>3 DEF ProcInv
<1>5. Waiting(q) /\ cur[q] = k
    BY <1>4 DEF Queued
<1>6. UndoReady(arr[k], q, sops[q]) /\ Blocking(sops[q])
    BY <1>4, <1>5 DEF Waits
<1>7. Legal(sops[q]) /\ sops[q] \in SopLists
    BY <1>4, <1>5 DEF Placed, Waiting
<1>8. Able(arr[k].undo, q)
    BY <1>3, <1>6, <1>7 DEF Able, UndoReady
<1>9. QED
    BY <1>3, <1>5, <1>6, <1>8

\* a may be put back as array k, without p in its queue.
Fits(p, k, a) ==
    /\ p \in Procs /\ k \in Arrays /\ Sound(a) /\ ToSet(a.pending) = ToSet(arr[k].pending) \ {p}
    /\ \A q \in Procs \ {p} : q \in a.undo <=> q \in arr[k].undo
    /\ Waiting(p) => cur[p] = k
    /\ \A q \in ToSet(a.pending) : Able(a.undo, q)
Finished(p, k, a, walk, b) ==
    /\ Touches(p, k, b) /\ b.undo = a.undo /\ ToSet(b.pending) \subseteq ToSet(a.pending)
    /\ arr'[k] = b /\ status'[p] = "ok"
    /\ (walk \/ (a.semval = arr[k].semval /\ a.mixed = arr[k].mixed /\ status[p] # "retry"))
          => Alert(b, status')

\* Finish, with or without the walk, touches one array and completes its wake-ups.
LEMMA FinishEffect ==
    ASSUME Inv, NEW p, NEW k, NEW a, NEW walk \in BOOLEAN, Fits(p, k, a), Finish(p, k, a, walk),
           InTable(k) \/ (~walk /\ a = arr[k])
    PROVE  \E b : Finished(p, k, a, walk, b)
<1>0. Typed /\ Alerted /\ \A q \in Procs : ProcInv(q)
    BY DEF Inv
<1>1. /\ arr \in [Arrays -> ArraysOf(Nat)] /\ status \in [Procs -> Status]
      /\ asleep \in SUBSET Procs
    BY <1>0 DEF Typed
<1>2. /\ p \in Procs /\ k \in Arrays /\ Sound(a) /\ ToSet(a.pending) = ToSet(arr[k].pending) \ {p}
      /\ \A q \in Procs \ {p} : q \in a.undo <=> q \in arr[k].undo
      /\ Waiting(p) => cur[p] = k
      /\ \A q \in ToSet(a.pending) : Able(a.undo, q)
    BY DEF Fits
<1>3. PICK w : w = [a |-> a, status |-> status, asleep |-> asleep, done |-> FALSE]
    OBVIOUS
<1>4. PICK v : /\ v = (IF walk THEN update_queue(w) ELSE w)
               /\ arr' = [arr EXCEPT ![k] = v.a]
               /\ status' = [v.status EXCEPT ![p] = "ok"]
               /\ asleep' = v.asleep
    BY <1>3 DEF Finish
<1>5. w \in WalkType /\ w.a = a /\ w.status = status /\ w.asleep = asleep /\ ~w.done
    BY <1>1, <1>2, <1>3 DEF WalkType, Sound
<1>6. walk => Walked(w, v) /\ Alert(v.a, v.status)
    BY <1>2, <1>4, <1>5, WalkEffect
<1>7. ~walk => v = w /\ Walked(w, w)
    BY <1>1, <1>2, <1>4, <1>5 DEF Walked, StatusKept
<1>8. Walked(w, v)
    BY <1>6, <1>7
<1>9. PICK b : b = v.a
    OBVIOUS
<1>10. /\ Sound(b) /\ b.undo = a.undo /\ ToSet(b.pending) \subseteq ToSet(a.pending)
       /\ v.status \in [Procs -> Status] /\ v.asleep \subseteq asleep
       /\ \A q \in Procs : StatusKept(w, v, q)
    BY <1>5, <1>8, <1>9 DEF Walked
<1>11. /\ status' \in [Procs -> Status] /\ status'[p] = "ok" /\ asleep' \in SUBSET Procs
       /\ \A q \in Procs \ {p} : status'[q] = v.status[q]
    BY <1>1, <1>2, <1>4, <1>10 DEF Status
<1>12. arr' = [arr EXCEPT ![k] = b] /\ arr'[k] = b /\ \A j \in Arrays \ {k} : arr'[j] = arr[j]
    BY <1>1, <1>2, <1>4, <1>9
<1>13. ASSUME NEW q \in Procs \ {p} PROVE QStep(q) /\ UndoSame(q)
    <2>1. StatusKept(w, v, q) /\ status'[q] = v.status[q]
        BY <1>10, <1>11
    <2>2. /\ q \notin ToSet(a.pending) => status'[q] = status[q]
          /\ q \in ToSet(b.pending) =>
                status'[q] = status[q] \/ (status'[q] = "retry" /\ Decrease(sops[q]))
          /\ q \in ToSet(a.pending) \ ToSet(b.pending) => status'[q] \in {"ok", "EAGAIN", "ERANGE"}
        BY <1>5, <1>9, <2>1 DEF StatusKept
    <2>3. q \in ToSet(a.pending) <=> q \in ToSet(arr[k].pending)
        BY <1>2
    <2>4. UndoSame(q)
        BY <1>2, <1>10, <1>12 DEF UndoSame
    <2>5. CASE q \notin ToSet(arr[k].pending)
        <3>1. Stays(q)
            BY <1>10, <1>12, <2>3, <2>5 DEF Stays
        <3>2. QED
            BY <2>2, <2>3, <2>4, <2>5, <3>1 DEF QStep, Status1
    <2>6. CASE q \in ToSet(arr[k].pending)
        <3>1. Waiting(q) /\ cur[q] = k
            BY <1>2, <2>6, InQueue
        <3>2. \A j \in Arrays \ {k} : q \notin ToSet(arr[j].pending)
            BY <3>1, InQueue
        <3>3. CASE q \in ToSet(b.pending)
            <4>1. Stays(q)
                BY <1>12, <2>6, <3>3 DEF Stays
            <4>2. QED
                BY <2>2, <2>4, <3>1, <3>3, <4>1 DEF QStep, Status1, Status2
        <3>4. CASE q \notin ToSet(b.pending)
            <4>1. \A j \in Arrays : q \notin ToSet(arr'[j].pending)
                BY <1>12, <3>2, <3>4
            <4>2. QED
                BY <2>2, <2>3, <2>4, <2>6, <3>1, <3>4, <4>1 DEF QStep, Status3
        <3>5. QED
            BY <3>3, <3>4
    <2>7. QED
        BY <2>5, <2>6
<1>14. ASSUME NEW j \in Arrays \ {k}, NEW q \in ToSet(arr[j].pending)
       PROVE  q # p /\ status'[q] = status[q]
    <2>1. q \in Procs /\ Waiting(q) /\ cur[q] = j
        BY InQueue
    <2>2. q # p
        BY <1>2, <2>1
    <2>3. q \notin ToSet(arr[k].pending)
        BY <1>2, <2>1, InQueue
    <2>4. v.status[q] = status[q]
        BY <1>2, <1>5, <1>10, <2>1, <2>3 DEF StatusKept
    <2>5. QED
        BY <1>11, <2>1, <2>2, <2>4
<1>15. InTable(k) \/ b = arr[k]
    BY <1>5, <1>7, <1>9
<1>16. Touches(p, k, b)
    BY <1>2, <1>10, <1>11, <1>12, <1>13, <1>14, <1>15 DEF Touches
<1>17. \A q \in ToSet(b.pending) : q \in Procs /\ q # p
    <2>1. ToSet(b.pending) \subseteq ToSet(arr[k].pending) \ {p}
        BY <1>2, <1>10
    <2>2. QED
        BY <1>2, <2>1, InQueue
<1>18. ASSUME walk PROVE Alert(b, status')
    <2>2. Alert(b, v.status)
        BY <1>6, <1>9, <1>18
    <2>3. \A q \in ToSet(b.pending) : status'[q] = v.status[q]
        BY <1>11, <1>17
    <2>4. QED
        BY <2>2, <2>3, Zenon DEF Alert
<1>19. ASSUME ~walk, a.semval = arr[k].semval, a.mixed = arr[k].mixed, status[p] # "retry"
       PROVE  Alert(b, status')
    <2>1. b = a /\ \A q \in ToSet(b.pending) : status'[q] = status[q]
        BY <1>5, <1>7, <1>9, <1>11, <1>17, <1>19
    <2>2. Alert(arr[k], status)
        BY <1>0, <1>2, <1>19 DEF Alerted
    <2>3. ASSUME NEW q \in ToSet(arr[k].pending)
          PROVE  MustWait(a, q, sops[q]) <=> MustWait(arr[k], q, sops[q])
        <3>1. q \in Procs /\ Legal(sops[q])
            BY <1>2, InQueue DEF Able
        <3>2. a \in ArraysOf(Nat) /\ arr[k] \in ArraysOf(Nat)
            BY <1>1, <1>2 DEF Sound
        <3>3. QED
            BY <1>19, <3>1, <3>2, MustWaitSame
    <2>4. CASE \A q \in ToSet(arr[k].pending) : status[q] # "retry" => MustWait(arr[k], q, sops[q])
        <3>1. ASSUME NEW q \in ToSet(b.pending), status'[q] # "retry" PROVE MustWait(b, q, sops[q])
            BY <1>2, <2>1, <2>3, <2>4, <3>1
        <3>2. QED
            BY <3>1 DEF Alert
    <2>5. CASE \E q \in ToSet(arr[k].pending) : status[q] = "retry" /\ ~MustWait(arr[k], q, sops[q])
        <3>1. PICK q \in ToSet(arr[k].pending) : status[q] = "retry" /\ ~MustWait(arr[k], q, sops[q])
            BY <2>5
        <3>2. q \in ToSet(b.pending) /\ status'[q] = "retry" /\ ~MustWait(b, q, sops[q])
            BY <1>2, <1>19, <2>1, <2>3, <3>1
        <3>3. QED
            BY <3>2 DEF Alert
    <2>6. CASE arr[k].mixed
        BY <1>19, <2>1, <2>6 DEF Alert
    <2>7. QED
        BY <2>2, <2>4, <2>5, <2>6 DEF Alert
<1>20. Finished(p, k, a, walk, b)
    BY <1>10, <1>11, <1>12, <1>16, <1>18, <1>19 DEF Finished
<1>21. QED
    BY <1>20

(***************************************************************************)
(* The other operations on an array.                                       *)
(***************************************************************************)
LEMMA NoElems == ToSet(<<>>) = {}
BY DEF ToSet

\* newary is sound and empty.
LEMMA NewArray == Sound(newary) /\ ToSet(newary.pending) = {} /\ newary.undo = {}
<1>1. newary.pending = <<>> /\ newary.undo = {} /\ \A i \in Sems : newary.semval[i] = 0 /\ newary.base[i] = 0
      /\ \A p \in Procs : newary.semadj[p][i] = 0
    BY DEF newary
<1>2. newary \in ArraysOf(Nat)
    <2>1. 0 \in ShortRange /\ 0 \in 0 .. ShortCount - 1
        BY ShortRangeInt, ShortCountProps
    <2>2. <<NULL, NULL>> \in PidPair
        BY DEF PidPair
    <2>3. <<>> \in Seq(Procs)
        OBVIOUS
    <2>4. QED
        BY <2>1, <2>2, <2>3 DEF newary, ArraysOf
<1>3. NoRepeat(newary.pending)
    BY <1>1 DEF NoRepeat
<1>4. AdjOwned(newary)
    BY <1>1 DEF AdjOwned
<1>5. ASSUME NEW i \in Sems PROVE BalancedAt(newary, i)
    <2>1. Cardinality(UndoUnits(newary, i)) = 0
        BY <1>1, UnitsNone
    <2>2. newary.semval[i] + Cardinality(UndoUnits(newary, i)) - newary.base[i] = 0
        BY <1>1, <2>1
    <2>3. 0 % ShortCount = 0
        BY Remainder, ShortCountProps
    <2>4. QED
        BY <2>2, <2>3 DEF BalancedAt
<1>6. QED
    BY <1>1, <1>2, <1>3, <1>4, <1>5, NoElems DEF Sound, Kept

\* SETVAL and SETALL.
SetsValues(a, S, v, b) ==
    /\ Sound(a) /\ S \subseteq Sems /\ v \in [Sems -> Vals] /\ b = SetValues(a, S, v)
\* Setting values keeps an array sound: what was to be undone there is forgotten.
LEMMA ValuesSet ==
    ASSUME NEW a, NEW S, NEW v, NEW b, SetsValues(a, S, v, b)
    PROVE  Sound(b) /\ b.pending = a.pending /\ b.undo = a.undo
<1>0. Sound(a) /\ S \subseteq Sems /\ v \in [Sems -> Vals] /\ b = SetValues(a, S, v)
    BY DEF SetsValues
<1>1. PICK val, adj, base :
        /\ val = [i \in Sems |-> IF i \in S THEN v[i] ELSE a.semval[i]]
        /\ adj = [p \in Procs |-> [i \in Sems |->
                    IF i \in S /\ p \in a.undo THEN 0 ELSE a.semadj[p][i]]]
        /\ base = [i \in Sems |-> IF i \in S THEN v[i] ELSE a.base[i]]
    OBVIOUS
<1>2. b = [a EXCEPT !.semval = val, !.semadj = adj, !.base = base]
    BY <1>0, <1>1, Zenon DEF SetValues
<1>3. a \in ArraysOf(Nat) /\ Kept(a) /\ NoRepeat(a.pending)
    BY <1>0 DEF Sound
<1>4. \A i \in Sems : v[i] \in Nat /\ v[i] \in 0 .. ShortCount - 1
    <2>1. Vals \subseteq 0 .. SEMVMX /\ SEMVMX \in Nat
        BY SemAssumption
    <2>2. \A x \in 0 .. SEMVMX : x \in Nat /\ x \in 0 .. ShortCount - 1
        BY ShortCountProps
    <2>3. QED
        BY <1>0, <2>1, <2>2
<1>5. /\ val \in [Sems -> Nat] /\ base \in [Sems -> 0 .. ShortCount - 1]
      /\ adj \in [Procs -> [Sems -> ShortRange]]
    BY <1>1, <1>3, <1>4, ArrayFields, ShortRangeInt
<1>6. /\ b \in ArraysOf(Nat) /\ b.pending = a.pending /\ b.undo = a.undo
      /\ b.semval = val /\ b.semadj = adj /\ b.base = base
    BY <1>2, <1>3, <1>5 DEF ArraysOf
<1>7. \A p \in Procs, i \in Sems : b.semadj[p][i] = IF i \in S /\ p \in a.undo THEN 0 ELSE a.semadj[p][i]
    BY <1>1, <1>6
<1>8. AdjOwned(b)
    BY <1>3, <1>6, <1>7 DEF Kept, AdjOwned
<1>9. ASSUME NEW i \in Sems PROVE BalancedAt(b, i)
    <2>1. CASE i \in S
        <3>1. \A p \in Procs : b.semadj[p][i] = 0
            BY <1>3, <1>7, <2>1 DEF Kept, AdjOwned
        <3>2. Cardinality(UndoUnits(b, i)) = 0
            BY <3>1, UnitsNone
        <3>3. b.semval[i] = v[i] /\ b.base[i] = v[i]
            BY <1>1, <1>6, <2>1
        <3>4. b.semval[i] + Cardinality(UndoUnits(b, i)) - b.base[i] = 0
            BY <1>4, <3>2, <3>3
        <3>5. 0 % ShortCount = 0
            BY Remainder, ShortCountProps
        <3>6. QED
            BY <3>4, <3>5 DEF BalancedAt
    <2>2. CASE i \notin S
        <3>1. \A x \in Procs \X (1 .. ShortCount) : b.semadj[x[1]][i] = a.semadj[x[1]][i]
            BY <1>7, <2>2
        <3>2. UndoUnits(b, i) = UndoUnits(a, i)
            BY <3>1, Zenon DEF UndoUnits
        <3>3. b.semval[i] = a.semval[i] /\ b.base[i] = a.base[i]
            BY <1>1, <1>6, <2>2
        <3>4. BalancedAt(a, i)
            BY <1>3 DEF Kept
        <3>5. QED
            BY <3>2, <3>3, <3>4, Zenon DEF BalancedAt
    <2>3. QED
        BY <2>1, <2>2
<1>10. QED
    BY <1>3, <1>6, <1>8, <1>9 DEF Sound, Kept

\* alloc_undo adds an undo structure for p, which had none.
UndoAdded(a, p) == [a EXCEPT !.undo = @ \cup {p}, !.semadj[p] = [i \in Sems |-> 0]]
AddsUndo(a, p, b) == Sound(a) /\ p \in Procs \ a.undo /\ b = UndoAdded(a, p)
\* A new undo structure, with nothing to undo, keeps an array sound.
LEMMA UndoAdds ==
    ASSUME NEW a, NEW p, NEW b, AddsUndo(a, p, b)
    PROVE  /\ Sound(b) /\ b.pending = a.pending /\ b.undo = a.undo \cup {p} /\ b.semval = a.semval
           /\ b.mixed = a.mixed
<1>0. Sound(a) /\ p \in Procs \ a.undo /\ b = UndoAdded(a, p)
    BY DEF AddsUndo
<1>1. a \in ArraysOf(Nat) /\ Kept(a) /\ NoRepeat(a.pending)
    BY <1>0 DEF Sound
<1>2. \A i \in Sems : a.semadj[p][i] = 0
    BY <1>0, <1>1 DEF Kept, AdjOwned
<1>3. PICK z, adj : z = [i \in Sems |-> 0] /\ adj = [a.semadj EXCEPT ![p] = z]
    OBVIOUS
<1>4. b = [a EXCEPT !.undo = @ \cup {p}, !.semadj = adj]
    BY <1>0, <1>3, Zenon DEF UndoAdded
<1>5. a.semadj \in [Procs -> [Sems -> ShortRange]] /\ a.semadj[p] \in [Sems -> ShortRange]
    BY <1>0, <1>1, ArrayFields
<1>6. a.semadj[p] = z
    BY <1>2, <1>3, <1>5
<1>7. adj = a.semadj
    BY <1>3, <1>5, <1>6
<1>8. /\ b \in ArraysOf(Nat) /\ b.pending = a.pending /\ b.undo = a.undo \cup {p}
      /\ b.semval = a.semval /\ b.semadj = a.semadj /\ b.base = a.base /\ b.mixed = a.mixed
    <2>1. PICK un : un = a.undo \cup {p}
        OBVIOUS
    <2>2. b = [a EXCEPT !.undo = un, !.semadj = adj]
        BY <1>4, <2>1, Zenon
    <2>3. un \in SUBSET Procs
        BY <1>0, <1>1, <2>1, ArrayFields
    <2>4. adj \in [Procs -> [Sems -> ShortRange]]
        BY <1>5, <1>7
    <2>5. QED
        BY <1>1, <1>7, <2>1, <2>2, <2>3, <2>4 DEF ArraysOf
<1>9. \A i \in Sems : UndoUnits(b, i) = UndoUnits(a, i)
    BY <1>8, Zenon DEF UndoUnits
<1>10. AdjOwned(b)
    BY <1>1, <1>8 DEF Kept, AdjOwned
<1>11. ASSUME NEW i \in Sems PROVE BalancedAt(b, i)
    <2>1. BalancedAt(a, i)
        BY <1>1 DEF Kept
    <2>2. QED
        BY <1>8, <1>9, <2>1, Zenon DEF BalancedAt
<1>12. QED
    BY <1>1, <1>8, <1>10, <1>11 DEF Sound, Kept
\* sem_exit makes the adjustments of p.
Adjusts(a, p, b) == Sound(a) /\ p \in Procs /\ b = ExitAdjust(a, p)
\* Making the adjustments of a process keeps an array sound.
LEMMA ExitAdjusts ==
    ASSUME NEW a, NEW p, NEW b, Adjusts(a, p, b)
    PROVE  Sound(b) /\ b.pending = a.pending /\ b.undo = a.undo \ {p}
<1>0. Sound(a) /\ p \in Procs /\ b = ExitAdjust(a, p)
    BY DEF Adjusts
<1>1. a \in ArraysOf(Nat) /\ Kept(a) /\ NoRepeat(a.pending)
    BY <1>0 DEF Sound
<1>2. PICK val, pids, z, adj, base :
        /\ val = [i \in Sems |-> IF Adjusted(a, p, i) < 0 THEN 0 ELSE Adjusted(a, p, i)]
        /\ pids = [i \in Sems |-> <<NULL, p>>]
        /\ z = [i \in Sems |-> 0] /\ adj = [a.semadj EXCEPT ![p] = z]
        /\ base = [i \in Sems |-> (a.base[i] + val[i] - Adjusted(a, p, i)) % ShortCount]
    OBVIOUS
<1>3. b = [a EXCEPT !.semval = val, !.sempid = pids, !.undo = @ \ {p}, !.semadj = adj, !.base = base]
    BY <1>0, <1>2, Zenon DEF ExitAdjust
<1>4. ASSUME NEW i \in Sems
      PROVE  a.semval[i] \in Nat /\ a.semadj[p][i] \in Int /\ a.base[i] \in Int
    <2>1. a.semadj[p][i] \in ShortRange /\ a.semval[i] \in Nat /\ a.base[i] \in 0 .. ShortCount - 1
        BY <1>0, <1>1, ArrayFields
    <2>2. a.semadj[p][i] \in Int
        BY <2>1, ShortRangeInt
    <2>3. a.base[i] \in Int
        BY <2>1, ShortCountProps
    <2>4. QED
        BY <2>1, <2>2, <2>3
<1>5. ASSUME NEW i \in Sems
      PROVE  /\ Adjusted(a, p, i) = a.semval[i] + a.semadj[p][i] /\ Adjusted(a, p, i) \in Int
             /\ val[i] \in Nat
             /\ base[i] = (a.base[i] + val[i] - Adjusted(a, p, i)) % ShortCount
             /\ a.base[i] + val[i] - Adjusted(a, p, i) \in Int
    <2>1. Adjusted(a, p, i) = a.semval[i] + a.semadj[p][i] /\ Adjusted(a, p, i) \in Int
        BY <1>4 DEF Adjusted
    <2>2. val[i] \in Nat
        BY <1>2, <2>1
    <2>3. base[i] = (a.base[i] + val[i] - Adjusted(a, p, i)) % ShortCount
        BY <1>2
    <2>4. a.base[i] + val[i] - Adjusted(a, p, i) \in Int
        BY <1>4, <2>1, <2>2
    <2>5. QED
        BY <2>1, <2>2, <2>3, <2>4
<1>6. val \in [Sems -> Nat]
    BY <1>2, <1>5
<1>7. base \in [Sems -> 0 .. ShortCount - 1]
    <2>1. ASSUME NEW i \in Sems PROVE base[i] \in 0 .. ShortCount - 1
        BY <1>5, Remainder
    <2>2. QED
        BY <1>2, <2>1
<1>8. a.semadj \in [Procs -> [Sems -> ShortRange]]
    BY <1>1, ArrayFields
<1>9. adj \in [Procs -> [Sems -> ShortRange]] /\ adj[p] = z
      /\ \A q \in Procs \ {p} : adj[q] = a.semadj[q]
    <2>1. z \in [Sems -> ShortRange]
        BY <1>2, ShortRangeInt
    <2>2. QED
        BY <1>0, <1>2, <1>8, <2>1
<1>10. pids \in [Sems -> PidPair]
    BY <1>0, <1>2 DEF PidPair
<1>11. /\ b \in ArraysOf(Nat) /\ b.pending = a.pending /\ b.undo = a.undo \ {p}
       /\ b.semval = val /\ b.semadj = adj /\ b.base = base
    <2>1. PICK un : un = a.undo \ {p}
        OBVIOUS
    <2>2. b = [a EXCEPT !.semval = val, !.sempid = pids, !.undo = un, !.semadj = adj, !.base = base]
        BY <1>3, <2>1, Zenon
    <2>3. un \in SUBSET Procs
        BY <1>1, <2>1, ArrayFields
    <2>4. QED
        BY <1>1, <1>6, <1>7, <1>9, <1>10, <2>1, <2>2, <2>3 DEF ArraysOf
<1>12. AdjOwned(b)
    <2>1. SUFFICES ASSUME NEW q \in Procs \ b.undo, NEW i \in Sems PROVE adj[q][i] = 0
        BY <1>11 DEF AdjOwned
    <2>2. CASE q = p
        BY <1>2, <1>9, <2>2
    <2>3. CASE q # p
        BY <1>1, <1>9, <1>11, <2>3 DEF Kept, AdjOwned
    <2>4. QED
        BY <2>2, <2>3
<1>13. ASSUME NEW i \in Sems PROVE BalancedAt(b, i)
    <2>1. PICK v, d, u, c, w, u1, c1 :
             /\ v = a.semval[i] /\ d = a.semadj[p][i] /\ u = Cardinality(UndoUnits(a, i))
             /\ c = a.base[i] /\ w = val[i] /\ u1 = Cardinality(UndoUnits(b, i)) /\ c1 = base[i]
        OBVIOUS
    <2>2. v \in Int /\ d \in Int /\ c \in Int /\ w \in Int
        BY <1>4, <1>5, <2>1
    <2>3. u \in Int /\ u1 \in Int
        BY <2>1, UnitsFinite
    <2>4. c + w - (v + d) \in Int /\ c1 = (c + w - (v + d)) % ShortCount
        <3>1. Adjusted(a, p, i) = v + d
            BY <1>5, <2>1
        <3>2. base[i] = (a.base[i] + val[i] - Adjusted(a, p, i)) % ShortCount
            BY <1>5
        <3>3. c1 = (c + w - (v + d)) % ShortCount
            BY <2>1, <3>1, <3>2, Zenon
        <3>4. QED
            BY <2>2, <3>3
    <2>5. c1 \in Int /\ Multiple((c + w - (v + d)) - c1)
        <3>1. PICK x : x = c + w - (v + d)
            OBVIOUS
        <3>2. x \in Int /\ c1 = x % ShortCount
            BY <2>4, <3>1
        <3>3. c1 \in 0 .. ShortCount - 1 /\ Multiple(x - c1)
            BY <3>2, Remainder
        <3>4. QED
            BY <3>1, <3>3, ShortCountProps
    <2>6. PICK m : m = d % ShortCount
        OBVIOUS
    <2>7. m \in Int /\ Multiple(d - m)
        <3>1. m \in 0 .. ShortCount - 1 /\ Multiple(d - m)
            BY <2>2, <2>6, Remainder
        <3>2. QED
            BY <3>1, ShortCountProps
    <2>8. u1 = u - m
        <3>1. b.semadj[p][i] = 0
            BY <1>2, <1>9, <1>11
        <3>2. \A q \in Procs \ {p} : b.semadj[q][i] = a.semadj[q][i]
            BY <1>9, <1>11
        <3>3. OneAdj(a, b, p, i)
            BY <1>0, <1>4, <3>1, <3>2 DEF OneAdj
        <3>4. Cardinality(UndoUnits(b, i)) = Cardinality(UndoUnits(a, i))
                 - (a.semadj[p][i] % ShortCount) + (b.semadj[p][i] % ShortCount)
            BY ONLY <3>3, UnitsChange
        <3>5. 0 % ShortCount = 0
            BY Remainder, ShortCountProps
        <3>6. u1 = u - m + 0
            BY <2>1, <2>6, <3>1, <3>4, <3>5
        <3>7. QED
            BY <2>3, <2>7, <3>6
    <2>9. (v + u - c) % ShortCount = 0
        BY <1>1, <2>1 DEF Kept, BalancedAt
    <2>10. Multiple((w + u1 - c1) - (v + u - c))
        <3>1. Multiple(((c + w - (v + d)) - c1) + (d - m))
            BY <2>2, <2>4, <2>5, <2>7, MultipleSum
        <3>2. (w + u1 - c1) - (v + u - c) = ((c + w - (v + d)) - c1) + (d - m)
            BY <2>2, <2>3, <2>5, <2>7, <2>8
        <3>3. QED
            BY <3>1, <3>2
    <2>11. (w + u1 - c1) % ShortCount = 0
        <3>1. w + u1 - c1 \in Int /\ v + u - c \in Int
            BY <2>2, <2>3, <2>5
        <3>2. QED
            BY <2>9, <2>10, <3>1, MultipleShift
    <2>12. QED
        BY <1>11, <2>1, <2>11 DEF BalancedAt
<1>14. QED
    BY <1>1, <1>11, <1>12, <1>13 DEF Sound, Kept

(***************************************************************************)
(* freeundos.                                                              *)
(***************************************************************************)
\* r has the structures of the first n of list, without some of removed arrays.
Pruned(list, n, r) ==
    /\ \A i \in DOMAIN r : \E m \in 1 .. n : r[i] = list[m]
    /\ \A m \in 1 .. n : list[m].semid # -1 => \E i \in DOMAIN r : r[i] = list[m]
    /\ OneEach(list) => OneEach(r)

\* One more structure is kept, or freed if its array was removed.
LEMMA PrunedMore ==
    ASSUME NEW list \in Seq(Undos), NEW n \in 1 .. Len(list), NEW r \in Seq(Undos),
           Pruned(list, n - 1, r), NEW s,
           (s = r /\ list[n].semid = -1) \/ s = Append(r, list[n])
    PROVE  s \in Seq(Undos) /\ Pruned(list, n, s)
<1>1. n \in Nat /\ Len(list) \in Nat /\ DOMAIN list = 1 .. Len(list) /\ list[n] \in Undos
    OBVIOUS
<1>2. \A m \in 1 .. n : m = n \/ m \in 1 .. n - 1
    BY <1>1
<1>3. \A m \in 1 .. n - 1 : m \in 1 .. n /\ m \in DOMAIN list /\ m # n
    BY <1>1
<1>4. n \in 1 .. n /\ n \in DOMAIN list
    BY <1>1
<1>5. CASE s = r /\ list[n].semid = -1
    BY <1>2, <1>3, <1>5 DEF Pruned
<1>6. CASE s = Append(r, list[n])
    <2>1. PICK l, u : l = Len(r) /\ u = list[n]
        OBVIOUS
    <2>2. /\ s \in Seq(Undos) /\ l \in Nat /\ DOMAIN r = 1 .. l /\ DOMAIN s = 1 .. l + 1
          /\ s[l + 1] = u /\ \A i \in 1 .. l : s[i] = r[i]
        BY <1>1, <1>6, <2>1, AppendProperties
    <2>3. \A i \in 1 .. l + 1 : i \in 1 .. l \/ i = l + 1
        BY <2>2
    <2>4. 1 .. l \subseteq 1 .. l + 1 /\ l + 1 \in 1 .. l + 1
        BY <2>2
    <2>5. ASSUME NEW i \in DOMAIN s PROVE \E m \in 1 .. n : s[i] = list[m]
        <3>1. CASE i = l + 1
            BY <1>4, <2>1, <2>2, <3>1
        <3>2. CASE i \in 1 .. l
            <4>1. PICK m \in 1 .. n - 1 : r[i] = list[m]
                BY <2>2, <3>2 DEF Pruned
            <4>2. QED
                BY <1>3, <2>2, <3>2, <4>1
        <3>3. QED
            BY <2>2, <2>3, <3>1, <3>2
    <2>6. ASSUME NEW m \in 1 .. n, list[m].semid # -1 PROVE \E i \in DOMAIN s : s[i] = list[m]
        <3>1. CASE m = n
            BY <2>1, <2>2, <2>4, <3>1
        <3>2. CASE m \in 1 .. n - 1
            <4>1. PICK i \in 1 .. l : r[i] = list[m]
                BY <2>2, <2>6, <3>2 DEF Pruned
            <4>2. QED
                BY <2>2, <2>4, <4>1
        <3>3. QED
            BY <1>2, <3>1, <3>2
    <2>7. ASSUME OneEach(list) PROVE OneEach(s)
        <3>1. OneEach(r)
            BY <2>7 DEF Pruned
        <3>2. ASSUME NEW i \in 1 .. l, r[i].semid # -1, u.semid # -1, r[i].arr = u.arr PROVE FALSE
            <4>1. PICK m \in 1 .. n - 1 : r[i] = list[m]
                BY <2>2 DEF Pruned
            <4>2. m = n
                BY <1>3, <1>4, <2>1, <2>7, <3>2, <4>1 DEF OneEach
            <4>3. QED
                BY <1>3, <4>2
        <3>3. SUFFICES ASSUME NEW i \in 1 .. l + 1, NEW j \in 1 .. l + 1,
                              s[i].semid # -1, s[j].semid # -1, s[i].arr = s[j].arr
                       PROVE  i = j
            BY <2>2 DEF OneEach
        <3>4. CASE i \in 1 .. l /\ j \in 1 .. l
            BY <2>2, <3>1, <3>3, <3>4 DEF OneEach
        <3>5. CASE i = l + 1 /\ j \in 1 .. l
            BY <2>2, <3>2, <3>3, <3>5
        <3>6. CASE i \in 1 .. l /\ j = l + 1
            BY <2>2, <3>2, <3>3, <3>6
        <3>7. QED
            BY <2>3, <3>4, <3>5, <3>6
    <2>8. QED
        BY <2>2, <2>5, <2>6, <2>7 DEF Pruned
<1>7. QED
    BY <1>5, <1>6
FreeTurn(list, id, h, n) ==
    IF n = 0 THEN <<>>
    ELSE IF list[n].semid = -1 /\ (UndoPos(list, id) = 0 \/ n < UndoPos(list, id)) THEN h[n - 1]
    ELSE Append(h[n - 1], list[n])

\* Only structures of removed arrays are freed.
LEMMA FreeUndos ==
    ASSUME NEW list \in Seq(Undos), NEW id
    PROVE  freeundos(list, id) \in Seq(Undos) /\ Pruned(list, Len(list), freeundos(list, id))
<1>1. PICK n : n = Len(list)
    OBVIOUS
<1>2. n \in Nat /\ DOMAIN list = 1 .. n
    BY <1>1
<1>3. PICK freed : freed = [i \in 1 .. n |->
         list[i].semid = -1 /\ (UndoPos(list, id) = 0 \/ i < UndoPos(list, id))]
    OBVIOUS
<1>4. PICK turn : turn = [i \in 1 .. n |-> [s \in Seq(Undos) |->
         IF freed[i] THEN s ELSE Append(s, list[i])]]
    OBVIOUS
<1>5. <<>> \in Seq(Undos)
    OBVIOUS
<1>6. \A i \in 1 .. n, s \in Seq(Undos) : Append(s, list[i]) \in Seq(Undos)
    BY <1>1, AppendProperties
<1>7. Loop(Seq(Undos), <<>>, n, turn)
    BY <1>2, <1>4, <1>5, <1>6 DEF Loop
<1>8. PICK f : CourseOf(Seq(Undos), <<>>, n, turn, f)
    BY ONLY <1>7, Iterate, Zenon
<1>9. f \in [0 .. n -> Seq(Undos)] /\ f[0] = <<>> /\ \A i \in 1 .. n : f[i] = turn[i][f[i - 1]]
    BY <1>8 DEF CourseOf
<1>10. ASSUME NEW i \in 0 .. n PROVE f[i] = FreeTurn(list, id, f, i)
    <2>1. CASE i = 0
        BY <1>9, <2>1 DEF FreeTurn
    <2>2. CASE i # 0
        <3>1. i \in 1 .. n /\ i - 1 \in 0 .. n
            BY <1>2, <2>2
        <3>2. f[i - 1] \in Seq(Undos)
            BY <1>9, <3>1
        <3>3. f[i] = IF freed[i] THEN f[i - 1] ELSE Append(f[i - 1], list[i])
            BY <1>4, <1>9, <3>1, <3>2
        <3>4. freed[i] <=> list[i].semid = -1 /\ (UndoPos(list, id) = 0 \/ i < UndoPos(list, id))
            BY <1>3, <3>1, Zenon
        <3>5. QED
            BY <2>2, <3>3, <3>4, Zenon DEF FreeTurn
    <2>3. QED
        BY <2>1, <2>2
<1>11. f = [i \in 0 .. n |-> FreeTurn(list, id, f, i)]
    BY <1>9, <1>10
<1>12. PICK g : g = [i \in 0 .. n |-> FreeTurn(list, id, g, i)] /\ freeundos(list, id) = g[n]
    <2> DEFINE G == CHOOSE h : h = [i \in 0 .. Len(list) |->
                        IF i = 0 THEN <<>>
                        ELSE IF list[i].semid = -1 /\ (UndoPos(list, id) = 0 \/ i < UndoPos(list, id))
                        THEN h[i - 1] ELSE Append(h[i - 1], list[i])]
    <2>1. freeundos(list, id) = G[Len(list)]
        BY Zenon DEF freeundos
    <2>2. \E h : h = [i \in 0 .. Len(list) |->
                        IF i = 0 THEN <<>>
                        ELSE IF list[i].semid = -1 /\ (UndoPos(list, id) = 0 \/ i < UndoPos(list, id))
                        THEN h[i - 1] ELSE Append(h[i - 1], list[i])]
        BY <1>1, <1>11, Zenon DEF FreeTurn
    <2>3. G = [i \in 0 .. Len(list) |->
                        IF i = 0 THEN <<>>
                        ELSE IF list[i].semid = -1 /\ (UndoPos(list, id) = 0 \/ i < UndoPos(list, id))
                        THEN G[i - 1] ELSE Append(G[i - 1], list[i])]
        BY <2>2, Zenon
    <2> HIDE DEF G
    <2>4. QED
        BY <2>1, <2>3, <1>1, Zenon DEF FreeTurn
<1>13. \A i \in 0 .. n : g[i] = FreeTurn(list, id, g, i)
    BY <1>12, Zenon
<1>14. PICK S : S = {i \in 0 .. n : g[i] \in Seq(Undos) /\ Pruned(list, i, g[i])}
    OBVIOUS
<1>15. 0 \in S
    <2>1. 0 \in 0 .. n
        BY <1>2
    <2>2. g[0] = <<>>
        BY <1>13, <2>1 DEF FreeTurn
    <2>3. Pruned(list, 0, <<>>)
        BY DEF Pruned, OneEach
    <2>4. g[0] \in Seq(Undos) /\ Pruned(list, 0, g[0])
        BY <1>5, <2>2, <2>3
    <2>5. QED
        BY <1>14, <2>1, <2>4
<1>16. ASSUME NEW i \in 1 .. n, i - 1 \in S PROVE i \in S
    <2>1. PICK r, s : r = g[i - 1] /\ s = g[i]
        OBVIOUS
    <2>2. r \in Seq(Undos) /\ Pruned(list, i - 1, r) /\ i \in 0 .. n /\ i # 0
        BY <1>2, <1>14, <1>16, <2>1
    <2>3. (s = r /\ list[i].semid = -1) \/ s = Append(r, list[i])
        BY <1>13, <2>1, <2>2 DEF FreeTurn
    <2>4. s \in Seq(Undos) /\ Pruned(list, i, s)
        BY <1>1, <2>2, <2>3, PrunedMore
    <2>5. QED
        BY <1>14, <2>1, <2>2, <2>4
<1>17. n \in S
    <2>1. n \in 0 .. n
        BY <1>2
    <2>2. QED
        BY <1>2, <1>15, <1>16, <2>1, TurnByTurn
<1>18. QED
    BY <1>1, <1>12, <1>14, <1>17

\* The walk to the structure of an identifier.
LEMMA UndoFound ==
    ASSUME NEW list \in Seq(Undos), NEW id
    PROVE  UndoPos(list, id) = 0 <=> \A n \in DOMAIN list : list[n].semid # id
<1>1. PICK S : S = {n \in DOMAIN list : list[n].semid = id}
    OBVIOUS
<1>2. UndoPos(list, id) = IF S = {} THEN 0 ELSE Min(S)
    BY <1>1, Zenon DEF UndoPos
<1>3. CASE S = {}
    BY <1>1, <1>2, <1>3
<1>4. CASE S # {}
    <2>1. S \in SUBSET Nat /\ \A x \in S : x # 0
        BY <1>1
    <2>2. Min(S) \in S
        BY <1>4, <2>1, MinProps
    <2>3. QED
        BY <1>1, <1>2, <1>4, <2>1, <2>2
<1>5. QED
    BY <1>3, <1>4

\* What freeing structures of removed arrays leaves is still in order.
LEMMA PrunedListed ==
    ASSUME NEW p \in Procs, Listed(p), semundo \in [Procs -> Seq(Undos)],
           semundo'[p] \in Seq(Undos), Pruned(semundo[p], Len(semundo[p]), semundo'[p]),
           UndoSame(p), \A id \in SemIds, k \in Arrays : Exact(id, k) => Exact(id, k)'
    PROVE  Listed(p)'
<1>1. PICK L, R : L = semundo[p] /\ R = semundo'[p]
    OBVIOUS
<1>2. L \in Seq(Undos) /\ R \in Seq(Undos) /\ Pruned(L, Len(L), R) /\ DOMAIN L = 1 .. Len(L)
    BY <1>1
<1>3. ASSUME NEW n \in DOMAIN R PROVE Backed(p, R[n])'
    <2>1. PICK m \in DOMAIN L : R[n] = L[m]
        BY <1>2 DEF Pruned
    <2>2. PICK u : u = L[m]
        OBVIOUS
    <2>3. u \in Undos /\ Backed(p, u)
        BY <1>1, <1>2, <2>2 DEF Listed
    <2>4. Backed(p, u)'
        BY <2>3, SameBacked
    <2>5. QED
        BY <2>1, <2>2, <2>4
<1>4. (\A n \in DOMAIN semundo[p] : Backed(p, semundo[p][n]))'
    BY <1>1, <1>3
<1>5. OneEach(R)
    BY <1>1, <1>2 DEF Listed, Pruned
<1>6. ASSUME NEW k \in Arrays, p \in arr'[k].undo PROVE Covers(R, k)
    <2>1. p \in arr[k].undo
        BY <1>6 DEF UndoSame
    <2>2. PICK m \in DOMAIN L : L[m].arr = k /\ L[m].semid # -1
        BY <1>1, <2>1 DEF Listed, Covers
    <2>3. PICK i \in DOMAIN R : R[i] = L[m]
        BY <1>2, <2>2 DEF Pruned
    <2>4. QED
        BY <2>2, <2>3 DEF Covers
<1>7. QED
    BY <1>1, <1>4, <1>5, <1>6 DEF Listed

(***************************************************************************)
(* The end of a call.                                                      *)
(***************************************************************************)
CallTyped ==
    /\ pc \in [Procs -> PCs] /\ cur \in [Procs -> Arrays \cup {NULL}] /\ semid \in [Procs -> SemIds]
    /\ sops \in [Procs -> SopLists \cup {<<>>}] /\ io \in [Procs -> {<<>>} \cup [Sems -> Vals]]

\* Goto moves p alone.
LEMMA GotoEffect ==
    ASSUME pc \in [Procs -> PCs], NEW p \in Procs, NEW where \in PCs, Goto(p, where)
    PROVE  /\ pc' \in [Procs -> PCs] /\ pc'[p] = where
           /\ \A q \in Procs \ {p} : pc'[q] = pc[q]
BY DEF Goto

\* Leave ends the locals of p alone.
LEMMA LeaveEffect ==
    ASSUME Typed, NEW p \in Procs, Leave(p)
    PROVE  CallTyped' /\ pc'[p] = "idle" /\ \A q \in Procs \ {p} : CallSame(q)
<1>1. /\ pc \in [Procs -> PCs] /\ cur \in [Procs -> Arrays \cup {NULL}]
      /\ semid \in [Procs -> SemIds] /\ sops \in [Procs -> SopLists \cup {<<>>}]
      /\ io \in [Procs -> {<<>>} \cup [Sems -> Vals]]
    BY DEF Typed
<1>2. /\ pc' \in [Procs -> PCs] /\ pc'[p] = "idle" /\ \A q \in Procs \ {p} : pc'[q] = pc[q]
    <2>1. Goto(p, "idle") /\ "idle" \in PCs
        BY DEF Leave, PCs
    <2>2. QED
        BY <1>1, <2>1, GotoEffect
<1>3. cur' \in [Procs -> Arrays \cup {NULL}] /\ \A q \in Procs \ {p} : cur'[q] = cur[q]
    BY <1>1 DEF Leave
<1>4. semid' \in [Procs -> SemIds] /\ \A q \in Procs \ {p} : semid'[q] = semid[q]
    BY <1>1, IdSlot DEF Leave
<1>5. sops' \in [Procs -> SopLists \cup {<<>>}] /\ \A q \in Procs \ {p} : sops'[q] = sops[q]
    BY <1>1 DEF Leave
<1>6. io' \in [Procs -> {<<>>} \cup [Sems -> Vals]] /\ \A q \in Procs \ {p} : io'[q] = io[q]
    BY <1>1 DEF Leave
<1>7. QED
    BY <1>2, <1>3, <1>4, <1>5, <1>6 DEF CallTyped, CallSame

\* A process outside the calls that wait is in no queue.
LEMMA IdleProc ==
    ASSUME NEW p \in Procs, pc'[p] \in {"idle", "exit"}, status'[p] = "ok", Listed(p)',
           \A j \in Arrays : p \notin ToSet(arr'[j].pending)
    PROVE  ProcInv(p)'
<1>1. ~Waiting(p)'
    BY DEF Waiting
<1>2. Queued(p)'
    BY <1>1 DEF Queued
<1>3. Placed(p)'
    BY DEF Placed
<1>4. Waits(p)'
    BY <1>1 DEF Waits
<1>5. Owns(p)'
    BY DEF Owns
<1>6. QED
    BY <1>2, <1>3, <1>4, <1>5 DEF ProcInv

\* When an array may be put back.
LEMMA FitsFrom ==
    ASSUME Inv, NEW p \in Procs, NEW k \in Arrays, NEW a, Sound(a),
           ToSet(a.pending) = ToSet(arr[k].pending) \ {p},
           \A q \in Procs \ {p} : q \in a.undo <=> q \in arr[k].undo,
           Waiting(p) => cur[p] = k
    PROVE  Fits(p, k, a)
<1>1. ASSUME NEW q \in ToSet(a.pending) PROVE Able(a.undo, q)
    <2>1. q \in Procs \ {p} /\ Able(arr[k].undo, q)
        BY InQueue
    <2>2. QED
        BY <2>1 DEF Able
<1>2. QED
    BY <1>1 DEF Fits

\* The step ends the call of p, or brings it back to sem_exit.
LEMMA FinishedKept ==
    ASSUME Inv, NEW p, NEW k, NEW a, NEW walk, NEW b, Fits(p, k, a), Finished(p, k, a, walk, b),
           TableSame, LocalsTyped', \A q \in Procs \ {p} : LocalSame(q),
           pc'[p] \in {"idle", "exit"}, Listed(p)',
           walk \/ (a.semval = arr[k].semval /\ a.mixed = arr[k].mixed /\ status[p] # "retry")
    PROVE  Inv'
<1>1. /\ Touches(p, k, b) /\ ToSet(b.pending) \subseteq ToSet(a.pending)
      /\ arr'[k] = b /\ status'[p] = "ok" /\ Alert(b, status')
    BY DEF Finished
<1>2. /\ p \in Procs /\ k \in Arrays /\ ToSet(a.pending) = ToSet(arr[k].pending) \ {p}
      /\ (Waiting(p) => cur[p] = k)
    BY DEF Fits
<1>3. arr \in [Arrays -> ArraysOf(Nat)] /\ ProcInv(p)
    BY <1>2 DEF Inv, Typed
<1>4. ASSUME NEW j \in Arrays PROVE p \notin ToSet(arr'[j].pending)
    <2>1. CASE j = k
        BY <1>1, <1>2, <2>1
    <2>2. CASE j # k
        <3>1. arr'[j] = arr[j]
            BY <1>1, <1>3, <2>2 DEF Touches
        <3>2. QED
            BY <1>2, <1>3, <2>2, <3>1 DEF ProcInv, Queued
    <2>3. QED
        BY <2>1, <2>2
<1>5. ProcInv(p)'
    BY <1>1, <1>2, <1>4, IdleProc
<1>6. Alert(arr[k], status)'
    <2>1. Alert(b, status') /\ b = arr'[k]
        BY <1>1
    <2>2. \A q \in ToSet(b.pending) : q \in Procs \ {p}
        BY <1>1, <1>2, InQueue
    <2>3. \A q \in ToSet(b.pending) : sops'[q] = sops[q]
        BY <2>2 DEF LocalSame
    <2>4. QED
        BY <2>1, <2>3, AlertNext
<1>7. QED
    BY <1>1, <1>2, <1>5, <1>6, StepKept

\* The undo list of array k is that of a, as far as p is concerned.
LEMMA FinishedUndo ==
    ASSUME Typed, NEW p, NEW k, NEW a, NEW walk, NEW b, Finished(p, k, a, walk, b),
           p \in a.undo <=> p \in arr[k].undo
    PROVE  UndoSame(p)
<1>1. arr \in [Arrays -> ArraysOf(Nat)] /\ k \in Arrays /\ arr' = [arr EXCEPT ![k] = b]
      /\ b.undo = a.undo
    BY DEF Typed, Finished, Touches
<1>2. QED
    BY <1>1 DEF UndoSame

\* Identifiers name the same arrays after a step that leaves the table alone.
LEMMA ExactNext ==
    ASSUME TableSame
    PROVE  \A id \in SemIds, k \in Arrays : Exact(id, k) => Exact(id, k)'
<1>1. ids' = ids
    BY DEF TableSame
<1>2. QED
    BY <1>1, NamesNext

\* The locals are typed, those of the others unchanged.
LEMMA LocalsFrom ==
    ASSUME NEW p \in Procs, CallTyped', semundo' \in [Procs -> Seq(Undos)],
           \A q \in Procs \ {p} : CallSame(q) /\ semundo'[q] = semundo[q]
    PROVE  LocalsTyped' /\ \A q \in Procs \ {p} : LocalSame(q)
<1>1. LocalsTyped'
    BY DEF LocalsTyped, CallTyped
<1>2. QED
    BY <1>1 DEF LocalSame, CallSame

\* The same for a step of p that does not touch its undo structures.
LEMMA FinishesKept ==
    ASSUME Inv, NEW p \in Procs, NEW k, NEW a, NEW walk \in BOOLEAN, Fits(p, k, a),
           Finish(p, k, a, walk), InTable(k) \/ (~walk /\ a = arr[k]),
           walk \/ (a.semval = arr[k].semval /\ a.mixed = arr[k].mixed /\ status[p] # "retry"),
           TableSame, semundo' = semundo, a.undo = arr[k].undo,
           CallTyped', \A q \in Procs \ {p} : CallSame(q), pc'[p] \in {"idle", "exit"}
    PROVE  Inv'
<1>1. PICK b : Finished(p, k, a, walk, b)
    BY FinishEffect
<1>2. Typed /\ ProcInv(p) /\ semundo \in [Procs -> Seq(Undos)]
    BY DEF Inv, Typed
<1>3. UndoSame(p)
    BY <1>1, <1>2, FinishedUndo
<1>4. Listed(p)'
    <2>1. Listed(p) /\ semundo'[p] = semundo[p]
        BY <1>2 DEF ProcInv, Owns
    <2>2. QED
        BY <1>2, <1>3, <2>1, ExactNext, SameListed
<1>5. LocalsTyped' /\ \A q \in Procs \ {p} : LocalSame(q)
    BY <1>2, LocalsFrom
<1>6. QED
    BY <1>1, <1>4, <1>5, FinishedKept

(***************************************************************************)
(* The steps that leave every array alone.                                 *)
(***************************************************************************)
LEMMA NoQueue ==
    ASSUME Inv, NEW p \in Procs, ~Waiting(p)
    PROVE  \A j \in Arrays : p \notin ToSet(arr[j].pending)
BY DEF Inv, ProcInv, Queued

\* The list of a process, when no array changes.
LEMMA QuietListed ==
    ASSUME Inv, NEW p \in Procs, TableSame, arr' = arr, semundo'[p] = semundo[p]
    PROVE  Listed(p)'
<1>1. Listed(p) /\ semundo \in [Procs -> Seq(Undos)]
    BY DEF Inv, ProcInv, Owns, Typed
<1>2. UndoSame(p)
    BY DEF UndoSame
<1>3. QED
    BY <1>1, <1>2, ExactNext, SameListed

StatusOk(p) == status' = [status EXCEPT ![p] = "ok"] \/ (status' = status /\ status[p] = "ok")

\* A call that ends without a write keeps the invariant.
LEMMA QuietEnds ==
    ASSUME Inv, NEW p \in Procs, ~Waiting(p), TableSame, arr' = arr, StatusOk(p), asleep' = asleep,
           semundo' \in [Procs -> Seq(Undos)], \A q \in Procs \ {p} : semundo'[q] = semundo[q],
           Listed(p)', CallTyped', \A q \in Procs \ {p} : CallSame(q), pc'[p] \in {"idle", "exit"}
    PROVE  Inv'
<1>1. Typed /\ status \in [Procs -> Status] /\ asleep \in SUBSET Procs
    BY DEF Inv, Typed
<1>2. /\ status' \in [Procs -> Status] /\ status'[p] = "ok"
      /\ \A q \in Procs \ {p} : status'[q] = status[q]
    BY <1>1 DEF StatusOk, Status
<1>3. LocalsTyped' /\ \A q \in Procs \ {p} : LocalSame(q)
    BY LocalsFrom
<1>4. ProcInv(p)'
    BY <1>2, NoQueue, IdleProc
<1>5. QED
    BY <1>1, <1>2, <1>3, <1>4, QuietKept

\* A failed allocation or copy.
LEMMA CallFailsKept == ASSUME Inv, NEW p \in Procs, CallFails(p) PROVE Inv'
<1>1. /\ pc[p] \in {"alloc", "setall"} /\ Leave(p) /\ TableSame /\ arr' = arr /\ status' = status
      /\ asleep' = asleep /\ semundo' = semundo
    BY DEF CallFails, TableSame, tableVars
<1>2. Typed /\ ProcInv(p) /\ semundo \in [Procs -> Seq(Undos)]
    BY DEF Inv, Typed
<1>3. ~Waiting(p) /\ StatusOk(p)
    BY <1>1, <1>2 DEF ProcInv, Placed, Waiting, StatusOk
<1>4. CallTyped' /\ pc'[p] = "idle" /\ \A q \in Procs \ {p} : CallSame(q)
    BY <1>1, <1>2, LeaveEffect
<1>5. Listed(p)'
    BY <1>1, QuietListed
<1>6. QED
    BY <1>1, <1>2, <1>3, <1>4, <1>5, QuietEnds

\* Goto with the locals left alone.
LEMMA GotoSame ==
    ASSUME Typed, NEW p \in Procs, NEW where \in PCs, Goto(p, where),
           cur' = cur, semid' = semid, sops' = sops, io' = io
    PROVE  CallTyped' /\ pc'[p] = where /\ \A q \in Procs \ {p} : CallSame(q)
<1>1. pc' \in [Procs -> PCs] /\ pc'[p] = where /\ \A q \in Procs \ {p} : pc'[q] = pc[q]
    BY GotoEffect DEF Typed
<1>2. QED
    BY <1>1 DEF CallTyped, CallSame, Typed

\* A sleeper whose identifier names no array any more.
LEMMA WakeGoneKept == ASSUME Inv, NEW p \in Procs, WakeGone(p) PROVE Inv'
<1>1. /\ pc[p] = "sleep" /\ ~Found(semid[p]) /\ TableSame /\ arr' = arr /\ asleep' = asleep
      /\ status' = [status EXCEPT ![p] = "ok"] /\ semundo' = semundo
      /\ (Leave(p) \/ (Goto(p, "exit") /\ cur' = cur /\ semid' = semid /\ sops' = sops /\ io' = io))
    BY DEF WakeGone, TableSame, tableVars, callVars
<1>2. Typed /\ ProcInv(p) /\ semundo \in [Procs -> Seq(Undos)] /\ Table(ids) /\ semid[p] \in SemIds
    BY DEF Inv, Typed, Tabled
<1>3. ~Waiting(p)
    <2>1. ~Names(semid[p], cur[p])
        BY <1>1, <1>2, Lookup
    <2>2. QED
        BY <1>2, <2>1 DEF ProcInv, Waits
<1>4. CallTyped' /\ pc'[p] \in {"idle", "exit"} /\ \A q \in Procs \ {p} : CallSame(q)
    <2>1. CASE Leave(p)
        BY <1>2, <2>1, LeaveEffect
    <2>2. CASE Goto(p, "exit") /\ cur' = cur /\ semid' = semid /\ sops' = sops /\ io' = io
        <3>1. "exit" \in PCs
            BY DEF PCs
        <3>2. QED
            BY <1>2, <2>2, <3>1, GotoSame
    <2>3. QED
        BY <1>1, <2>1, <2>2
<1>5. Listed(p)'
    BY <1>1, QuietListed
<1>6. StatusOk(p)
    BY <1>1 DEF StatusOk
<1>7. QED
    BY <1>1, <1>2, <1>3, <1>4, <1>5, <1>6, QuietEnds

\* The start of sem_exit.
LEMMA ExitKept == ASSUME Inv, NEW p \in Procs, Exit(p) PROVE Inv'
<1>1. /\ pc[p] = "idle" /\ Goto(p, "exit") /\ TableSame /\ arr' = arr /\ status' = status
      /\ asleep' = asleep /\ semundo' = semundo
      /\ cur' = cur /\ semid' = semid /\ sops' = sops /\ io' = io
    BY DEF Exit, TableSame, tableVars, callVars
<1>2. Typed /\ ProcInv(p) /\ semundo \in [Procs -> Seq(Undos)]
    BY DEF Inv, Typed
<1>3. ~Waiting(p) /\ StatusOk(p)
    BY <1>1, <1>2 DEF ProcInv, Placed, Waiting, StatusOk
<1>4. CallTyped' /\ pc'[p] = "exit" /\ \A q \in Procs \ {p} : CallSame(q)
    <2>1. "exit" \in PCs
        BY DEF PCs
    <2>2. QED
        BY <1>1, <1>2, <2>1, GotoSame
<1>5. Listed(p)'
    BY <1>1, QuietListed
<1>6. QED
    BY <1>1, <1>2, <1>3, <1>4, <1>5, QuietEnds

\* A structure of a removed array at the head of the list is taken off.
LEMMA TailPruned ==
    ASSUME NEW list \in Seq(Undos), list # <<>>
    PROVE  /\ Tail(list) \in Seq(Undos) /\ Head(list) = list[1] /\ 1 \in DOMAIN list
           /\ Len(list) \in Nat /\ DOMAIN list = 1 .. Len(list)
           /\ DOMAIN Tail(list) = 1 .. Len(list) - 1
           /\ \A i \in 1 .. Len(list) - 1 : Tail(list)[i] = list[i + 1]
           /\ Head(list).semid = -1 => Pruned(list, Len(list), Tail(list))
<1>1. PICK n, T : n = Len(list) /\ T = Tail(list)
    OBVIOUS
<1>2. /\ n \in Nat /\ n # 0 /\ DOMAIN list = 1 .. n /\ T \in Seq(Undos) /\ DOMAIN T = 1 .. n - 1
      /\ \A i \in 1 .. n - 1 : T[i] = list[i + 1]
    BY <1>1, EmptySeq, HeadTailProperties
<1>3. Head(list) = list[1] /\ 1 \in 1 .. n
    BY <1>1, <1>2
<1>4. \A i \in 1 .. n - 1 : i + 1 \in 1 .. n
    BY <1>2
<1>5. \A m \in 1 .. n : m = 1 \/ (m - 1 \in 1 .. n - 1 /\ (m - 1) + 1 = m)
    BY <1>2
<1>6. ASSUME Head(list).semid = -1 PROVE Pruned(list, n, T)
    <2>1. \A i \in DOMAIN T : \E m \in 1 .. n : T[i] = list[m]
        BY <1>2, <1>4
    <2>2. ASSUME NEW m \in 1 .. n, list[m].semid # -1 PROVE \E i \in DOMAIN T : T[i] = list[m]
        <3>1. m - 1 \in 1 .. n - 1 /\ (m - 1) + 1 = m
            BY <1>3, <1>5, <1>6, <2>2
        <3>2. T[m - 1] = list[m]
            BY <1>2, <3>1
        <3>3. QED
            BY <1>2, <3>1, <3>2
    <2>3. ASSUME OneEach(list) PROVE OneEach(T)
        <3>1. SUFFICES ASSUME NEW i \in 1 .. n - 1, NEW j \in 1 .. n - 1, T[i].semid # -1,
                              T[j].semid # -1, T[i].arr = T[j].arr
                       PROVE  i = j
            BY <1>2 DEF OneEach
        <3>2. i + 1 = j + 1
            BY <1>2, <1>4, <2>3, <3>1, ZenonT(60) DEF OneEach
        <3>3. QED
            BY <1>2, <3>2
    <2>4. QED
        BY <2>1, <2>2, <2>3 DEF Pruned
<1>7. QED
    BY <1>1, <1>2, <1>3, <1>6
\* sem_exit between two undo structures.
LEMMA ExitNextKept == ASSUME Inv, NEW p \in Procs, ExitNext(p) PROVE Inv'
<1>1. pc[p] = "exit" /\ TableSame /\ arr' = arr /\ status' = status /\ asleep' = asleep
    BY DEF ExitNext, TableSame, tableVars
<1>2. /\ Typed /\ ProcInv(p) /\ semundo \in [Procs -> Seq(Undos)] /\ Listed(p)
      /\ status \in [Procs -> Status] /\ asleep \in SUBSET Procs
    BY DEF Inv, Typed, ProcInv, Owns
<1>3. ~Waiting(p) /\ StatusOk(p) /\ status[p] = "ok"
    BY <1>1, <1>2 DEF ProcInv, Placed, Waiting, StatusOk
<1>4. CASE Leave(p) /\ semundo' = semundo
    <2>1. CallTyped' /\ pc'[p] = "idle" /\ \A q \in Procs \ {p} : CallSame(q)
        BY <1>2, <1>4, LeaveEffect
    <2>2. Listed(p)'
        BY <1>1, <1>4, QuietListed
    <2>3. QED
        BY <1>1, <1>2, <1>3, <1>4, <2>1, <2>2, QuietEnds
<1>5. CASE /\ semundo[p] # <<>> /\ Head(semundo[p]).semid = -1
           /\ semundo' = [semundo EXCEPT ![p] = Tail(@)]
           /\ pc' = pc /\ cur' = cur /\ semid' = semid /\ sops' = sops /\ io' = io
    <2>1. PICK L, T : L = semundo[p] /\ T = Tail(L)
        OBVIOUS
    <2>2. L \in Seq(Undos) /\ T \in Seq(Undos) /\ Pruned(L, Len(L), T)
        BY <1>2, <1>5, <2>1, TailPruned
    <2>3. /\ semundo' \in [Procs -> Seq(Undos)] /\ semundo'[p] = T
          /\ \A q \in Procs \ {p} : semundo'[q] = semundo[q]
        BY <1>2, <1>5, <2>1, <2>2
    <2>4. UndoSame(p)
        BY <1>1 DEF UndoSame
    <2>5. Listed(p)'
        BY <1>1, <1>2, <2>1, <2>2, <2>3, <2>4, ExactNext, PrunedListed
    <2>6. CallTyped' /\ \A q \in Procs \ {p} : CallSame(q)
        BY <1>2, <1>5 DEF CallTyped, CallSame, Typed
    <2>7. pc'[p] = "exit"
        BY <1>1, <1>5
    <2>8. QED
        BY <1>1, <1>2, <1>3, <2>3, <2>5, <2>6, <2>7, QuietEnds
<1>6. CASE /\ semundo[p] # <<>> /\ Head(semundo[p]).semid # -1
           /\ semid' = [semid EXCEPT ![p] = Head(semundo[p]).semid]
           /\ Goto(p, "adjust") /\ semundo' = semundo /\ cur' = cur /\ sops' = sops /\ io' = io
    <2>1. PICK u : u = Head(semundo[p])
        OBVIOUS
    <2>2. u \in Undos
        BY <1>2, <1>6, <2>1, TailPruned
    <2>3. u.semid \in SemIds
        BY <1>6, <2>1, <2>2 DEF Undos
    <2>4. /\ semid' \in [Procs -> SemIds] /\ semid'[p] = u.semid
          /\ \A q \in Procs \ {p} : semid'[q] = semid[q]
        BY <1>2, <1>6, <2>1, <2>3 DEF Typed
    <2>5. pc' \in [Procs -> PCs] /\ pc'[p] = "adjust" /\ \A q \in Procs \ {p} : pc'[q] = pc[q]
        <3>1. "adjust" \in PCs
            BY DEF PCs
        <3>2. QED
            BY <1>2, <1>6, <3>1, GotoEffect DEF Typed
    <2>6. LocalsTyped' /\ \A q \in Procs \ {p} : LocalSame(q)
        BY <1>2, <1>6, <2>4, <2>5 DEF LocalsTyped, LocalSame, Typed
    <2>7. Listed(p)'
        BY <1>1, <1>6, QuietListed
    <2>8. ProcInv(p)'
        <3>1. ~Waiting(p)'
            BY <2>5 DEF Waiting
        <3>2. Queued(p)'
            BY <1>1, <1>3, <3>1, NoQueue DEF Queued
        <3>3. Placed(p)' /\ Waits(p)'
            BY <1>1, <1>3, <2>5, <3>1 DEF Placed, Waits
        <3>4. Owns(p)'
            BY <1>6, <2>1, <2>4, <2>5, <2>7 DEF Owns
        <3>5. QED
            BY <3>2, <3>3, <3>4 DEF ProcInv
    <2>9. QED
        BY <1>1, <1>2, <1>3, <2>6, <2>8, QuietKept
<1>7. QED
    BY <1>4, <1>5, <1>6 DEF ExitNext, callVars

\* SETALL gives the lock up.
LEMMA SetallBeginKept ==
    ASSUME Inv, NEW p \in Procs, NEW id \in SemIds, NEW v \in [Sems -> Vals], SetallBegin(p, id, v)
    PROVE  Inv'
<1>1. /\ pc[p] = "idle" /\ Found(id) /\ TableSame /\ arr' = arr /\ status' = status
      /\ asleep' = asleep /\ semundo' = semundo /\ sops' = sops /\ Goto(p, "setall")
      /\ cur' = [cur EXCEPT ![p] = ArrayOf(id)] /\ semid' = [semid EXCEPT ![p] = id]
      /\ io' = [io EXCEPT ![p] = v]
    BY DEF SetallBegin, TableSame, tableVars
<1>2. /\ Typed /\ ProcInv(p) /\ semundo \in [Procs -> Seq(Undos)] /\ Table(ids)
      /\ status \in [Procs -> Status] /\ asleep \in SUBSET Procs
    BY DEF Inv, Typed, Tabled
<1>3. ~Waiting(p) /\ status[p] = "ok"
    BY <1>1, <1>2 DEF ProcInv, Placed, Waiting
<1>4. PICK k : k = ArrayOf(id)
    OBVIOUS
<1>5. k \in Arrays
    BY <1>1, <1>2, <1>4, Lookup
<1>6. /\ cur' \in [Procs -> Arrays \cup {NULL}] /\ cur'[p] = k
      /\ \A q \in Procs \ {p} : cur'[q] = cur[q]
    BY <1>1, <1>2, <1>4, <1>5 DEF Typed
<1>7. semid' \in [Procs -> SemIds] /\ \A q \in Procs \ {p} : semid'[q] = semid[q]
    BY <1>1, <1>2 DEF Typed
<1>8. /\ io' \in [Procs -> {<<>>} \cup [Sems -> Vals]] /\ io'[p] = v
      /\ \A q \in Procs \ {p} : io'[q] = io[q]
    <2>1. PICK X : X = [Sems -> Vals]
        OBVIOUS
    <2>2. io \in [Procs -> {<<>>} \cup X] /\ v \in X
        BY <1>2, <2>1 DEF Typed
    <2>3. /\ io' \in [Procs -> {<<>>} \cup X] /\ io'[p] = v
          /\ \A q \in Procs \ {p} : io'[q] = io[q]
        BY ONLY <1>1, <2>2, p \in Procs
    <2>4. QED
        BY <2>1, <2>3
<1>9. pc' \in [Procs -> PCs] /\ pc'[p] = "setall" /\ \A q \in Procs \ {p} : pc'[q] = pc[q]
    <2>1. "setall" \in PCs
        BY DEF PCs
    <2>2. QED
        BY <1>1, <1>2, <2>1, GotoEffect DEF Typed
<1>10. LocalsTyped' /\ \A q \in Procs \ {p} : LocalSame(q)
    BY <1>1, <1>2, <1>6, <1>7, <1>8, <1>9 DEF LocalsTyped, LocalSame, Typed
<1>11. Listed(p)'
    BY <1>1, QuietListed
<1>12. ProcInv(p)'
    <2>1. ~Waiting(p)'
        BY <1>9 DEF Waiting
    <2>2. Queued(p)'
        BY <1>1, <1>3, <2>1, NoQueue DEF Queued
    <2>3. Placed(p)' /\ Waits(p)'
        BY <1>1, <1>3, <1>5, <1>6, <1>8, <1>9, <2>1 DEF Placed, Waits
    <2>4. Owns(p)'
        BY <1>9, <1>11 DEF Owns
    <2>5. QED
        BY <2>2, <2>3, <2>4 DEF ProcInv
<1>13. QED
    BY <1>1, <1>2, <1>3, <1>10, <1>12, QuietKept

(***************************************************************************)
(* The steps that end with an array put back.                              *)
(***************************************************************************)
\* A step of a process in no queue, which leaves queue and undo list of the array.
LEMMA FitsSame ==
    ASSUME Inv, NEW p \in Procs, ~Waiting(p), NEW k \in Arrays, NEW a, Sound(a),
           a.pending = arr[k].pending, \A q \in Procs \ {p} : q \in a.undo <=> q \in arr[k].undo
    PROVE  Fits(p, k, a)
<1>1. p \notin ToSet(arr[k].pending)
    BY NoQueue
<1>2. ToSet(a.pending) = ToSet(arr[k].pending) \ {p}
    BY <1>1
<1>3. QED
    BY <1>2, FitsFrom

\* SETVAL.
LEMMA SetvalKept ==
    ASSUME Inv, NEW p \in Procs, NEW id \in SemIds, NEW i \in Sems, NEW v \in Vals,
           Setval(p, id, i, v)
    PROVE  Inv'
<1>1. PICK k, b : k = ArrayOf(id) /\ b = SetValues(arr[k], {i}, [j \in Sems |-> v])
    OBVIOUS
<1>2. /\ pc[p] = "idle" /\ Found(id) /\ TableSame /\ semundo' = semundo
      /\ Finish(p, k, b, TRUE)
      /\ pc' = pc /\ cur' = cur /\ semid' = semid /\ sops' = sops /\ io' = io
    BY <1>1, Zenon DEF Setval, TableSame, tableVars, callVars
<1>3. Typed /\ Stored /\ ProcInv(p) /\ Table(ids)
    BY DEF Inv, Tabled
<1>4. ~Waiting(p)
    BY <1>2 DEF Waiting
<1>5. k \in Arrays /\ InTable(k)
    BY <1>1, <1>2, <1>3, Lookup
<1>6. Sound(b) /\ b.pending = arr[k].pending /\ b.undo = arr[k].undo
    <2>1. PICK S, vs : S = {i} /\ vs = [j \in Sems |-> v]
        OBVIOUS
    <2>2. S \subseteq Sems /\ vs \in [Sems -> Vals] /\ Sound(arr[k])
        BY <1>3, <1>5, <2>1 DEF Stored
    <2>3. SetsValues(arr[k], S, vs, b)
        BY <1>1, <2>1, <2>2, Zenon DEF SetsValues
    <2>4. QED
        BY <2>3, ValuesSet
<1>7. Fits(p, k, b)
    BY <1>4, <1>5, <1>6, FitsSame
<1>8. CallTyped' /\ \A q \in Procs \ {p} : CallSame(q)
    BY <1>2, <1>3 DEF CallTyped, CallSame, Typed
<1>9. pc'[p] = "idle"
    BY <1>2
<1>10. QED
    BY <1>2, <1>5, <1>6, <1>7, <1>8, <1>9, FinishesKept

\* SETALL has the lock again, and maybe finds the array gone.
LEMMA SetallEndKept == ASSUME Inv, NEW p \in Procs, SetallEnd(p) PROVE Inv'
<1>1. PICK k, id : k = cur[p] /\ id = semid[p]
    OBVIOUS
<1>2. /\ pc[p] = "setall" /\ Leave(p) /\ TableSame /\ semundo' = semundo
      /\ \/ sem_revalidate(id, k) /\ Finish(p, k, SetValues(arr[k], Sems, io[p]), TRUE)
         \/ arr' = arr /\ status' = status /\ asleep' = asleep
    BY <1>1, Zenon DEF SetallEnd, TableSame, tableVars
<1>3. Typed /\ Stored /\ ProcInv(p) /\ Table(ids) /\ id \in SemIds /\ semundo \in [Procs -> Seq(Undos)]
    BY <1>1 DEF Inv, Tabled, Typed
<1>4. ~Waiting(p) /\ status[p] = "ok" /\ io[p] \in [Sems -> Vals]
    BY <1>2, <1>3 DEF Waiting, ProcInv, Placed
<1>5. CallTyped' /\ pc'[p] = "idle" /\ \A q \in Procs \ {p} : CallSame(q)
    BY <1>2, <1>3, LeaveEffect
<1>6. CASE sem_revalidate(id, k) /\ Finish(p, k, SetValues(arr[k], Sems, io[p]), TRUE)
    <2>1. k \in Arrays /\ InTable(k)
        <3>1. Found(id) /\ ArrayOf(id) = k
            BY <1>6 DEF sem_revalidate
        <3>2. QED
            BY <1>3, <3>1, Lookup
    <2>2. PICK b : b = SetValues(arr[k], Sems, io[p])
        OBVIOUS
    <2>3. SetsValues(arr[k], Sems, io[p], b)
        BY <1>3, <1>4, <2>1, <2>2 DEF SetsValues, Stored
    <2>4. Sound(b) /\ b.pending = arr[k].pending /\ b.undo = arr[k].undo
        BY <2>3, ValuesSet
    <2>5. Fits(p, k, b)
        BY <1>4, <2>1, <2>4, FitsSame
    <2>6. Finish(p, k, b, TRUE)
        BY <1>6, <2>2
    <2>7. QED
        BY <1>2, <1>5, <2>1, <2>4, <2>5, <2>6, FinishesKept
<1>7. CASE arr' = arr /\ status' = status /\ asleep' = asleep
    <2>1. Listed(p)'
        BY <1>2, <1>7, QuietListed
    <2>2. StatusOk(p)
        BY <1>4, <1>7 DEF StatusOk
    <2>3. QED
        BY <1>2, <1>3, <1>4, <1>5, <1>7, <2>1, <2>2, QuietEnds
<1>8. QED
    BY <1>2, <1>6, <1>7

\* A sleeper that was interrupted, or for which all has been done, returns.
LEMMA WakeDoneKept == ASSUME Inv, NEW p \in Procs, WakeDone(p) PROVE Inv'
<1>1. PICK k, b, walk : /\ k = cur[p] /\ b = remove_from_queue(arr[k], p)
                        /\ walk = (p \in ToSet(arr[k].pending) /\ Alter(sops[p]))
    OBVIOUS
<1>2. /\ pc[p] = "sleep" /\ status[p] # "retry" /\ Leave(p) /\ TableSame /\ semundo' = semundo
      /\ Finish(p, k, b, walk)
    BY <1>1, Zenon DEF WakeDone, TableSame, tableVars
<1>3. Typed /\ Stored /\ ProcInv(p) /\ Table(ids) /\ semid[p] \in SemIds
    BY DEF Inv, Tabled, Typed
<1>4. k \in Arrays /\ walk \in BOOLEAN
    BY <1>1, <1>2, <1>3, Zenon DEF ProcInv, Placed
<1>5. /\ Requeued(arr[k], b, RemoveFirst(arr[k].pending, p))
      /\ ToSet(RemoveFirst(arr[k].pending, p)) = ToSet(arr[k].pending) \ {p}
      /\ p \notin ToSet(arr[k].pending) => RemoveFirst(arr[k].pending, p) = arr[k].pending
    BY <1>1, <1>3, <1>4, Dequeue DEF Stored
<1>6. /\ Sound(b) /\ ToSet(b.pending) = ToSet(arr[k].pending) \ {p} /\ b.undo = arr[k].undo
      /\ b.semval = arr[k].semval /\ b.mixed = arr[k].mixed
    BY <1>5 DEF Requeued
<1>7. Fits(p, k, b)
    BY <1>1, <1>4, <1>6, FitsFrom
<1>8. InTable(k) \/ (~walk /\ b = arr[k])
    <2>1. CASE p \in ToSet(arr[k].pending)
        <3>1. Waiting(p)
            BY <1>3, <1>4, <2>1 DEF ProcInv, Queued
        <3>2. Names(semid[p], k)
            BY <1>1, <1>3, <3>1 DEF ProcInv, Waits
        <3>3. QED
            BY <1>3, <3>2, Lookup
    <2>2. CASE p \notin ToSet(arr[k].pending)
        <3>1. b.pending = arr[k].pending /\ Sound(arr[k])
            BY <1>3, <1>4, <1>5, <2>2 DEF Requeued, Stored
        <3>2. b = arr[k]
            <4>1. b \in ArraysOf(Nat) /\ arr[k] \in ArraysOf(Nat)
                BY <1>6, <3>1 DEF Sound
            <4>2. /\ b.undo = arr[k].undo /\ b.semval = arr[k].semval /\ b.semadj = arr[k].semadj
                  /\ b.base = arr[k].base /\ b.sempid = arr[k].sempid /\ b.mixed = arr[k].mixed
                BY <1>5 DEF Requeued
            <4>3. QED
                BY <3>1, <4>1, <4>2, SameFields
        <3>3. ~walk
            BY <1>1, <2>2, Zenon
        <3>4. QED
            BY <3>2, <3>3
    <2>3. QED
        BY <2>1, <2>2
<1>9. CallTyped' /\ pc'[p] = "idle" /\ \A q \in Procs \ {p} : CallSame(q)
    BY <1>2, <1>3, LeaveEffect
<1>10. walk \/ (b.semval = arr[k].semval /\ b.mixed = arr[k].mixed /\ status[p] # "retry")
    BY <1>2, <1>6
<1>11. QED
    BY <1>2, <1>4, <1>6, <1>7, <1>8, <1>9, <1>10, FinishesKept

(***************************************************************************)
(* The steps that leave p asleep in the queue of array k.                  *)
(***************************************************************************)
Sleeps(p, k, b) ==
    /\ arr' = [arr EXCEPT ![k] = b]
    /\ status' = [status EXCEPT ![p] = "EINTR"]
    /\ asleep' = asleep \cup {p}
\* The array, and what p waits for.
Beds(p, k, b) ==
    /\ p \in Procs /\ k \in Arrays /\ InTable(k) /\ Sound(b) /\ b.semval = arr[k].semval
    /\ b.mixed = arr[k].mixed
    /\ ToSet(b.pending) = ToSet(arr[k].pending) \cup {p}
    /\ \A q \in Procs \ {p} : q \in b.undo <=> q \in arr[k].undo
    /\ \A j \in Arrays \ {k} : p \notin ToSet(arr[j].pending)
    /\ p \in ToSet(arr[k].pending) => sops'[p] = sops[p]
WaitsFor(p, k, b, ops, id) ==
    /\ Legal(ops) /\ ops \in SopLists /\ Blocking(ops) /\ UndoReady(b, p, ops)
    /\ MustWait(b, p, ops) /\ id \in SemIds /\ Names(id, k)

\* Going to sleep touches one array.
LEMMA SleepTouches ==
    ASSUME Inv, NEW p, NEW k, NEW b, Beds(p, k, b), Sleeps(p, k, b)
    PROVE  /\ Touches(p, k, b) /\ arr'[k] = b /\ status'[p] = "EINTR"
           /\ \A j \in Arrays \ {k} : arr'[j] = arr[j]
           /\ \A q \in Procs \ {p} : status'[q] = status[q]
<1>1. /\ p \in Procs /\ k \in Arrays /\ InTable(k) /\ Sound(b)
      /\ ToSet(b.pending) = ToSet(arr[k].pending) \cup {p}
      /\ \A q \in Procs \ {p} : q \in b.undo <=> q \in arr[k].undo
      /\ \A j \in Arrays \ {k} : p \notin ToSet(arr[j].pending)
    BY DEF Beds
<1>2. arr \in [Arrays -> ArraysOf(Nat)] /\ status \in [Procs -> Status] /\ asleep \in SUBSET Procs
    BY DEF Inv, Typed
<1>3. arr' = [arr EXCEPT ![k] = b] /\ arr'[k] = b /\ \A j \in Arrays \ {k} : arr'[j] = arr[j]
    BY <1>1, <1>2 DEF Sleeps
<1>4. /\ status' \in [Procs -> Status] /\ status'[p] = "EINTR"
      /\ \A q \in Procs \ {p} : status'[q] = status[q]
    BY <1>1, <1>2 DEF Sleeps, Status
<1>5. asleep' \in SUBSET Procs
    BY <1>1, <1>2 DEF Sleeps
<1>6. ASSUME NEW q \in Procs \ {p} PROVE QStep(q) /\ UndoSame(q)
    <2>1. ASSUME NEW j \in Arrays
          PROVE  /\ q \in ToSet(arr'[j].pending) <=> q \in ToSet(arr[j].pending)
                 /\ q \in arr'[j].undo <=> q \in arr[j].undo
        <3>1. CASE j = k
            BY <1>1, <1>3, <3>1
        <3>2. CASE j # k
            BY <1>3, <3>2
        <3>3. QED
            BY <3>1, <3>2
    <2>2. QED
        BY <1>4, <2>1 DEF QStep, Status1, Stays, UndoSame
<1>7. ASSUME NEW j \in Arrays \ {k}, NEW q \in ToSet(arr[j].pending)
      PROVE  q # p /\ status'[q] = status[q]
    <2>1. q \in Procs
        BY InQueue
    <2>2. q # p
        BY <1>1
    <2>3. QED
        BY <1>4, <2>1, <2>2
<1>8. Touches(p, k, b)
    BY <1>1, <1>3, <1>4, <1>5, <1>6, <1>7 DEF Touches
<1>9. QED
    BY <1>3, <1>4, <1>8

\* One more that must wait leaves the wake-ups complete.
LEMMA SleepAlert ==
    ASSUME Inv, NEW p, NEW k, NEW b, Beds(p, k, b), Sleeps(p, k, b),
           Legal(sops'[p]), MustWait(b, p, sops'[p]), \A q \in Procs \ {p} : sops'[q] = sops[q]
    PROVE  Alert(arr[k], status)'
<1>1. /\ p \in Procs /\ k \in Arrays /\ Sound(b) /\ b.semval = arr[k].semval
      /\ b.mixed = arr[k].mixed
      /\ ToSet(b.pending) = ToSet(arr[k].pending) \cup {p}
      /\ p \in ToSet(arr[k].pending) => sops'[p] = sops[p]
    BY DEF Beds
<1>2. /\ arr'[k] = b /\ status'[p] = "EINTR" /\ \A q \in Procs \ {p} : status'[q] = status[q]
    BY SleepTouches
<1>3. Alert(arr[k], status) /\ Sound(arr[k])
    BY <1>1 DEF Inv, Alerted, Stored
<1>4. ASSUME NEW q \in ToSet(arr[k].pending)
      PROVE  MustWait(arr[k], q, sops[q]) <=> MustWait(b, q, sops[q])
    <2>1. q \in Procs /\ Legal(sops[q])
        BY <1>1, InQueue DEF Able
    <2>2. arr[k] \in ArraysOf(Nat) /\ b \in ArraysOf(Nat)
        BY <1>1, <1>3 DEF Sound
    <2>3. QED
        BY <1>1, <2>1, <2>2, MustWaitSame
<1>5. \A q \in ToSet(arr[k].pending) : q \in Procs
    BY <1>1, InQueue
<1>6. CASE \A q \in ToSet(arr[k].pending) : status[q] # "retry" => MustWait(arr[k], q, sops[q])
    <2>1. ASSUME NEW q \in ToSet(b.pending), status'[q] # "retry" PROVE MustWait(b, q, sops'[q])
        <3>1. CASE q = p
            BY <3>1
        <3>2. CASE q # p
            <4>1. q \in ToSet(arr[k].pending) /\ q \in Procs \ {p}
                BY <1>1, <1>5, <3>2
            <4>2. MustWait(arr[k], q, sops[q]) /\ sops'[q] = sops[q]
                BY <1>2, <1>6, <2>1, <4>1
            <4>3. QED
                BY <1>4, <4>1, <4>2
        <3>3. QED
            BY <3>1, <3>2
    <2>2. QED
        BY <1>2, <2>1 DEF Alert
<1>7. CASE \E q \in ToSet(arr[k].pending) : status[q] = "retry" /\ ~MustWait(arr[k], q, sops[q])
    <2>1. PICK q \in ToSet(arr[k].pending) : status[q] = "retry" /\ ~MustWait(arr[k], q, sops[q])
        BY <1>7
    <2>2. ~MustWait(b, q, sops[q])
        BY <1>4, <2>1
    <2>3. q # p
        BY <1>1, <2>1, <2>2
    <2>4. status'[q] = "retry" /\ sops'[q] = sops[q] /\ q \in ToSet(b.pending)
        BY <1>1, <1>2, <1>5, <2>1, <2>3
    <2>5. QED
        BY <1>2, <2>2, <2>4 DEF Alert
<1>8. CASE arr[k].mixed
    BY <1>1, <1>2, <1>8 DEF Alert
<1>9. QED
    BY <1>3, <1>6, <1>7, <1>8 DEF Alert

\* Going to sleep keeps the invariant.
LEMMA SleepKept ==
    ASSUME Inv, NEW p, NEW k, NEW b, Beds(p, k, b), Sleeps(p, k, b),
           WaitsFor(p, k, b, sops'[p], semid'[p]), TableSame, LocalsTyped',
           \A q \in Procs \ {p} : LocalSame(q), pc'[p] = "sleep", cur'[p] = k, Listed(p)'
    PROVE  Inv'
<1>1. /\ p \in Procs /\ k \in Arrays /\ ToSet(b.pending) = ToSet(arr[k].pending) \cup {p}
      /\ \A j \in Arrays \ {k} : p \notin ToSet(arr[j].pending)
    BY DEF Beds
<1>2. /\ Touches(p, k, b) /\ arr'[k] = b /\ status'[p] = "EINTR"
      /\ \A j \in Arrays \ {k} : arr'[j] = arr[j]
    BY SleepTouches
<1>3. /\ Legal(sops'[p]) /\ sops'[p] \in SopLists /\ Blocking(sops'[p])
      /\ UndoReady(b, p, sops'[p]) /\ MustWait(b, p, sops'[p]) /\ Names(semid'[p], k)
    BY DEF WaitsFor
<1>4. Alert(arr[k], status)'
    <2>1. \A q \in Procs \ {p} : sops'[q] = sops[q]
        BY DEF LocalSame
    <2>2. QED
        BY <1>3, <2>1, SleepAlert
<1>5. Waiting(p)'
    BY <1>2 DEF Waiting
<1>6. Queued(p)'
    <2>1. ASSUME NEW j \in Arrays PROVE p \in ToSet(arr'[j].pending) <=> j = k
        <3>1. CASE j = k
            BY <1>1, <1>2, <3>1
        <3>2. CASE j # k
            BY <1>1, <1>2, <3>2
        <3>3. QED
            BY <3>1, <3>2
    <2>2. QED
        BY <1>5, <2>1 DEF Queued
<1>7. Placed(p)'
    BY <1>1, <1>3 DEF Placed
<1>8. Names(semid[p], cur[p])'
    <2>1. PICK id : id = semid'[p]
        OBVIOUS
    <2>2. Names(id, k)'
        BY <1>3, <2>1, NamesNext DEF TableSame
    <2>3. QED
        BY <2>1, <2>2 DEF Names, At
<1>9. Waits(p)'
    <2>1. UndoReady(arr[cur[p]], p, sops[p])'
        BY <1>2, <1>3
    <2>2. Blocking(sops[p])'
        BY <1>3
    <2>3. QED
        BY <1>2, <1>8, <2>1, <2>2 DEF Waits
<1>10. Owns(p)'
    BY DEF Owns
<1>11. ProcInv(p)'
    BY <1>6, <1>7, <1>9, <1>10 DEF ProcInv
<1>12. QED
    BY <1>1, <1>2, <1>4, <1>11, StepKept
\* A process that was told to try for itself does.
LEMMA WakeRetryKept == ASSUME Inv, NEW p \in Procs, WakeRetry(p) PROVE Inv'
<1>1. PICK k, ops, t : /\ k = cur[p] /\ ops = sops[p]
                       /\ t = try_atomic_semop(arr[k], p, ops, FALSE)
    OBVIOUS
<1>2. /\ pc[p] = "sleep" /\ status[p] = "retry" /\ TableSame /\ semundo' = semundo
      /\ \/ /\ t.result = "sleep" /\ Sleeps(p, k, t.a)
            /\ pc' = pc /\ cur' = cur /\ semid' = semid /\ sops' = sops /\ io' = io
         \/ /\ t.result # "sleep" /\ Leave(p)
            /\ Finish(p, k, remove_from_queue(t.a, p), Alter(ops))
    BY <1>1, Zenon DEF WakeRetry, TableSame, tableVars, callVars, Sleeps
<1>3. /\ Typed /\ Stored /\ ProcInv(p) /\ Table(ids) /\ semid[p] \in SemIds
      /\ semundo \in [Procs -> Seq(Undos)]
    BY DEF Inv, Tabled, Typed
<1>4. Queued(p) /\ Placed(p) /\ Waits(p) /\ Listed(p)
    BY <1>3 DEF ProcInv, Owns
<1>5. Waiting(p)
    BY <1>2 DEF Waiting
<1>6. Legal(ops) /\ ops \in SopLists /\ k \in Arrays
    BY <1>1, <1>2, <1>4 DEF Placed
<1>7. Names(semid[p], k) /\ UndoReady(arr[k], p, ops) /\ Blocking(ops) /\ Decrease(ops)
    BY <1>1, <1>2, <1>4, <1>5 DEF Waits
<1>8. InTable(k)
    BY <1>3, <1>7, Lookup
<1>9. p \in ToSet(arr[k].pending) /\ \A j \in Arrays \ {k} : p \notin ToSet(arr[j].pending)
    BY <1>1, <1>4, <1>5, <1>6 DEF Queued
<1>10. Outcome(arr[k], p, ops, FALSE, t)
    <2>1. Ready(arr[k], p, ops)
        BY <1>3, <1>6, <1>7 DEF Ready, Stored
    <2>2. QED
        BY <1>1, <2>1, TryOutcome
<1>11. /\ Sound(t.a) /\ t.a.pending = arr[k].pending /\ t.a.undo = arr[k].undo
       /\ t.a.mixed = arr[k].mixed
    BY <1>10 DEF Outcome
<1>12. CASE t.result = "sleep" /\ Sleeps(p, k, t.a)
            /\ pc' = pc /\ cur' = cur /\ semid' = semid /\ sops' = sops /\ io' = io
    <2>1. t.a.semval = arr[k].semval /\ MustWait(arr[k], p, ops)
        BY <1>10, <1>12 DEF Outcome
    <2>2. MustWait(t.a, p, ops)
        <3>1. t.a \in ArraysOf(Nat) /\ arr[k] \in ArraysOf(Nat)
            BY <1>3, <1>6, <1>11 DEF Sound, Stored
        <3>2. QED
            BY <1>6, <2>1, <3>1, MustWaitSame
    <2>3. Beds(p, k, t.a)
        <3>1. ToSet(t.a.pending) = ToSet(arr[k].pending) \cup {p}
            BY <1>9, <1>11
        <3>2. QED
            BY <1>6, <1>8, <1>9, <1>11, <1>12, <2>1, <3>1 DEF Beds
    <2>4. UndoReady(t.a, p, ops)
        BY <1>7, <1>11 DEF UndoReady
    <2>5. WaitsFor(p, k, t.a, sops'[p], semid'[p])
        BY <1>1, <1>3, <1>6, <1>7, <1>12, <2>2, <2>4 DEF WaitsFor
    <2>6. LocalsTyped' /\ \A q \in Procs \ {p} : LocalSame(q)
        BY <1>2, <1>3, <1>12 DEF LocalsTyped, LocalSame, Typed
    <2>7. Listed(p)'
        <3>1. UndoSame(p)
            <4>1. arr \in [Arrays -> ArraysOf(Nat)] /\ arr' = [arr EXCEPT ![k] = t.a]
                BY <1>3, <1>12 DEF Typed, Sleeps
            <4>2. QED
                BY <1>6, <1>11, <4>1 DEF UndoSame
        <3>2. semundo'[p] = semundo[p]
            BY <1>2
        <3>3. QED
            BY <1>2, <1>3, <1>4, <3>1, <3>2, ExactNext, SameListed
    <2>8. pc'[p] = "sleep" /\ cur'[p] = k
        BY <1>1, <1>2, <1>12
    <2>9. QED
        BY <1>2, <1>12, <2>3, <2>5, <2>6, <2>7, <2>8, SleepKept
<1>13. CASE /\ t.result # "sleep" /\ Leave(p)
            /\ Finish(p, k, remove_from_queue(t.a, p), Alter(ops))
    <2>1. PICK b, walk : b = remove_from_queue(t.a, p) /\ walk = Alter(ops)
        OBVIOUS
    <2>2. /\ Requeued(t.a, b, RemoveFirst(t.a.pending, p))
          /\ ToSet(RemoveFirst(t.a.pending, p)) = ToSet(t.a.pending) \ {p}
        BY <1>11, <2>1, Dequeue
    <2>3. Sound(b) /\ ToSet(b.pending) = ToSet(arr[k].pending) \ {p} /\ b.undo = arr[k].undo
        BY <1>11, <2>2 DEF Requeued
    <2>4. Fits(p, k, b)
        BY <1>1, <1>6, <2>3, FitsFrom
    <2>5. walk \in BOOLEAN /\ walk
        <3>1. PICK j \in DOMAIN ops : ops[j].sem_op < 0
            BY <1>7 DEF Decrease
        <3>2. ops[j].sem_op # 0
            <4>1. ops[j] \in Sembuf
                BY <1>6 DEF Legal
            <4>2. ops[j].sem_op \in Int
                BY <4>1 DEF Sembuf
            <4>3. QED
                BY <3>1, <4>2
        <3>3. Alter(ops)
            BY <3>2 DEF Alter
        <3>4. Alter(ops) \in BOOLEAN
            BY DEF Alter
        <3>5. QED
            BY <2>1, <3>3, <3>4
    <2>6. Finish(p, k, b, walk)
        BY <1>13, <2>1
    <2>7. CallTyped' /\ pc'[p] = "idle" /\ \A q \in Procs \ {p} : CallSame(q)
        BY <1>3, <1>13, LeaveEffect
    <2>8. QED
        BY <1>2, <1>8, <2>3, <2>4, <2>5, <2>6, <2>7, FinishesKept
<1>14. QED
    BY <1>2, <1>12, <1>13

(***************************************************************************)
(* semop under the lock.                                                   *)
(***************************************************************************)
\* p tries ops on array k as it is in a: only its undo structure may be new.
Tries(p, k, a, ops, id) ==
    /\ p \in Procs /\ pc[p] \in {"idle", "alloc"} /\ k \in Arrays /\ id \in SemIds /\ Names(id, k)
    /\ Ready(a, p, ops) /\ ops \in SopLists
    /\ a.pending = arr[k].pending /\ a.semval = arr[k].semval /\ a.mixed = arr[k].mixed
    /\ \A q \in Procs \ {p} : q \in a.undo <=> q \in arr[k].undo
\* The undo lists p is in after the step.
UndoAs(p, k, a) ==
    /\ p \in arr'[k].undo <=> p \in a.undo
    /\ \A j \in Arrays \ {k} : p \in arr'[j].undo <=> p \in arr[j].undo

\* The locals of a process that goes to sleep, or to allocate.
Keeps(p, k, id, ops) ==
    /\ cur' = [cur EXCEPT ![p] = k] /\ semid' = [semid EXCEPT ![p] = id]
    /\ sops' = [sops EXCEPT ![p] = ops] /\ io' = io
\* The locals are typed, those of the others unchanged.
LEMMA SleepLocals ==
    ASSUME Typed, NEW p \in Procs, NEW k \in Arrays, NEW id \in SemIds, NEW ops \in SopLists,
           NEW where \in PCs, Goto(p, where), Keeps(p, k, id, ops)
    PROVE  /\ CallTyped' /\ \A q \in Procs \ {p} : CallSame(q)
           /\ pc'[p] = where /\ cur'[p] = k /\ semid'[p] = id /\ sops'[p] = ops
<1>1. pc' \in [Procs -> PCs] /\ pc'[p] = where /\ \A q \in Procs \ {p} : pc'[q] = pc[q]
    BY GotoEffect DEF Typed
<1>2. /\ cur' \in [Procs -> Arrays \cup {NULL}] /\ cur'[p] = k
      /\ \A q \in Procs \ {p} : cur'[q] = cur[q]
    BY DEF Typed, Keeps
<1>3. /\ semid' \in [Procs -> SemIds] /\ semid'[p] = id
      /\ \A q \in Procs \ {p} : semid'[q] = semid[q]
    BY DEF Typed, Keeps
<1>4. /\ sops' \in [Procs -> SopLists \cup {<<>>}] /\ sops'[p] = ops
      /\ \A q \in Procs \ {p} : sops'[q] = sops[q]
    BY DEF Typed, Keeps
<1>5. io' \in [Procs -> {<<>>} \cup [Sems -> Vals]] /\ \A q \in Procs : io'[q] = io[q]
    BY DEF Typed, Keeps
<1>6. QED
    BY <1>1, <1>2, <1>3, <1>4, <1>5 DEF CallTyped, CallSame

\* Trying the operations under the lock keeps the invariant, whatever comes of it.
LEMMA SemTryKept ==
    ASSUME Inv, NEW p, NEW k, NEW a, NEW ops, NEW id, Tries(p, k, a, ops, id),
           SemTry(p, k, a, ops, id), TableSame, semundo' \in [Procs -> Seq(Undos)],
           \A q \in Procs \ {p} : semundo'[q] = semundo[q],
           UndoAs(p, k, a) => Listed(p)'
    PROVE  Inv'
<1>1. /\ p \in Procs /\ pc[p] \in {"idle", "alloc"} /\ k \in Arrays /\ id \in SemIds /\ Names(id, k)
      /\ Ready(a, p, ops) /\ ops \in SopLists
      /\ a.pending = arr[k].pending /\ a.semval = arr[k].semval /\ a.mixed = arr[k].mixed
      /\ \A q \in Procs \ {p} : q \in a.undo <=> q \in arr[k].undo
    BY DEF Tries
<1>2. Typed /\ Stored /\ ProcInv(p) /\ Table(ids) /\ arr \in [Arrays -> ArraysOf(Nat)]
    BY <1>1 DEF Inv, Tabled, Typed
<1>3. ~Waiting(p) /\ status[p] = "ok"
    BY <1>1, <1>2 DEF Waiting, ProcInv, Placed
<1>4. InTable(k) /\ Legal(ops) /\ UndoReady(a, p, ops) /\ Sound(a)
    BY <1>1, <1>2, Lookup DEF Ready
<1>5. PICK t : t = try_atomic_semop(a, p, ops, FALSE)
    OBVIOUS
<1>6. Outcome(a, p, ops, FALSE, t)
    BY <1>1, <1>5, TryOutcome
<1>7. /\ Sound(t.a) /\ t.a.pending = arr[k].pending /\ t.a.undo = a.undo
      /\ t.a.mixed = arr[k].mixed
    BY <1>1, <1>6 DEF Outcome
<1>8. \A q \in Procs \ {p} : q \in t.a.undo <=> q \in arr[k].undo
    BY <1>1, <1>7
<1>9. CASE t.result # "sleep" /\ Leave(p) /\ Finish(p, k, t.a, Alter(ops))
    <2>1. CallTyped' /\ pc'[p] = "idle" /\ \A q \in Procs \ {p} : CallSame(q)
        BY <1>1, <1>2, <1>9, LeaveEffect
    <2>2. LocalsTyped' /\ \A q \in Procs \ {p} : LocalSame(q)
        BY <1>1, <2>1, LocalsFrom
    <2>3. Fits(p, k, t.a)
        BY <1>1, <1>3, <1>7, <1>8, FitsSame
    <2>4. PICK walk : walk = Alter(ops)
        OBVIOUS
    <2>5. walk \in BOOLEAN
        BY <2>4 DEF Alter
    <2>6. Finish(p, k, t.a, walk)
        BY <1>9, <2>4
    <2>7. walk \/ (t.a.semval = arr[k].semval /\ t.a.mixed = arr[k].mixed /\ status[p] # "retry")
        BY <1>1, <1>3, <1>6, <1>7, <2>4 DEF Outcome
    <2>8. PICK b : Finished(p, k, t.a, walk, b)
        BY <1>4, <2>3, <2>5, <2>6, FinishEffect
    <2>9. UndoAs(p, k, a)
        <3>1. arr' = [arr EXCEPT ![k] = b] /\ b.undo = a.undo
            BY <1>7, <2>8 DEF Finished, Touches
        <3>2. QED
            BY <1>1, <1>2, <3>1 DEF UndoAs
    <2>10. QED
        BY <2>1, <2>2, <2>3, <2>7, <2>8, <2>9, FinishedKept
<1>10. CASE /\ t.result = "sleep"
            /\ arr' = [arr EXCEPT ![k] = [t.a EXCEPT !.pending =
                  IF Alter(ops) THEN Append(@, p) ELSE <<p>> \o @]]
            /\ status' = [status EXCEPT ![p] = "EINTR"] /\ asleep' = asleep \cup {p}
            /\ cur' = [cur EXCEPT ![p] = k] /\ semid' = [semid EXCEPT ![p] = id]
            /\ sops' = [sops EXCEPT ![p] = ops] /\ Goto(p, "sleep") /\ io' = io
    <2>1. PICK s, r : s = t.a.pending /\ r = (IF Alter(ops) THEN Append(s, p) ELSE <<p>> \o s)
        OBVIOUS
    <2>2. PICK b : b = [t.a EXCEPT !.pending = r]
        OBVIOUS
    <2>3. Sleeps(p, k, b)
        BY <1>10, <2>1, <2>2, Zenon DEF Sleeps
    <2>4. r \in Seq(Procs) /\ NoRepeat(r) /\ ToSet(r) = ToSet(s) \cup {p}
        <3>1. s \in Seq(Procs) /\ NoRepeat(s)
            BY <1>7, <2>1, ArrayFields DEF Sound
        <3>2. p \notin ToSet(s)
            BY <1>1, <1>3, <1>7, <2>1, NoQueue
        <3>3. Adds(s, p, r)
            BY <2>1 DEF Adds
        <3>4. QED
            BY <1>1, <3>1, <3>2, <3>3, AddedOne
    <2>5. Requeued(t.a, b, r)
        BY <1>7, <2>2, <2>4, Requeue
    <2>6. t.a.semval = a.semval /\ MustWait(a, p, ops) /\ Blocking(ops)
        BY <1>6, <1>10 DEF Outcome
    <2>7. /\ Sound(b) /\ b.semval = a.semval /\ b.undo = a.undo /\ b.mixed = arr[k].mixed
          /\ ToSet(b.pending) = ToSet(arr[k].pending) \cup {p}
        BY <1>7, <2>1, <2>4, <2>5, <2>6 DEF Requeued
    <2>8. Beds(p, k, b)
        <3>1. \A j \in Arrays : p \notin ToSet(arr[j].pending)
            BY <1>1, <1>3, NoQueue
        <3>2. QED
            BY <1>1, <1>4, <2>7, <3>1 DEF Beds
    <2>9. MustWait(b, p, ops) /\ UndoReady(b, p, ops)
        <3>1. a \in ArraysOf(Nat) /\ b \in ArraysOf(Nat)
            BY <1>4, <2>7 DEF Sound
        <3>2. UndoReady(b, p, ops)
            BY <1>4, <2>7 DEF UndoReady
        <3>3. QED
            BY <1>1, <1>4, <2>6, <2>7, <3>1, <3>2, MustWaitSame
    <2>10. /\ CallTyped' /\ \A q \in Procs \ {p} : CallSame(q)
           /\ pc'[p] = "sleep" /\ cur'[p] = k /\ semid'[p] = id /\ sops'[p] = ops
        <3>1. "sleep" \in PCs /\ Keeps(p, k, id, ops)
            BY <1>10 DEF PCs, Keeps
        <3>2. QED
            BY <1>1, <1>2, <1>10, <3>1, SleepLocals
    <2>11. LocalsTyped' /\ \A q \in Procs \ {p} : LocalSame(q)
        BY <1>1, <2>10, LocalsFrom
    <2>12. WaitsFor(p, k, b, sops'[p], semid'[p])
        BY <1>1, <1>4, <2>6, <2>9, <2>10 DEF WaitsFor
    <2>13. UndoAs(p, k, a)
        BY <1>1, <1>2, <2>3, <2>7 DEF UndoAs, Sleeps
    <2>14. QED
        BY <2>3, <2>8, <2>10, <2>11, <2>12, <2>13, SleepKept
<1>11. QED
    <2>1. \E tried \in {t} :
            \/ /\ tried.result # "sleep"
               /\ Leave(p)
               /\ Finish(p, k, tried.a, Alter(ops))
            \/ /\ tried.result = "sleep"
               /\ arr' = [arr EXCEPT ![k] = [tried.a EXCEPT !.pending =
                     IF Alter(ops) THEN Append(@, p) ELSE <<p>> \o @]]
               /\ status' = [status EXCEPT ![p] = "EINTR"]
               /\ asleep' = asleep \cup {p}
               /\ cur' = [cur EXCEPT ![p] = k]
               /\ semid' = [semid EXCEPT ![p] = id]
               /\ sops' = [sops EXCEPT ![p] = ops]
               /\ Goto(p, "sleep")
               /\ UNCHANGED io
        BY <1>5, Zenon DEF SemTry
    <2>2. QED
        BY <1>9, <1>10, <2>1, Zenon
\* A sequence that passes the test on sem_num is legal.
LEMMA LegalOps ==
    ASSUME NEW ops \in SopLists, \A j \in DOMAIN ops : ops[j].sem_num < NSems
    PROVE  Legal(ops)
<1>1. ops \in Seq(Sembuf) /\ ops # <<>> /\ NSems \in Nat
    BY SemAssumption
<1>2. ASSUME NEW j \in DOMAIN ops PROVE ops[j].sem_num \in Sems
    <2>1. ops[j] \in Sembuf
        BY <1>1
    <2>2. ops[j].sem_num \in Nat
        BY <2>1 DEF Sembuf
    <2>3. QED
        BY <1>1, <2>2 DEF Sems
<1>3. QED
    BY <1>1, <1>2 DEF Legal

\* An undo structure for the identifier of an array is one of that array.
LEMMA OwnUndo ==
    ASSUME Inv, NEW p \in Procs, NEW id \in SemIds, NEW k, Names(id, k),
           NEW n \in DOMAIN semundo[p], semundo[p][n].semid = id
    PROVE  p \in arr[k].undo
<1>1. PICK u : u = semundo[p][n]
    OBVIOUS
<1>2. Backed(p, u)
    BY <1>1 DEF Inv, ProcInv, Owns, Listed
<1>3. u.semid = id /\ id # -1
    BY <1>1, IdSlot
<1>4. PICK j : j = u.arr
    OBVIOUS
<1>5. Exact(id, j) /\ p \in arr[j].undo
    BY <1>2, <1>3, <1>4 DEF Backed
<1>6. j = k
    BY <1>5 DEF Exact, Names, At
<1>7. QED
    BY <1>5, <1>6

\* The walk over the undo structures at the start of semop.
LEMMA WalkListed ==
    ASSUME Inv, NEW p \in Procs, NEW id, TableSame,
           semundo' = semundo \/ semundo' = [semundo EXCEPT ![p] = freeundos(@, id)]
    PROVE  /\ semundo' \in [Procs -> Seq(Undos)]
           /\ \A q \in Procs \ {p} : semundo'[q] = semundo[q]
           /\ UndoSame(p) => Listed(p)'
           /\ \A n \in DOMAIN semundo'[p] : \E m \in DOMAIN semundo[p] :
                 semundo'[p][n] = semundo[p][m]
<1>1. semundo \in [Procs -> Seq(Undos)] /\ Listed(p)
    BY DEF Inv, Typed, ProcInv, Owns
<1>2. CASE semundo' = semundo
    <2>1. semundo'[p] = semundo[p]
        BY <1>2
    <2>2. UndoSame(p) => Listed(p)'
        BY <1>1, <2>1, ExactNext, SameListed
    <2>3. QED
        BY <1>1, <1>2, <2>2
<1>3. CASE semundo' = [semundo EXCEPT ![p] = freeundos(@, id)]
    <2>1. PICK L, R : L = semundo[p] /\ R = freeundos(L, id)
        OBVIOUS
    <2>2. L \in Seq(Undos) /\ R \in Seq(Undos) /\ Pruned(L, Len(L), R) /\ DOMAIN L = 1 .. Len(L)
        BY <1>1, <2>1, FreeUndos
    <2>3. semundo' = [semundo EXCEPT ![p] = R]
        BY <1>3, <2>1, Zenon
    <2>4. /\ semundo' \in [Procs -> Seq(Undos)] /\ semundo'[p] = R
          /\ \A q \in Procs \ {p} : semundo'[q] = semundo[q]
        BY <1>1, <2>2, <2>3
    <2>5. UndoSame(p) => Listed(p)'
        BY <1>1, <2>1, <2>2, <2>4, ExactNext, PrunedListed
    <2>6. \A n \in DOMAIN R : \E m \in DOMAIN L : R[n] = L[m]
        BY <2>2 DEF Pruned
    <2>7. QED
        BY <2>1, <2>4, <2>5, <2>6
<1>4. QED
    BY <1>2, <1>3

\* semop up to the point where it returns, sleeps or gives the lock up to allocate.
LEMMA SemopKept ==
    ASSUME Inv, NEW p \in Procs, NEW id \in SemIds, NEW ops \in SopLists, Semop(p, id, ops)
    PROVE  Inv'
<1>1. PICK k : k = ArrayOf(id)
    OBVIOUS
<1>2. /\ pc[p] = "idle" /\ Found(id) /\ ~sem_checkid(id) /\ TableSame
      /\ \A j \in DOMAIN ops : ops[j].sem_num < NSems
    BY DEF Semop, TableSame, tableVars
<1>3. semundo' = semundo \/ semundo' = [semundo EXCEPT ![p] = freeundos(@, id)]
    BY Zenon DEF Semop
<1>4. /\ Tabled /\ Typed /\ Stored /\ ProcInv(p) /\ Table(ids) /\ arr \in [Arrays -> ArraysOf(Nat)]
      /\ semundo \in [Procs -> Seq(Undos)] /\ status \in [Procs -> Status] /\ asleep \in SUBSET Procs
    BY DEF Inv, Tabled, Typed
<1>5. Names(id, k) /\ k \in Arrays
    BY <1>1, <1>2, <1>4, Lookup
<1>6. ~Waiting(p) /\ status[p] = "ok"
    BY <1>2, <1>4 DEF Waiting, ProcInv, Placed
<1>7. Legal(ops)
    BY <1>2, LegalOps
<1>8. /\ semundo' \in [Procs -> Seq(Undos)] /\ \A q \in Procs \ {p} : semundo'[q] = semundo[q]
      /\ UndoSame(p) => Listed(p)'
      /\ \A n \in DOMAIN semundo'[p] : \E m \in DOMAIN semundo[p] : semundo'[p][n] = semundo[p][m]
    BY <1>2, <1>3, WalkListed
<1>9. CASE ~(Undone(ops) # {} /\ UndoPos(semundo[p], id) = 0) /\ SemTry(p, k, arr[k], ops, id)
    <2>1. UndoReady(arr[k], p, ops)
        <3>1. SUFFICES ASSUME Undone(ops) # {} PROVE p \in arr[k].undo
            BY DEF UndoReady
        <3>2. semundo[p] \in Seq(Undos) /\ UndoPos(semundo[p], id) # 0
            BY <1>4, <1>9, <3>1
        <3>3. PICK n \in DOMAIN semundo[p] : semundo[p][n].semid = id
            BY <3>2, UndoFound
        <3>4. QED
            BY <1>5, <3>3, OwnUndo
    <2>2. Ready(arr[k], p, ops)
        BY <1>4, <1>5, <1>7, <2>1 DEF Ready, Stored
    <2>3. Tries(p, k, arr[k], ops, id)
        BY <1>2, <1>5, <2>2 DEF Tries
    <2>4. UndoAs(p, k, arr[k]) => Listed(p)'
        BY <1>8 DEF UndoAs, UndoSame
    <2>5. QED
        BY <1>2, <1>8, <1>9, <2>3, <2>4, SemTryKept
<1>10. CASE /\ Undone(ops) # {} /\ UndoPos(semundo[p], id) = 0 /\ Keeps(p, k, id, ops)
            /\ Goto(p, "alloc") /\ arr' = arr /\ status' = status /\ asleep' = asleep
    <2>1. /\ CallTyped' /\ \A q \in Procs \ {p} : CallSame(q)
          /\ pc'[p] = "alloc" /\ cur'[p] = k /\ semid'[p] = id /\ sops'[p] = ops
        <3>1. "alloc" \in PCs
            BY DEF PCs
        <3>2. QED
            BY <1>4, <1>5, <1>10, <3>1, SleepLocals
    <2>2. LocalsTyped' /\ \A q \in Procs \ {p} : LocalSame(q)
        BY <1>8, <2>1, LocalsFrom
    <2>3. Listed(p)'
        BY <1>8, <1>10 DEF UndoSame
    <2>4. ~Waiting(p)'
        BY <2>1 DEF Waiting
    <2>5. Queued(p)'
        BY <1>6, <1>10, <2>4, NoQueue DEF Queued
    <2>6. Placed(p)' /\ Waits(p)'
        <3>1. status'[p] = "ok"
            BY <1>6, <1>10
        <3>2. Legal(sops'[p]) /\ sops'[p] \in SopLists /\ cur'[p] \in Arrays
            BY <1>5, <1>7, <2>1
        <3>3. Placed(p)'
            BY <2>1, <3>1, <3>2 DEF Placed
        <3>4. QED
            BY <2>4, <3>3 DEF Waits
    <2>7. Owns(p)'
        <3>1. \A m \in DOMAIN semundo[p] : semundo[p][m].semid # id
            BY <1>4, <1>10, UndoFound
        <3>2. \A n \in DOMAIN semundo'[p] : semundo'[p][n].semid # semid'[p]
            BY <1>8, <2>1, <3>1
        <3>3. QED
            BY <2>1, <2>3, <3>2 DEF Owns
    <2>8. ProcInv(p)'
        BY <2>5, <2>6, <2>7 DEF ProcInv
    <2>9. QED
        BY <1>2, <1>4, <1>6, <1>10, <2>2, <2>8, QuietKept
<1>11. QED
    BY <1>1, <1>9, <1>10, Zenon DEF Semop, Keeps
\* A structure put in front of the list.
Consed(u, L, R) ==
    /\ R \in Seq(Undos) /\ Len(R) = 1 + Len(L) /\ R[1] = u
    /\ \A i \in 2 .. 1 + Len(L) : R[i] = L[i - 1]
\* The list with a new structure.
LEMMA UndoConsed ==
    ASSUME NEW L \in Seq(Undos), NEW u \in Undos, NEW R, R = <<u>> \o L
    PROVE  Consed(u, L, R)
<1>1. PICK n, t : n = Len(L) /\ t = <<u>>
    OBVIOUS
<1>2. t \in Seq(Undos) /\ Len(t) = 1 /\ t[1] = u /\ n \in Nat
    BY <1>1
<1>3. R \in Seq(Undos) /\ Len(R) = 1 + n
      /\ \A i \in 1 .. 1 + n : R[i] = IF i <= 1 THEN t[i] ELSE L[i - 1]
    BY <1>1, <1>2, ConcatProperties
<1>4. R[1] = u /\ \A i \in 2 .. 1 + n : R[i] = L[i - 1]
    BY <1>2, <1>3
<1>5. QED
    BY <1>1, <1>3, <1>4 DEF Consed

\* A process in the middle of alloc_undo has no structure for the array.
LEMMA NoUndoYet ==
    ASSUME Inv, NEW p \in Procs, pc[p] = "alloc", NEW k \in Arrays, Exact(semid[p], k)
    PROVE  p \notin arr[k].undo /\ \A n \in DOMAIN semundo[p] :
              semundo[p][n].semid # -1 => semundo[p][n].arr # k
<1>1. /\ Tabled /\ Listed(p) /\ semundo \in [Procs -> Seq(Undos)] /\ semid[p] \in SemIds
      /\ \A n \in DOMAIN semundo[p] : semundo[p][n].semid # semid[p]
    BY DEF Inv, Typed, ProcInv, Owns
<1>2. ASSUME NEW n \in DOMAIN semundo[p], semundo[p][n].semid # -1 PROVE semundo[p][n].arr # k
    <2>1. SUFFICES ASSUME semundo[p][n].arr = k PROVE FALSE
        OBVIOUS
    <2>2. PICK u, id : u = semundo[p][n] /\ id = u.semid
        OBVIOUS
    <2>3. u \in Undos /\ u.semid = id /\ id # -1 /\ u.arr = k
        BY <1>1, <1>2, <2>1, <2>2
    <2>4. id \in SemIds
        BY <2>3 DEF Undos
    <2>5. Exact(id, k)
        <3>1. Backed(p, u)
            BY <1>1, <2>2 DEF Listed
        <3>2. QED
            BY <2>3, <3>1 DEF Backed
    <2>6. id = semid[p]
        BY <1>1, <2>4, <2>5, ExactOne
    <2>7. QED
        BY <1>1, <2>2, <2>6
<1>3. p \notin arr[k].undo
    BY <1>1, <1>2 DEF Listed, Covers
<1>4. QED
    BY <1>2, <1>3

\* semop after the allocation.
LEMMA AllocUndoKept == ASSUME Inv, NEW p \in Procs, AllocUndo(p) PROVE Inv'
<1>1. PICK k, id, ops : k = cur[p] /\ id = semid[p] /\ ops = sops[p]
    OBVIOUS
<1>2. PICK a : a = UndoAdded(arr[k], p)
    OBVIOUS
<1>3. PICK u : u = [semid |-> id, arr |-> k]
    OBVIOUS
<1>4. /\ pc[p] = "alloc" /\ TableSame
      /\ \/ /\ sem_revalidate(id, k) /\ semundo' = [semundo EXCEPT ![p] = <<u>> \o @]
            /\ SemTry(p, k, a, ops, id)
         \/ /\ Leave(p) /\ arr' = arr /\ status' = status /\ asleep' = asleep /\ semundo' = semundo
    BY <1>1, <1>2, <1>3, Zenon DEF AllocUndo, TableSame, tableVars, UndoAdded
<1>5. /\ Tabled /\ Typed /\ Stored /\ ProcInv(p) /\ Table(ids) /\ arr \in [Arrays -> ArraysOf(Nat)]
      /\ semundo \in [Procs -> Seq(Undos)] /\ id \in SemIds
    BY <1>1 DEF Inv, Tabled, Typed
<1>6. ~Waiting(p) /\ status[p] = "ok" /\ Legal(ops) /\ ops \in SopLists /\ k \in Arrays
    BY <1>1, <1>4, <1>5 DEF Waiting, ProcInv, Placed
<1>7. CASE Leave(p) /\ arr' = arr /\ status' = status /\ asleep' = asleep /\ semundo' = semundo
    <2>1. CallTyped' /\ pc'[p] = "idle" /\ \A q \in Procs \ {p} : CallSame(q)
        BY <1>5, <1>7, LeaveEffect
    <2>2. Listed(p)'
        BY <1>4, <1>7, QuietListed
    <2>3. StatusOk(p)
        BY <1>6, <1>7 DEF StatusOk
    <2>4. QED
        BY <1>4, <1>5, <1>6, <1>7, <2>1, <2>2, <2>3, QuietEnds
<1>8. CASE /\ sem_revalidate(id, k) /\ semundo' = [semundo EXCEPT ![p] = <<u>> \o @]
           /\ SemTry(p, k, a, ops, id)
    <2>1. Exact(id, k) /\ Names(id, k)
        <3>1. Found(id) /\ ArrayOf(id) = k /\ ~sem_checkid(id)
            BY <1>8 DEF sem_revalidate
        <3>2. QED
            BY <1>5, <3>1, Lookup DEF Exact
    <2>2. p \notin arr[k].undo /\ \A n \in DOMAIN semundo[p] :
              semundo[p][n].semid # -1 => semundo[p][n].arr # k
        BY <1>1, <1>4, <1>6, <2>1, NoUndoYet
    <2>3. /\ Sound(a) /\ a.pending = arr[k].pending /\ a.undo = arr[k].undo \cup {p}
          /\ a.semval = arr[k].semval /\ a.mixed = arr[k].mixed
        <3>1. AddsUndo(arr[k], p, a)
            BY <1>2, <1>5, <1>6, <2>2 DEF AddsUndo, Stored
        <3>2. QED
            BY <3>1, UndoAdds
    <2>4. Tries(p, k, a, ops, id)
        <3>1. Ready(a, p, ops)
            BY <1>6, <2>3 DEF Ready, UndoReady
        <3>2. QED
            BY <1>4, <1>5, <1>6, <2>1, <2>3, <3>1 DEF Tries
    <2>5. PICK L, R : L = semundo[p] /\ R = <<u>> \o L
        OBVIOUS
    <2>6. L \in Seq(Undos) /\ u \in Undos /\ u.semid = id /\ u.arr = k
        BY <1>3, <1>5, <1>6, <2>5 DEF Undos
    <2>7. Consed(u, L, R)
        BY <2>5, <2>6, UndoConsed
    <2>8. PICK n : n = Len(L)
        OBVIOUS
    <2>9. /\ n \in Nat /\ R \in Seq(Undos) /\ DOMAIN R = 1 .. 1 + n /\ DOMAIN L = 1 .. n
          /\ R[1] = u /\ \A i \in 2 .. 1 + n : R[i] = L[i - 1]
        BY <2>6, <2>7, <2>8 DEF Consed
    <2>10. /\ semundo' \in [Procs -> Seq(Undos)] /\ semundo'[p] = R
           /\ \A q \in Procs \ {p} : semundo'[q] = semundo[q]
        <3>1. semundo' = [semundo EXCEPT ![p] = R]
            BY <1>8, <2>5, Zenon
        <3>2. QED
            BY <1>5, <2>9, <3>1
    <2>11. \A i \in 1 .. 1 + n : i = 1 \/ (i \in 2 .. 1 + n /\ i - 1 \in 1 .. n)
        BY <2>9
    <2>12. \A i \in 1 .. n : i + 1 \in 2 .. 1 + n /\ i + 1 \in 1 .. 1 + n /\ (i + 1) - 1 = i
        BY <2>9
    <2>13. ASSUME UndoAs(p, k, a) PROVE Listed(p)'
        <3>1. p \in arr'[k].undo /\ \A j \in Arrays : p \in arr[j].undo => p \in arr'[j].undo
            BY <2>3, <2>13 DEF UndoAs
        <3>2. Listed(p)
            BY <1>5 DEF ProcInv, Owns
        <3>3. ASSUME NEW i \in DOMAIN R PROVE Backed(p, R[i])'
            <4>1. CASE i = 1
                <5>1. Exact(id, k)'
                    BY <1>4, <1>5, <1>6, <2>1, ExactNext
                <5>2. Backed(p, u)'
                    <6>1. (Exact(u.semid, u.arr))'
                        BY <2>6, <5>1
                    <6>2. QED
                        BY <2>6, <3>1, <6>1 DEF Backed
                <5>3. QED
                    BY <2>9, <4>1, <5>2
            <4>2. CASE i # 1
                <5>1. PICK v : v = L[i - 1]
                    OBVIOUS
                <5>2. R[i] = v /\ v \in Undos /\ Backed(p, v)
                    BY <2>5, <2>6, <2>9, <2>11, <3>2, <4>2, <5>1 DEF Listed
                <5>3. PICK x, j : x = v.semid /\ j = v.arr
                    OBVIOUS
                <5>4. ASSUME x # -1 PROVE Exact(x, j)' /\ p \in arr'[j].undo
                    <6>1. Exact(x, j) /\ p \in arr[j].undo /\ j \in Arrays /\ x \in SemIds
                        BY <5>2, <5>3, <5>4 DEF Backed, Undos
                    <6>2. QED
                        BY <1>4, <3>1, <6>1, ExactNext
                <5>5. QED
                    BY <5>2, <5>3, <5>4 DEF Backed
            <4>3. QED
                BY <4>1, <4>2
        <3>4. OneEach(R)
            <4>1. SUFFICES ASSUME NEW i \in 1 .. 1 + n, NEW j \in 1 .. 1 + n, R[i].semid # -1,
                                  R[j].semid # -1, R[i].arr = R[j].arr
                           PROVE  i = j
                BY <2>9 DEF OneEach
            <4>2. \A m \in 1 .. n : L[m].semid # -1 => L[m].arr # k
                BY <2>2, <2>5, <2>9
            <4>3. CASE i = 1
                BY <2>6, <2>9, <2>11, <4>1, <4>2, <4>3
            <4>4. CASE j = 1
                BY <2>6, <2>9, <2>11, <4>1, <4>2, <4>4
            <4>5. CASE i # 1 /\ j # 1
                <5>1. i - 1 \in 1 .. n /\ j - 1 \in 1 .. n /\ R[i] = L[i - 1] /\ R[j] = L[j - 1]
                    BY <2>9, <2>11, <4>5
                <5>2. i - 1 = j - 1
                    BY <2>5, <2>9, <3>2, <4>1, <5>1, ZenonT(60) DEF Listed, OneEach
                <5>3. QED
                    BY <2>9, <5>2
            <4>6. QED
                BY <4>3, <4>4, <4>5
        <3>5. ASSUME NEW j \in Arrays, p \in arr'[j].undo PROVE Covers(R, j)
            <4>1. CASE j = k
                <5>1. 1 \in DOMAIN R /\ R[1].arr = j /\ R[1].semid # -1
                    BY <1>5, <2>6, <2>9, <4>1, IdSlot
                <5>2. QED
                    BY <5>1 DEF Covers
            <4>2. CASE j # k
                <5>1. p \in arr[j].undo
                    BY <2>13, <3>5, <4>2 DEF UndoAs
                <5>2. PICK m \in DOMAIN L : L[m].arr = j /\ L[m].semid # -1
                    BY <2>5, <3>2, <5>1 DEF Listed, Covers
                <5>3. m + 1 \in DOMAIN R /\ R[m + 1] = L[m]
                    BY <2>9, <2>12, <5>2
                <5>4. QED
                    BY <5>2, <5>3 DEF Covers
            <4>3. QED
                BY <4>1, <4>2
        <3>6. (\A i \in DOMAIN semundo[p] : Backed(p, semundo[p][i]))'
            BY <2>10, <3>3
        <3>7. QED
            BY <2>10, <3>4, <3>5, <3>6 DEF Listed
    <2>14. QED
        BY <1>4, <1>8, <2>4, <2>10, <2>13, SemTryKept
<1>9. QED
    BY <1>4, <1>7, <1>8
\* sem_exit takes the first undo structure off, with the adjustments made if the
\* array is still there.
LEMMA ExitUndoKept == ASSUME Inv, NEW p \in Procs, ExitUndo(p) PROVE Inv'
<1>1. PICK id, L, u, k, b : /\ id = semid[p] /\ L = semundo[p] /\ u = Head(L) /\ k = ArrayOf(id)
                            /\ b = ExitAdjust(arr[k], p)
    OBVIOUS
<1>2. /\ pc[p] = "adjust" /\ Goto(p, "exit") /\ TableSame
      /\ semundo' = [semundo EXCEPT ![p] = Tail(@)] /\ semid' = [semid EXCEPT ![p] = 0]
      /\ cur' = cur /\ sops' = sops /\ io' = io
      /\ \/ StillOwn(p, u, id) /\ Finish(p, k, b, TRUE)
         \/ ~StillOwn(p, u, id) /\ arr' = arr /\ status' = status /\ asleep' = asleep
    BY <1>1, Zenon DEF ExitUndo, TableSame, tableVars
<1>3. /\ Typed /\ Stored /\ ProcInv(p) /\ Table(ids) /\ arr \in [Arrays -> ArraysOf(Nat)]
      /\ semundo \in [Procs -> Seq(Undos)] /\ semid \in [Procs -> SemIds] /\ id \in SemIds
    BY <1>1 DEF Inv, Tabled, Typed
<1>4. ~Waiting(p) /\ status[p] = "ok" /\ Listed(p) /\ L # <<>> /\ u.semid \in {-1, id}
    BY <1>1, <1>2, <1>3 DEF Waiting, ProcInv, Placed, Owns
<1>5. PICK T, n : T = Tail(L) /\ n = Len(L)
    OBVIOUS
<1>6. /\ L \in Seq(Undos) /\ T \in Seq(Undos) /\ u = L[1] /\ 1 \in DOMAIN L
      /\ n \in Nat /\ DOMAIN L = 1 .. n /\ DOMAIN T = 1 .. n - 1
      /\ \A i \in 1 .. n - 1 : T[i] = L[i + 1]
      /\ u.semid = -1 => Pruned(L, n, T)
    <2>1. L \in Seq(Undos)
        BY <1>1, <1>3
    <2>2. QED
        BY <1>1, <1>4, <1>5, <2>1, TailPruned
<1>7. /\ semundo' \in [Procs -> Seq(Undos)] /\ semundo'[p] = T
      /\ \A q \in Procs \ {p} : semundo'[q] = semundo[q]
    BY <1>1, <1>2, <1>3, <1>5, <1>6
<1>8. CallTyped' /\ pc'[p] = "exit" /\ \A q \in Procs \ {p} : CallSame(q)
    <2>1. pc' \in [Procs -> PCs] /\ pc'[p] = "exit" /\ \A q \in Procs \ {p} : pc'[q] = pc[q]
        <3>1. "exit" \in PCs
            BY DEF PCs
        <3>2. QED
            BY <1>2, <1>3, <3>1, GotoEffect DEF Typed
    <2>2. semid' \in [Procs -> SemIds] /\ \A q \in Procs \ {p} : semid'[q] = semid[q]
        BY <1>2, <1>3, IdSlot
    <2>3. QED
        BY <1>2, <1>3, <2>1, <2>2 DEF CallTyped, CallSame, Typed
<1>9. u \in Undos /\ Backed(p, u)
    BY <1>1, <1>4, <1>6 DEF Listed
<1>10. CASE ~StillOwn(p, u, id) /\ arr' = arr /\ status' = status /\ asleep' = asleep
    <2>1. u.semid = -1
        <3>1. SUFFICES ASSUME u.semid = id, id # -1 PROVE StillOwn(p, u, id)
            BY <1>4, <1>10
        <3>2. Exact(id, u.arr) /\ p \in arr[u.arr].undo
            BY <1>9, <3>1 DEF Backed
        <3>3. Found(id) /\ ArrayOf(id) = u.arr /\ ~sem_checkid(id)
            BY <1>3, <3>2, Lookup DEF Exact
        <3>4. QED
            BY <3>1, <3>2, <3>3 DEF StillOwn, sem_checkid
    <2>2. UndoSame(p)
        BY <1>10 DEF UndoSame
    <2>3. Listed(p)'
        BY <1>1, <1>2, <1>3, <1>4, <1>5, <1>6, <1>7, <2>1, <2>2, ExactNext, PrunedListed
    <2>4. StatusOk(p)
        BY <1>4, <1>10 DEF StatusOk
    <2>5. QED
        BY <1>2, <1>4, <1>7, <1>8, <1>10, <2>3, <2>4, QuietEnds
<1>11. CASE StillOwn(p, u, id) /\ Finish(p, k, b, TRUE)
    <2>1. Found(id) /\ u.semid # -1 /\ u.arr = k /\ p \in arr[k].undo
        BY <1>1, <1>11 DEF StillOwn
    <2>2. k \in Arrays /\ InTable(k)
        BY <1>1, <1>3, <2>1, Lookup
    <2>3. Sound(b) /\ b.pending = arr[k].pending /\ b.undo = arr[k].undo \ {p}
        <3>1. Adjusts(arr[k], p, b)
            BY <1>1, <1>3, <2>2 DEF Adjusts, Stored
        <3>2. QED
            BY <3>1, ExitAdjusts
    <2>4. Fits(p, k, b)
        <3>1. \A q \in Procs \ {p} : q \in b.undo <=> q \in arr[k].undo
            BY <2>3
        <3>2. QED
            BY <1>4, <2>2, <2>3, <3>1, FitsSame
    <2>5. PICK c : Finished(p, k, b, TRUE, c)
        BY <1>11, <2>2, <2>4, FinishEffect
    <2>6. p \notin arr'[k].undo /\ \A j \in Arrays \ {k} : p \in arr'[j].undo <=> p \in arr[j].undo
        <3>1. arr' = [arr EXCEPT ![k] = c] /\ c.undo = arr[k].undo \ {p}
            BY <2>3, <2>5 DEF Finished, Touches
        <3>2. QED
            BY <1>3, <2>2, <3>1
    <2>7. OneEach(L) /\ \A j \in Arrays : p \in arr[j].undo => Covers(L, j)
        BY <1>1, <1>4 DEF Listed
    <2>8. \A i \in 1 .. n - 1 : i + 1 \in 1 .. n /\ i + 1 # 1
        BY <1>6
    <2>9. \A m \in 1 .. n : m = 1 \/ (m - 1 \in 1 .. n - 1 /\ (m - 1) + 1 = m)
        BY <1>6
    <2>10. ASSUME NEW i \in DOMAIN T PROVE Backed(p, T[i])'
        <3>1. PICK v, x, j : v = L[i + 1] /\ x = v.semid /\ j = v.arr
            OBVIOUS
        <3>2. T[i] = v /\ v \in Undos /\ Backed(p, v)
            <4>1. T[i] = v /\ i + 1 \in DOMAIN L
                BY <1>6, <2>8, <3>1
            <4>2. v \in Undos
                BY <1>6, <3>1, <4>1
            <4>3. Backed(p, v)
                BY <1>1, <1>4, <3>1, <4>1 DEF Listed
            <4>4. QED
                BY <4>1, <4>2, <4>3
        <3>3. ASSUME x # -1 PROVE Exact(x, j)' /\ p \in arr'[j].undo
            <4>1. j # k
                BY <1>6, <2>1, <2>7, <2>8, <3>1, <3>3 DEF OneEach
            <4>2. Exact(x, j) /\ p \in arr[j].undo /\ j \in Arrays /\ x \in SemIds
                BY <3>1, <3>2, <3>3 DEF Backed, Undos
            <4>3. QED
                BY <1>2, <2>6, <4>1, <4>2, ExactNext
        <3>4. QED
            BY <3>1, <3>2, <3>3 DEF Backed
    <2>11. OneEach(T)
        <3>1. SUFFICES ASSUME NEW i \in 1 .. n - 1, NEW j \in 1 .. n - 1, T[i].semid # -1,
                              T[j].semid # -1, T[i].arr = T[j].arr
                       PROVE  i = j
            BY <1>6 DEF OneEach
        <3>2. i + 1 \in DOMAIN L /\ j + 1 \in DOMAIN L /\ T[i] = L[i + 1] /\ T[j] = L[j + 1]
            BY <1>6, <2>8
        <3>3. i + 1 = j + 1
            BY <2>7, <3>1, <3>2 DEF OneEach
        <3>4. QED
            BY <1>6, <3>3
    <2>12. ASSUME NEW j \in Arrays, p \in arr'[j].undo PROVE Covers(T, j)
        <3>1. j # k /\ p \in arr[j].undo
            BY <2>6, <2>12
        <3>2. PICK m \in DOMAIN L : L[m].arr = j /\ L[m].semid # -1
            BY <2>7, <3>1 DEF Covers
        <3>3. m - 1 \in 1 .. n - 1 /\ (m - 1) + 1 = m
            BY <1>6, <2>1, <2>9, <3>1, <3>2
        <3>4. T[m - 1] = L[m]
            BY <1>6, <3>3
        <3>5. QED
            BY <1>6, <3>2, <3>3, <3>4 DEF Covers
    <2>13. Listed(p)'
        <3>1. (\A i \in DOMAIN semundo[p] : Backed(p, semundo[p][i]))'
            BY <1>7, <2>10
        <3>2. QED
            BY <1>7, <2>11, <2>12, <3>1 DEF Listed
    <2>14. LocalsTyped' /\ \A q \in Procs \ {p} : LocalSame(q)
        BY <1>7, <1>8, LocalsFrom
    <2>15. QED
        BY <1>2, <1>8, <2>4, <2>5, <2>13, <2>14, FinishedKept
<1>12. QED
    BY <1>2, <1>10, <1>11

\* Nothing changes but who is asleep: a signal, or no step at all.
LEMMA SameKept ==
    ASSUME Inv, TableSame, arr' = arr, status' = status, asleep' \in SUBSET Procs, pc' = pc,
           cur' = cur, semid' = semid, sops' = sops, io' = io, semundo' = semundo
    PROVE  Inv'
<1>1. Tabled /\ Typed /\ Stored /\ Alerted /\ \A q \in Procs : ProcInv(q)
    BY DEF Inv
<1>2. Tabled' /\ \A k : InTable(k)' <=> InTable(k)
    BY <1>1, TabledNext, NamesNext DEF TableSame
<1>3. Typed'
    BY <1>1 DEF Typed
<1>4. Stored'
    BY <1>1, <1>2 DEF Stored
<1>5. Alerted'
    BY <1>1 DEF Alerted, Alert
<1>6. ASSUME NEW q \in Procs PROVE ProcInv(q)'
    <2>1. LocalSame(q) /\ QStep(q) /\ UndoSame(q) /\ ids' = ids
        BY DEF LocalSame, QStep, Status1, Stays, UndoSame, TableSame
    <2>2. QED
        BY <1>1, <2>1, OtherKept
<1>7. QED
    BY <1>2, <1>3, <1>4, <1>5, <1>6 DEF Inv

\* A signal.
LEMMA SignalKept == ASSUME Inv, NEW p \in Procs, Signal(p) PROVE Inv'
<1>1. /\ TableSame /\ arr' = arr /\ status' = status /\ asleep' = asleep \ {p}
      /\ pc' = pc /\ cur' = cur /\ semid' = semid /\ sops' = sops /\ io' = io /\ semundo' = semundo
    BY DEF Signal, TableSame, tableVars, callVars
<1>2. asleep' \in SUBSET Procs
    BY <1>1 DEF Inv, Typed
<1>3. QED
    BY <1>1, <1>2, SameKept

(***************************************************************************)
(* semget and IPC_RMID.                                                    *)
(***************************************************************************)
\* What becomes of the slots when slot l gets another entry.
LEMMA SlotsNext ==
    ASSUME Table(ids), Table(ids'), NEW l \in Slots, NEW e, Replaced(ids, ids', l, e)
    PROVE  /\ ids'.entries[l] = e /\ \A i \in Slots \ {l} : ids'.entries[i] = ids.entries[i]
           /\ Live(ids) \subseteq Slots /\ IsFiniteSet(Live(ids))
           /\ \A i \in Slots : i \in Live(ids) <=> ids.entries[i] # NULL
           /\ Live(ids') = (Live(ids) \ {l}) \cup (IF e # NULL THEN {l} ELSE {})
<1>1. ids.entries \in [Slots -> Perms \cup {NULL}] /\ ids'.entries \in [Slots -> Perms \cup {NULL}]
    BY TableParts
<1>2. ids'.entries[l] = e /\ \A i \in Slots \ {l} : ids'.entries[i] = ids.entries[i]
    BY <1>1 DEF Replaced
<1>3. \A i : i \in Live(ids) <=> i \in Slots /\ ids.entries[i] # NULL
    BY <1>1 DEF Live
<1>4. \A i : i \in Live(ids') <=> i \in Slots /\ ids'.entries[i] # NULL
    BY <1>1 DEF Live
<1>5. IsFiniteSet(Live(ids))
    <2>1. IsFiniteSet(Slots)
        BY UtilAssumption, FS_Interval DEF Slots
    <2>2. Live(ids) \subseteq Slots
        BY <1>3
    <2>3. QED
        BY <2>1, <2>2, FS_Subset
<1>6. \A i : i \in Live(ids') <=> i \in (Live(ids) \ {l}) \cup (IF e # NULL THEN {l} ELSE {})
    BY <1>2, <1>3, <1>4
<1>7. QED
    BY <1>2, <1>3, <1>5, <1>6

\* Identifiers of other slots name what they named.
LEMMA NamesOther ==
    ASSUME NEW id, ids'.entries[Lid(id)] = ids.entries[Lid(id)]
    PROVE  \A k : (Names(id, k)' <=> Names(id, k)) /\ (Exact(id, k)' <=> Exact(id, k))
<1>1. \A k : Names(id, k)' <=> Names(id, k)
    BY DEF Names, At
<1>2. sem_checkid(id)' <=> sem_checkid(id)
    BY DEF sem_checkid
<1>3. QED
    BY <1>1, <1>2 DEF Exact

\* semget that creates an array.
LEMMA SemgetKept == ASSUME Inv, NEW p \in Procs, Semget(p) PROVE Inv'
<1>1. /\ narrs < MaxArrays /\ used_sems + NSems <= SEMMNS /\ FreeSlots(ids, ids.size) # {}
      /\ ids' = ipc_addid(ids, IPC_PRIVATE, narrs) /\ narrs' = narrs + 1
      /\ used_sems' = used_sems + NSems /\ arr' = arr /\ status' = status /\ asleep' = asleep
      /\ pc' = pc /\ cur' = cur /\ semid' = semid /\ sops' = sops /\ io' = io /\ semundo' = semundo
    BY DEF Semget, callVars
<1>2. Tabled /\ Typed /\ Stored /\ Alerted /\ \A q \in Procs : ProcInv(q)
    BY DEF Inv
<1>3. /\ Table(ids) /\ narrs \in 0 .. MaxArrays
      /\ \A i, j \in Slots, k \in Arrays : At(i, k) /\ At(j, k) => i = j
      /\ \A k \in Arrays : InTable(k) => k < narrs
      /\ used_sems = NSems * Cardinality(Live(ids)) /\ used_sems <= SEMMNS
    BY <1>2 DEF Tabled
<1>4. NSems \in Nat /\ SEMMNS \in Nat /\ MaxArrays \in Nat
    BY SemAssumption
<1>5. narrs \in Arrays /\ narrs \in Nat
    BY <1>1, <1>3, <1>4 DEF Arrays
<1>6. PICK l \in Slots, e \in Perms : /\ Table(ids') /\ ids.entries[l] = NULL /\ e.obj = narrs
                                      /\ Replaced(ids, ids', l, e)
    BY <1>1, <1>3, <1>5, AddEffect
<1>7. e # NULL
    BY SemAssumption
<1>8. /\ ids'.entries[l] = e /\ \A i \in Slots \ {l} : ids'.entries[i] = ids.entries[i]
      /\ IsFiniteSet(Live(ids)) /\ l \notin Live(ids) /\ Live(ids') = Live(ids) \cup {l}
    BY <1>3, <1>6, <1>7, SlotsNext
<1>9. \A i \in Slots : \A k : At(i, k)' <=> At(i, k) \/ (i = l /\ k = narrs)
    BY <1>6, <1>7, <1>8 DEF At
<1>10. \A k : InTable(k)' <=> InTable(k) \/ k = narrs
    BY <1>9 DEF InTable
<1>11. Tabled'
    <2>1. narrs' \in 0 .. MaxArrays
        BY <1>1, <1>3, <1>4, <1>5
    <2>2. ASSUME NEW i \in Slots, NEW j \in Slots, NEW k \in Arrays, At(i, k)', At(j, k)' PROVE i = j
        <3>1. ~InTable(narrs)
            BY <1>3, <1>5
        <3>2. QED
            BY <1>3, <1>9, <2>2, <3>1 DEF InTable
    <2>3. \A k \in Arrays : InTable(k)' => k < narrs'
        <3>1. \A k \in Arrays : k \in Int
            BY DEF Arrays
        <3>2. QED
            BY <1>1, <1>3, <1>5, <1>10, <3>1
    <2>4. used_sems' = NSems * Cardinality(Live(ids'))
        <3>1. PICK c : c = Cardinality(Live(ids))
            OBVIOUS
        <3>2. c \in Nat
            BY <1>8, <3>1, FS_CardinalityType
        <3>3. Cardinality(Live(ids')) = c + 1
            BY <1>8, <3>1, FS_AddElement
        <3>4. NSems * (c + 1) = NSems * c + NSems
            BY <1>4, <3>2, SMT
        <3>5. QED
            BY <1>1, <1>3, <3>1, <3>3, <3>4
    <2>5. used_sems' <= SEMMNS
        BY <1>1
    <2>6. (used_sems = NSems * Cardinality(Live(ids)))'
        BY <2>4
    <2>7. QED
        BY <1>6, <2>1, <2>2, <2>3, <2>5, <2>6 DEF Tabled
<1>12. Typed'
    BY <1>1, <1>2 DEF Typed
<1>13. Stored'
    BY <1>1, <1>2, <1>10 DEF Stored
<1>14. Alerted'
    BY <1>1, <1>2 DEF Alerted, Alert
<1>15. ASSUME NEW id \in SemIds, NEW k, Names(id, k)
       PROVE  Names(id, k)' /\ (Exact(id, k) => Exact(id, k)')
    <2>1. Lid(id) \in Slots /\ Lid(id) # l
        BY <1>6, <1>15, IdSlot DEF Names, At
    <2>2. QED
        BY <1>8, <1>15, <2>1, NamesOther
<1>16. ASSUME NEW q \in Procs PROVE ProcInv(q)'
    <2>1. CallSame(q) /\ LocalSame(q) /\ QStep(q) /\ UndoSame(q)
        BY <1>1 DEF CallSame, LocalSame, QStep, Status1, Stays, UndoSame
    <2>2. Queued(q) /\ Placed(q) /\ Waits(q) /\ Owns(q)
        BY <1>2 DEF ProcInv
    <2>3. Queued(q)' /\ Placed(q)'
        BY <2>1, <2>2, OtherQueued, OtherPlaced
    <2>4. Waits(q)'
        <3>1. PICK id, k : id = semid[q] /\ k = cur[q]
            OBVIOUS
        <3>2. id \in SemIds /\ id = semid'[q] /\ k = cur'[q]
            BY <1>1, <1>2, <3>1 DEF Typed
        <3>3. Names(id, k) => Names(id, k)'
            BY <1>15, <3>2
        <3>4. Names(semid[q], cur[q]) => Names(semid[q], cur[q])'
            BY <3>1, <3>2, <3>3 DEF Names, At
        <3>5. QED
            BY <2>1, <2>2, <3>4, OtherWaits
    <2>5. Owns(q)'
        <3>1. \A id \in SemIds, k \in Arrays : Exact(id, k) => Exact(id, k)'
            BY <1>15 DEF Exact
        <3>2. QED
            BY <1>2, <2>1, <2>2, <3>1, OtherOwns DEF Typed
    <2>6. QED
        BY <2>3, <2>4, <2>5 DEF ProcInv
<1>17. QED
    BY <1>11, <1>12, <1>13, <1>14, <1>16 DEF Inv
\* The undo structures of a process after IPC_RMID of array k: those of k are invalid.
Invalid(L, R, k) ==
    /\ DOMAIN R = DOMAIN L
    /\ \A n \in DOMAIN L : R[n].arr = L[n].arr /\ R[n].semid = IF L[n].arr = k THEN -1 ELSE L[n].semid
\* InvalidUndos marks the structures of one array.
LEMMA Invalidated ==
    ASSUME NEW L \in Seq(Undos), NEW k, NEW R, R = InvalidUndos(L, k)
    PROVE  R \in Seq(Undos) /\ Invalid(L, R, k)
<1>1. PICK n : n = Len(L)
    OBVIOUS
<1>2. n \in Nat /\ DOMAIN L = 1 .. n /\ \A i \in 1 .. n : L[i] \in Undos
    BY <1>1
<1>3. R = [i \in 1 .. n |-> IF L[i].arr = k THEN [L[i] EXCEPT !.semid = -1] ELSE L[i]]
    BY <1>2 DEF InvalidUndos
<1>4. ASSUME NEW u \in Undos
      PROVE  LET v == [u EXCEPT !.semid = -1] IN v \in Undos /\ v.semid = -1 /\ v.arr = u.arr
    BY DEF Undos
<1>5. ASSUME NEW i \in 1 .. n
      PROVE  /\ R[i] \in Undos /\ R[i].arr = L[i].arr
             /\ R[i].semid = IF L[i].arr = k THEN -1 ELSE L[i].semid
    <2>1. PICK u : u = L[i]
        OBVIOUS
    <2>2. u \in Undos /\ R[i] = IF u.arr = k THEN [u EXCEPT !.semid = -1] ELSE u
        BY <1>2, <1>3, <2>1
    <2>3. QED
        BY <1>4, <2>1, <2>2
<1>6. DOMAIN R = 1 .. n
    BY <1>3
<1>7. R \in Seq(Undos)
    <2>1. R \in [1 .. n -> Undos]
        BY <1>3, <1>5
    <2>2. QED
        BY <1>2, <2>1
<1>8. QED
    BY <1>2, <1>5, <1>6, <1>7 DEF Invalid

\* Array k is removed: what the step does to the table, the arrays and the queue.
Removes(k, l) ==
    /\ k \in Arrays /\ l \in Slots /\ At(l, k)
    /\ \A i \in Slots \ {l} : ids'.entries[i] = ids.entries[i]
    /\ arr'[k] = newary /\ \A j \in Arrays \ {k} : arr'[j] = arr[j]
    /\ \A q \in Procs : status'[q] = IF q \in ToSet(arr[k].pending) THEN "EIDRM" ELSE status[q]

\* Identifiers of other arrays stay good.
LEMMA RemovedNames ==
    ASSUME NEW k, NEW l, Removes(k, l), NEW id \in SemIds, NEW j, j # k, Names(id, j)
    PROVE  Names(id, j)' /\ (Exact(id, j) => Exact(id, j)')
<1>1. Lid(id) \in Slots \ {l}
    BY IdSlot DEF Removes, Names, At
<1>2. QED
    BY <1>1, NamesOther DEF Removes

\* The sleepers of the removed array are told, the others wait as they did.
LEMMA RemovedQueue ==
    ASSUME Inv, NEW k, NEW l, Removes(k, l), NEW q \in Procs, CallSame(q)
    PROVE  Queued(q)' /\ Placed(q)' /\ Waits(q)'
<1>1. Typed /\ Queued(q) /\ Placed(q) /\ Waits(q)
    BY DEF Inv, ProcInv
<1>2. k \in Arrays /\ arr'[k] = newary /\ \A j \in Arrays \ {k} : arr'[j] = arr[j]
    BY DEF Removes
<1>3. ToSet(arr'[k].pending) = {}
    BY <1>2, NewArray
<1>4. QStep(q)
    <2>1. CASE q \in ToSet(arr[k].pending)
        <3>1. Waiting(q) /\ cur[q] = k
            BY <1>1, <1>2, <2>1 DEF Queued
        <3>2. status'[q] = "EIDRM"
            BY <2>1 DEF Removes
        <3>3. \A j \in Arrays : q \notin ToSet(arr'[j].pending)
            BY <1>1, <1>2, <1>3, <3>1 DEF Queued
        <3>4. QED
            BY <3>1, <3>2, <3>3 DEF QStep, Status3
    <2>2. CASE q \notin ToSet(arr[k].pending)
        <3>1. status'[q] = status[q]
            BY <2>2 DEF Removes
        <3>2. Stays(q)
            BY <1>2, <1>3, <2>2 DEF Stays
        <3>3. QED
            BY <3>1, <3>2 DEF QStep, Status1
    <2>3. QED
        BY <2>1, <2>2
<1>5. Queued(q)' /\ Placed(q)'
    BY <1>1, <1>4, OtherQueued, OtherPlaced
<1>6. ASSUME Waiting(q)'
      PROVE  /\ Names(semid[q], cur[q])' /\ UndoReady(arr[cur[q]], q, sops[q])'
             /\ Blocking(sops[q])' /\ (status[q] = "retry" => Decrease(sops[q]))'
    <2>1. q \notin ToSet(arr[k].pending) /\ status'[q] = status[q]
        BY <1>6 DEF Removes, Waiting
    <2>2. Waiting(q)
        BY <1>6, <2>1 DEF Waiting, CallSame
    <2>3. PICK id, j : id = semid[q] /\ j = cur[q]
        OBVIOUS
    <2>4. id = semid'[q] /\ j = cur'[q] /\ sops'[q] = sops[q] /\ id \in SemIds
        BY <1>1, <2>3 DEF CallSame, Typed
    <2>5. /\ Names(id, j) /\ UndoReady(arr[j], q, sops[q]) /\ j \in Arrays
          /\ Blocking(sops[q]) /\ (status[q] = "retry" => Decrease(sops[q]))
        BY <1>1, <2>2, <2>3 DEF Waits, Placed, Waiting
    <2>6. j # k
        BY <1>1, <1>2, <2>1, <2>2, <2>3 DEF Queued
    <2>7. Names(id, j)'
        BY <2>4, <2>5, <2>6, RemovedNames
    <2>8. arr'[j] = arr[j]
        BY <1>2, <2>5, <2>6
    <2>9. Names(semid[q], cur[q])'
        BY <2>4, <2>7 DEF Names, At
    <2>10. UndoReady(arr[cur[q]], q, sops[q])'
        BY <2>4, <2>5, <2>8
    <2>11. QED
        BY <2>1, <2>4, <2>5, <2>9, <2>10
<1>7. Waits(q)'
    BY <1>6 DEF Waits
<1>8. QED
    BY <1>5, <1>7

\* The undo structures of the others stay good.
LEMMA RemovedOwns ==
    ASSUME Inv, NEW k, NEW l, Removes(k, l), NEW q \in Procs, CallSame(q),
           semundo'[q] \in Seq(Undos), Invalid(semundo[q], semundo'[q], k)
    PROVE  Owns(q)'
<1>1. PICK L, R : L = semundo[q] /\ R = semundo'[q]
    OBVIOUS
<1>2. /\ Typed /\ Owns(q) /\ L \in Seq(Undos) /\ R \in Seq(Undos) /\ Invalid(L, R, k)
      /\ semid[q] \in SemIds
    BY <1>1 DEF Inv, ProcInv, Typed
<1>3. k \in Arrays /\ arr'[k] = newary /\ \A j \in Arrays \ {k} : arr'[j] = arr[j]
    BY DEF Removes
<1>4. /\ DOMAIN R = DOMAIN L
      /\ \A n \in DOMAIN L : R[n].arr = L[n].arr /\ (R[n].semid # -1 => L[n].arr # k)
      /\ \A n \in DOMAIN L : R[n].semid = -1 \/ R[n].semid = L[n].semid
      /\ \A n \in DOMAIN L : L[n].arr # k => R[n].semid = L[n].semid
    BY <1>2 DEF Invalid
<1>5. Listed(q)
    BY <1>2 DEF Owns
<1>6. ASSUME NEW n \in DOMAIN R PROVE Backed(q, R[n])'
    <2>1. PICK v, x, j : v = R[n] /\ x = v.semid /\ j = v.arr
        OBVIOUS
    <2>2. ASSUME x # -1 PROVE Exact(x, j)' /\ q \in arr'[j].undo
        <3>1. PICK u : u = L[n]
            OBVIOUS
        <3>2. u.arr = j /\ j # k /\ u.semid = x
            BY <1>4, <2>1, <2>2, <3>1
        <3>3. u \in Undos /\ Backed(q, u)
            BY <1>1, <1>2, <1>4, <1>5, <3>1 DEF Listed
        <3>4. Exact(x, j) /\ q \in arr[j].undo
            BY <2>2, <3>2, <3>3 DEF Backed
        <3>5. x \in SemIds /\ j \in Arrays
            BY <2>2, <3>2, <3>3 DEF Undos
        <3>6. Exact(x, j)'
            BY <3>2, <3>4, <3>5, RemovedNames DEF Exact
        <3>7. QED
            BY <1>3, <3>2, <3>4, <3>5, <3>6
    <2>3. QED
        BY <2>1, <2>2 DEF Backed
<1>7. OneEach(R)
    BY <1>1, <1>4, <1>5 DEF Listed, OneEach
<1>8. ASSUME NEW j \in Arrays, q \in arr'[j].undo PROVE Covers(R, j)
    <2>1. j # k
        BY <1>3, <1>8, NewArray
    <2>2. PICK n \in DOMAIN L : L[n].arr = j /\ L[n].semid # -1
        BY <1>1, <1>3, <1>5, <1>8, <2>1 DEF Listed, Covers
    <2>3. n \in DOMAIN R /\ R[n].arr = j /\ R[n].semid # -1
        BY <1>4, <2>1, <2>2
    <2>4. QED
        BY <2>3 DEF Covers
<1>9. Listed(q)'
    <2>1. (\A n \in DOMAIN semundo[q] : Backed(q, semundo[q][n]))'
        BY <1>1, <1>6
    <2>2. QED
        BY <1>1, <1>7, <1>8, <2>1 DEF Listed
<1>10. semid[q] # -1 /\ semid'[q] = semid[q] /\ pc'[q] = pc[q]
    BY <1>2, IdSlot DEF CallSame
<1>11. pc'[q] = "alloc" => \A n \in DOMAIN R : R[n].semid # semid'[q]
    BY <1>1, <1>2, <1>4, <1>10 DEF Owns
<1>12. ASSUME pc'[q] = "adjust" PROVE R # <<>> /\ Head(R).semid \in {-1, semid'[q]}
    <2>1. L # <<>> /\ Head(L).semid \in {-1, semid[q]}
        BY <1>1, <1>2, <1>10, <1>12 DEF Owns
    <2>2. 1 \in DOMAIN L /\ Head(L) = L[1]
        BY <1>2, <2>1, TailPruned
    <2>3. 1 \in DOMAIN R /\ R # <<>>
        BY <1>4, <2>2
    <2>4. Head(R) = R[1]
        BY <1>2, <2>3, TailPruned
    <2>5. QED
        BY <1>4, <1>10, <2>1, <2>2, <2>3, <2>4
<1>13. QED
    BY <1>1, <1>9, <1>11, <1>12 DEF Owns
\* freeary, for the undo structures of every process.
LEMMA FreedUndos ==
    ASSUME Inv, NEW k \in Arrays, NEW q \in Procs,
           semundo' = [r \in Procs |->
               IF r \in arr[k].undo THEN InvalidUndos(semundo[r], k) ELSE semundo[r]]
    PROVE  semundo'[q] \in Seq(Undos) /\ Invalid(semundo[q], semundo'[q], k)
<1>1. semundo[q] \in Seq(Undos) /\ Listed(q)
    BY DEF Inv, Typed, ProcInv, Owns
<1>2. CASE q \in arr[k].undo
    <2>1. semundo'[q] = InvalidUndos(semundo[q], k)
        BY <1>2
    <2>2. QED
        BY <1>1, <2>1, Invalidated
<1>3. CASE q \notin arr[k].undo
    <2>1. semundo'[q] = semundo[q]
        BY <1>3
    <2>2. ASSUME NEW n \in DOMAIN semundo[q], semundo[q][n].arr = k PROVE semundo[q][n].semid = -1
        <3>1. PICK u : u = semundo[q][n]
            OBVIOUS
        <3>2. Backed(q, u) /\ u.arr = k
            BY <1>1, <2>2, <3>1 DEF Listed
        <3>3. u.semid = -1
            BY <1>3, <3>2 DEF Backed
        <3>4. QED
            BY <3>1, <3>3
    <2>3. QED
        BY <1>1, <2>1, <2>2 DEF Invalid
<1>4. QED
    BY <1>2, <1>3

\* IPC_RMID.
LEMMA RmidKept == ASSUME Inv, NEW p \in Procs, NEW id \in SemIds, Rmid(p, id) PROVE Inv'
<1>1. PICK k, l : k = ArrayOf(id) /\ l = Lid(id)
    OBVIOUS
<1>2. /\ Found(id) /\ ids' = ipc_rmid(ids, l)
      /\ semundo' = [r \in Procs |->
             IF r \in arr[k].undo THEN InvalidUndos(semundo[r], k) ELSE semundo[r]]
      /\ status' = freeary_Status(status, ToSet(arr[k].pending))
      /\ asleep' = asleep \ ToSet(arr[k].pending) /\ arr' = [arr EXCEPT ![k] = newary]
      /\ used_sems' = used_sems - NSems /\ narrs' = narrs
      /\ pc' = pc /\ cur' = cur /\ semid' = semid /\ sops' = sops /\ io' = io
    BY <1>1 DEF Rmid, callVars, Woken
<1>3. Tabled /\ Typed /\ Stored /\ Alerted
    BY DEF Inv
<1>4. /\ Table(ids) /\ narrs \in 0 .. MaxArrays
      /\ \A i, j \in Slots, x \in Arrays : At(i, x) /\ At(j, x) => i = j
      /\ \A x \in Arrays : InTable(x) => x < narrs
      /\ used_sems = NSems * Cardinality(Live(ids)) /\ used_sems <= SEMMNS
    BY <1>3 DEF Tabled
<1>5. NSems \in Nat /\ SEMMNS \in Nat
    BY SemAssumption
<1>6. l \in Slots /\ k \in Arrays /\ At(l, k)
    BY <1>1, <1>2, <1>4, IdSlot, Lookup DEF Names
<1>7. Table(ids') /\ Replaced(ids, ids', l, NULL)
    BY <1>2, <1>4, <1>6, RemoveEffect
<1>8. /\ ids'.entries[l] = NULL /\ \A i \in Slots \ {l} : ids'.entries[i] = ids.entries[i]
      /\ IsFiniteSet(Live(ids)) /\ l \in Live(ids) /\ Live(ids') = Live(ids) \ {l}
    <2>1. l \in Live(ids) <=> ids.entries[l] # NULL
        BY <1>4, <1>6, <1>7, SlotsNext
    <2>2. QED
        BY <1>4, <1>6, <1>7, <2>1, SlotsNext DEF At
<1>9. \A i \in Slots : \A x : At(i, x)' <=> At(i, x) /\ i # l
    BY <1>8 DEF At
<1>10. ~InTable(k)' /\ \A x \in Arrays : x # k => (InTable(x)' <=> InTable(x))
    <2>1. ~InTable(k)'
        BY <1>4, <1>6, <1>9 DEF InTable
    <2>2. \A x : At(l, x) => x = k
        BY <1>6 DEF At
    <2>3. QED
        BY <1>9, <2>1, <2>2 DEF InTable
<1>11. Tabled'
    <2>1. PICK c : c = Cardinality(Live(ids))
        OBVIOUS
    <2>2. c \in Nat /\ Cardinality(Live(ids')) = c - 1
        BY <1>8, <2>1, FS_CardinalityType, FS_RemoveElement
    <2>3. NSems * (c - 1) = NSems * c - NSems
        BY <1>5, <2>2, SMT
    <2>4. (used_sems = NSems * Cardinality(Live(ids)))'
        BY <1>2, <1>4, <2>1, <2>2, <2>3
    <2>5. NSems * c \in Nat
        BY <1>5, <2>2, SMT
    <2>6. used_sems' <= SEMMNS
        BY <1>2, <1>4, <1>5, <2>1, <2>5
    <2>7. \A i, j \in Slots, x \in Arrays : (At(i, x) /\ At(j, x) => i = j)'
        BY <1>4, <1>9
    <2>8. \A x \in Arrays : (InTable(x) => x < narrs)'
        BY <1>2, <1>4, <1>10
    <2>9. QED
        BY <1>2, <1>4, <1>7, <2>4, <2>6, <2>7, <2>8 DEF Tabled
<1>12. /\ arr \in [Arrays -> ArraysOf(Nat)] /\ status \in [Procs -> Status]
       /\ asleep \in SUBSET Procs /\ semundo \in [Procs -> Seq(Undos)]
    BY <1>3 DEF Typed
<1>13. /\ arr' \in [Arrays -> ArraysOf(Nat)] /\ arr'[k] = newary
       /\ \A j \in Arrays \ {k} : arr'[j] = arr[j]
    <2>1. newary \in ArraysOf(Nat)
        BY NewArray DEF Sound
    <2>2. QED
        BY <1>2, <1>6, <1>12, <2>1
<1>14. /\ status' \in [Procs -> Status]
       /\ \A q \in Procs : status'[q] = IF q \in ToSet(arr[k].pending) THEN "EIDRM" ELSE status[q]
    BY <1>2, <1>12 DEF freeary_Status, Status
<1>15. \A q \in Procs : semundo'[q] \in Seq(Undos) /\ Invalid(semundo[q], semundo'[q], k)
    BY <1>2, <1>6, FreedUndos
<1>16. Typed'
    <2>1. semundo' \in [Procs -> Seq(Undos)]
        BY <1>2, <1>15
    <2>2. asleep' \in SUBSET Procs
        BY <1>2, <1>12
    <2>3. QED
        BY <1>2, <1>3, <1>13, <1>14, <2>1, <2>2 DEF Typed
<1>17. Stored'
    <2>1. ASSUME NEW j \in Arrays PROVE (Sound(arr[j]) /\ (~InTable(j) => arr[j] = newary))'
        <3>1. CASE j = k
            BY <1>13, <3>1, NewArray
        <3>2. CASE j # k
            BY <1>3, <1>10, <1>13, <3>2 DEF Stored
        <3>3. QED
            BY <3>1, <3>2
    <2>2. QED
        BY <2>1 DEF Stored
<1>18. Removes(k, l)
    BY <1>6, <1>8, <1>13, <1>14 DEF Removes
<1>19. ASSUME NEW j \in Arrays PROVE Alert(arr[j], status)'
    <2>1. CASE j = k
        <3>1. ToSet(arr'[j].pending) = {}
            BY <1>13, <2>1, NewArray
        <3>2. QED
            BY <3>1 DEF Alert
    <2>2. CASE j # k
        <3>1. Alert(arr[j], status) /\ arr[j] = arr'[j]
            BY <1>3, <1>13, <1>19, <2>2 DEF Alerted
        <3>2. ASSUME NEW q \in ToSet(arr[j].pending) PROVE status'[q] = status[q] /\ sops'[q] = sops[q]
            <4>1. q \in Procs /\ cur[q] = j
                BY InQueue
            <4>2. q \notin ToSet(arr[k].pending)
                BY <1>6, <2>2, <4>1, InQueue
            <4>3. QED
                BY <1>2, <1>14, <4>1, <4>2
        <3>3. QED
            BY <3>1, <3>2, AlertNext
    <2>3. QED
        BY <2>1, <2>2
<1>20. Alerted'
    BY <1>19 DEF Alerted
<1>21. ASSUME NEW q \in Procs PROVE ProcInv(q)'
    <2>1. CallSame(q)
        BY <1>2 DEF CallSame
    <2>2. QED
        BY <1>15, <1>18, <2>1, RemovedQueue, RemovedOwns DEF ProcInv
<1>22. QED
    BY <1>11, <1>16, <1>17, <1>20, <1>21 DEF Inv

(***************************************************************************)
(* The invariant holds.                                                    *)
(***************************************************************************)
LEMMA InitInv == Init => Inv
<1>1. SUFFICES ASSUME Init PROVE Inv
    OBVIOUS
<1>2. /\ ids = ipc_init_ids(IPCMNI) /\ arr = [a \in Arrays |-> newary]
      /\ narrs = 0 /\ used_sems = 0 /\ pc = [p \in Procs |-> "idle"] /\ asleep = {}
      /\ cur = [p \in Procs |-> NULL] /\ semid = [p \in Procs |-> 0]
      /\ sops = [p \in Procs |-> <<>>] /\ status = [p \in Procs |-> "ok"]
      /\ io = [p \in Procs |-> <<>>] /\ semundo = [p \in Procs |-> <<>>]
    BY <1>1 DEF Init
<1>3. IPCMNI \in Nat \ {0} /\ SeqMax \in Nat /\ MaxArrays \in Nat /\ NSems \in Nat /\ SEMMNS \in Nat
    BY UtilAssumption, SemAssumption
<1>4. ids = [size |-> IPCMNI, in_use |-> 0, max_id |-> -1, seq |-> 0,
             entries |-> [i \in Slots |-> NULL]]
    <2>1. Smaller(IPCMNI, IPCMNI) = IPCMNI
        BY DEF Smaller
    <2>2. QED
        BY <1>2, <2>1, Zenon DEF ipc_init_ids, Slots
<1>5. ids.entries = [i \in Slots |-> NULL] /\ Table(ids)
    <2>1. 0 \in 0 .. SeqMax
        BY <1>3
    <2>2. PICK e : e = [i \in Slots |-> NULL]
        OBVIOUS
    <2>3. e \in [Slots -> Perms \cup {NULL}]
        BY <2>2
    <2>4. ids = [size |-> IPCMNI, in_use |-> 0, max_id |-> -1, seq |-> 0, entries |-> e]
        BY <1>4, <2>2
    <2>5. QED
        BY <2>1, <2>2, <2>3, <2>4 DEF Table
<1>6. \A i \in Slots : \A k : ~At(i, k)
    BY <1>5 DEF At
<1>7. \A k : ~InTable(k)
    BY <1>6 DEF InTable
<1>8. Live(ids) = {}
    BY <1>5 DEF Live
<1>9. Tabled
    <2>1. NSems * Cardinality(Live(ids)) = 0
        BY <1>3, <1>8, FS_EmptySet
    <2>2. QED
        BY <1>2, <1>3, <1>5, <1>6, <1>7, <2>1 DEF Tabled
<1>10. \A k \in Arrays : arr[k] = newary
    BY <1>2
<1>11. Typed
    <2>1. newary \in ArraysOf(Nat)
        BY NewArray DEF Sound
    <2>2. arr \in [Arrays -> ArraysOf(Nat)]
        BY <1>2, <2>1
    <2>3. semid \in [Procs -> SemIds]
        BY <1>2, IdSlot
    <2>4. io \in [Procs -> {<<>>} \cup [Sems -> Vals]] /\ semundo \in [Procs -> Seq(Undos)]
        BY <1>2
    <2>5. pc \in [Procs -> PCs] /\ status \in [Procs -> Status]
        BY <1>2 DEF PCs, Status
    <2>6. /\ asleep \in SUBSET Procs /\ cur \in [Procs -> Arrays \cup {NULL}]
          /\ sops \in [Procs -> SopLists \cup {<<>>}]
        BY <1>2
    <2>7. QED
        BY <2>2, <2>3, <2>4, <2>5, <2>6 DEF Typed
<1>12. Stored
    BY <1>10, NewArray DEF Stored
<1>13. Alerted
    <2>1. ASSUME NEW k \in Arrays PROVE Alert(arr[k], status)
        <3>1. ToSet(arr[k].pending) = {}
            BY <1>10, NewArray
        <3>2. QED
            BY <3>1 DEF Alert
    <2>2. QED
        BY <2>1 DEF Alerted
<1>14. ASSUME NEW p \in Procs PROVE ProcInv(p)
    <2>1. pc[p] = "idle" /\ status[p] = "ok" /\ semundo[p] = <<>>
        BY <1>2
    <2>2. ~Waiting(p)
        BY <2>1 DEF Waiting
    <2>3. Queued(p)
        BY <1>10, <2>2, NewArray DEF Queued
    <2>4. Placed(p) /\ Waits(p)
        BY <2>1, <2>2 DEF Placed, Waits
    <2>5. Listed(p)
        BY <1>10, <2>1, NewArray DEF Listed, OneEach
    <2>6. Owns(p)
        BY <2>1, <2>5 DEF Owns
    <2>7. QED
        BY <2>3, <2>4, <2>6 DEF ProcInv
<1>15. QED
    BY <1>9, <1>11, <1>12, <1>13, <1>14 DEF Inv
\* The identifiers processes pass are identifiers.
LEMMA IssuedIn == Issued \subseteq SemIds
BY DEF Issued

\* Every call keeps the invariant ...
LEMMA CallKept == ASSUME Inv, NEW p \in Procs, Calls(p) PROVE Inv'
<1>1. CASE Semget(p)
    BY <1>1, SemgetKept
<1>2. CASE \E id \in Issued : \E ops \in SopLists : Semop(p, id, ops)
    BY <1>2, IssuedIn, SemopKept
<1>3. CASE \E id \in Issued : \E i \in Sems, v \in Vals : Setval(p, id, i, v)
    BY <1>3, IssuedIn, SetvalKept
<1>4. CASE \E id \in Issued : \E v \in [Sems -> Vals] : SetallBegin(p, id, v)
    BY <1>4, IssuedIn, SetallBeginKept
<1>5. CASE \E id \in Issued : Rmid(p, id)
    BY <1>5, IssuedIn, RmidKept
<1>6. CASE Exit(p)
    BY <1>6, ExitKept
<1>7. QED
    BY <1>1, <1>2, <1>3, <1>4, <1>5, <1>6, Zenon DEF Calls

\* ... and so does every step.
LEMMA NextInv == Inv /\ [Next]_vars => Inv'
<1>1. SUFFICES ASSUME Inv, [Next]_vars PROVE Inv'
    OBVIOUS
<1>2. CASE UNCHANGED vars
    <2>1. /\ TableSame /\ arr' = arr /\ status' = status /\ asleep' = asleep /\ pc' = pc
          /\ cur' = cur /\ semid' = semid /\ sops' = sops /\ io' = io /\ semundo' = semundo
        BY <1>2 DEF vars, tableVars, callVars, TableSame
    <2>2. asleep' \in SUBSET Procs
        BY <1>1, <2>1 DEF Inv, Typed
    <2>3. QED
        BY <1>1, <2>1, <2>2, SameKept
<1>3. CASE Next
    <2>1. PICK p \in Procs : Calls(p) \/ Steps(p) \/ Signal(p)
        BY <1>3 DEF Next
    <2>2. CASE Steps(p)
        BY <1>1, <2>2, AllocUndoKept, CallFailsKept, WakeGoneKept, WakeRetryKept, WakeDoneKept,
           SetallEndKept, ExitNextKept, ExitUndoKept DEF Steps
    <2>3. QED
        BY <1>1, <2>1, <2>2, CallKept, SignalKept
<1>4. QED
    BY <1>1, <1>2, <1>3

\* Every reachable state satisfies the invariant: arrays, queues, undo structures and
\* the identifiers processes hold on to across the points where sem.c gives the lock
\* up agree with one another.
THEOREM Invariance == Spec => []Inv
<1>1. Init => Inv
    BY InitInv
<1>2. Inv /\ [Next]_vars => Inv'
    BY NextInv
<1>3. QED
    BY <1>1, <1>2, PTL DEF Spec

\* No semaphore is ever negative, whatever sem_exit undoes in whatever order, and
\* used_sems stays within SEMMNS.
THEOREM Typing == Spec => []TypeOK
<1>1. Inv => TypeOK
    <2>1. SUFFICES ASSUME Inv PROVE TypeOK
        OBVIOUS
    <2>2. Typed /\ Tabled
        BY <2>1 DEF Inv
    <2>3. used_sems \in 0 .. SEMMNS
        <3>1. PICK c : c = Cardinality(Live(ids))
            OBVIOUS
        <3>2. IsFiniteSet(Slots)
            BY UtilAssumption, FS_Interval DEF Slots
        <3>3. Live(ids) \in SUBSET Slots
            BY <2>2, TableParts DEF Tabled, Live
        <3>4. c \in Nat
            BY <3>1, <3>2, <3>3, FS_Subset, FS_CardinalityType
        <3>5. NSems \in Nat /\ SEMMNS \in Nat
            BY SemAssumption
        <3>6. NSems * c \in Nat
            BY <3>4, <3>5, SMT
        <3>7. QED
            BY <2>2, <3>1, <3>5, <3>6 DEF Tabled
    <2>4. ArrayType = ArraysOf(Nat)
        BY Zenon DEF ArrayType, ArraysOf
    <2>5. arr \in [Arrays -> ArrayType]
        BY <2>2, <2>4 DEF Typed
    <2>6. \A p \in Procs : io[p] = <<>> \/ io[p] \in [Sems -> Vals]
        BY <2>2 DEF Typed
    <2>7. \A p \in Procs : semundo[p] \in Seq([semid : SemIds \cup {-1}, arr : Arrays])
        BY <2>2, Zenon DEF Typed, Undos
    <2>8. narrs \in 0 .. MaxArrays /\ asleep \subseteq Procs
        BY <2>2 DEF Typed, Tabled
    <2>9. QED
        BY <2>2, <2>3, <2>5, <2>6, <2>7, <2>8 DEF TypeOK, Typed, PCs
<1>2. QED
    BY <1>1, Invariance, PTL

\* A sleeper of semop that was told nothing, or told to try again, is in the queue of
\* an array its identifier still names: retry and clean-up touch no other array.
THEOREM SleepersQueued == Spec => []QueuedOnLiveArray
<1>1. Inv => QueuedOnLiveArray
    <2>1. SUFFICES ASSUME Inv, NEW p \in Procs, pc[p] = "sleep", status[p] \in {"EINTR", "retry"}
                   PROVE  /\ Found(semid[p]) /\ ArrayOf(semid[p]) = cur[p]
                          /\ p \in ToSet(arr[cur[p]].pending)
        BY DEF QueuedOnLiveArray
    <2>2. Waiting(p) /\ Queued(p) /\ Placed(p) /\ Waits(p) /\ Table(ids) /\ semid[p] \in SemIds
        BY <2>1 DEF Waiting, Inv, ProcInv, Tabled, Typed
    <2>3. Names(semid[p], cur[p]) /\ cur[p] \in Arrays
        BY <2>1, <2>2 DEF Waits, Placed
    <2>4. Found(semid[p]) /\ ArrayOf(semid[p]) = cur[p]
        BY <2>2, <2>3, Lookup
    <2>5. QED
        BY <2>2, <2>3, <2>4 DEF Queued
<1>2. QED
    BY <1>1, Invariance, PTL

\* Undoing everything would give each semaphore the value that the operations without
\* SEM_UNDO and the last SETVAL or SETALL give it.
THEOREM UndoExact == Spec => []UndoBalanced
<1>1. Inv => UndoBalanced
    <2>1. SUFFICES ASSUME Inv, NEW k \in LiveArrays, NEW i \in Sems PROVE BalancedAt(arr[k], i)
        BY DEF UndoBalanced, BalancedAt
    <2>2. k \in Arrays
        BY <2>1, LiveIn DEF Inv, Tabled
    <2>3. QED
        BY <2>1, <2>2 DEF Inv, Stored, Sound, Kept
<1>2. QED
    BY <1>1, Invariance, PTL

\* The operations of the queue of an array are finitely many.
LEMMA PendingFinite == ASSUME Inv, NEW k \in Arrays PROVE IsFiniteSet(PendingOps(arr[k]))
<1>1. PICK Q, T, f : /\ Q = ToSet(arr[k].pending) /\ f = [q \in Q |-> {q} \X DOMAIN sops[q]]
                     /\ T = {{q} \X DOMAIN sops[q] : q \in Q}
    OBVIOUS
<1>2. Q \subseteq Procs /\ \A q \in Q : Legal(sops[q])
    BY <1>1, InQueue DEF Able
<1>3. IsFiniteSet(Q)
    BY <1>2, SemAssumption, FS_Subset
<1>4. f \in Surjection(Q, T)
    <2>1. f \in [Q -> T] /\ \A t \in T : \E q \in Q : f[q] = t
        BY <1>1
    <2>2. QED
        BY <2>1, Fun_IsSurj
<1>5. IsFiniteSet(T)
    BY <1>3, <1>4, FS_Surjection
<1>6. ASSUME NEW q \in Q PROVE IsFiniteSet({q} \X DOMAIN sops[q])
    <2>1. sops[q] \in Seq(Sembuf)
        BY <1>2 DEF Legal
    <2>2. DOMAIN sops[q] = 1 .. Len(sops[q]) /\ Len(sops[q]) \in Nat
        BY <2>1
    <2>3. PICK m : m = Len(sops[q])
        OBVIOUS
    <2>4. IsFiniteSet(1 .. m)
        BY <2>2, <2>3, FS_Interval
    <2>5. IsFiniteSet({q})
        BY FS_Singleton
    <2>6. QED
        BY <2>2, <2>3, <2>4, <2>5, FS_Product
<1>7. \A t \in T : IsFiniteSet(t)
    BY <1>1, <1>6
<1>8. PendingOps(arr[k]) = UNION T
    BY <1>1, Zenon DEF PendingOps
<1>9. QED
    BY <1>5, <1>7, <1>8, FS_UNION

\* While somebody is queued, GETNCNT or GETZCNT of one of the semaphores says so.
THEOREM CountsShow == Spec => []CountsWarrant
<1>1. Inv => CountsWarrant
    <2>1. SUFFICES ASSUME Inv, NEW k \in LiveArrays, arr[k].pending # <<>>
                   PROVE  \E i \in Sems : count_semncnt(arr[k], i) + count_semzcnt(arr[k], i) > 0
        BY DEF CountsWarrant
    <2>2. k \in Arrays
        BY <2>1, LiveIn DEF Inv, Tabled
    <2>3. PICK q : q \in ToSet(arr[k].pending)
        <3>1. arr[k].pending \in Seq(Procs)
            BY <2>1, <2>2, ArrayFields DEF Inv, Typed
        <3>2. 1 \in DOMAIN arr[k].pending
            BY <2>1, <3>1, EmptySeq
        <3>3. QED
            BY <3>2, Zenon DEF ToSet
    <2>4. Legal(sops[q]) /\ Blocking(sops[q])
        BY <2>1, <2>2, <2>3, InQueue DEF Able
    <2>5. PICK j \in DOMAIN sops[q] : sops[q][j].sem_op <= 0 /\ ~sops[q][j].nowait
        BY <2>4 DEF Blocking
    <2>6. PICK i, x : i = sops[q][j].sem_num /\ x = <<q, j>>
        OBVIOUS
    <2>7. i \in Sems /\ sops[q][j].sem_op \in Int
        <3>1. sops[q][j] \in Sembuf
            BY <2>4 DEF Legal
        <3>2. QED
            BY <2>4, <2>6, <3>1 DEF Legal, Sembuf
    <2>8. PICK P, N, Z : /\ P = PendingOps(arr[k])
                         /\ N = {y \in P : WaitsOn(sops[y[1]][y[2]], i) /\ sops[y[1]][y[2]].sem_op < 0}
                         /\ Z = {y \in P : WaitsOn(sops[y[1]][y[2]], i) /\ sops[y[1]][y[2]].sem_op = 0}
        OBVIOUS
    <2>9. count_semncnt(arr[k], i) = Cardinality(N) /\ count_semzcnt(arr[k], i) = Cardinality(Z)
        BY <2>8, Zenon DEF count_semncnt, count_semzcnt
    <2>10. x \in P /\ x[1] = q /\ x[2] = j /\ WaitsOn(sops[q][j], i)
        BY <2>3, <2>5, <2>6, <2>8 DEF PendingOps, WaitsOn
    <2>11. x \in N \/ x \in Z
        BY <2>5, <2>7, <2>8, <2>10
    <2>12. IsFiniteSet(N) /\ IsFiniteSet(Z)
        <3>1. IsFiniteSet(P)
            BY <2>1, <2>2, <2>8, PendingFinite
        <3>2. N \in SUBSET P /\ Z \in SUBSET P
            BY <2>8
        <3>3. QED
            BY <3>1, <3>2, FS_Subset
    <2>13. /\ Cardinality(N) \in Nat /\ Cardinality(Z) \in Nat
           /\ (N # {} => Cardinality(N) # 0) /\ (Z # {} => Cardinality(Z) # 0)
        BY <2>12, FS_CardinalityType, FS_EmptySet
    <2>14. Cardinality(N) + Cardinality(Z) > 0
        BY <2>11, <2>13
    <2>15. QED
        BY <2>7, <2>9, <2>14
<1>2. QED
    BY <1>1, Invariance, PTL

\* update_queue misses nobody, whatever sequences semop is given: a sleeper that could
\* proceed has been told, or will be looked at by one that was told and can, unless
\* the last walk itself changed values, as it does for a sleeper that waits for zero
\* and raises a semaphore.
THEOREM WakeupsComplete == Spec => []NoMissedWakeup
<1>1. Inv => NoMissedWakeup
    <2>1. SUFFICES ASSUME Inv, NEW k \in LiveArrays PROVE Alert(arr[k], status)
        BY Zenon DEF NoMissedWakeup, Alert, MustWait
    <2>2. k \in Arrays
        BY <2>1, LiveIn DEF Inv, Tabled
    <2>3. QED
        BY <2>1, <2>2 DEF Inv, Alerted
<1>2. QED
    BY <1>1, Invariance, PTL

(***************************************************************************)
(* What no step does.                                                      *)
(***************************************************************************)
\* Only semget puts an array into the table, and it writes to none.
LEMMA TableSteps ==
    ASSUME Inv, Next
    PROVE  arr' = arr \/ \A k \in Arrays : InTable(k)' => InTable(k)
<1>1. PICK p \in Procs : Calls(p) \/ Steps(p) \/ Signal(p)
    BY DEF Next
<1>2. CASE Semget(p)
    BY <1>2 DEF Semget
<1>3. CASE \E id \in Issued : Rmid(p, id)
    <2>1. PICK id \in SemIds : Rmid(p, id)
        BY <1>3, IssuedIn
    <2>2. Table(ids) /\ ids' = ipc_rmid(ids, Lid(id)) /\ Lid(id) \in Slots
        BY <2>1, IdSlot DEF Rmid, Inv, Tabled
    <2>3. Table(ids') /\ Replaced(ids, ids', Lid(id), NULL)
        BY <2>2, RemoveEffect
    <2>4. /\ ids'.entries[Lid(id)] = NULL
          /\ \A i \in Slots \ {Lid(id)} : ids'.entries[i] = ids.entries[i]
        BY <2>2, <2>3, SlotsNext
    <2>5. QED
        BY <2>4 DEF InTable, At
<1>4. CASE ids' = ids
    BY <1>4, NamesNext
<1>5. Steps(p) \/ Signal(p) => ids' = ids
    BY DEF Steps, Signal, tableVars, AllocUndo, CallFails, WakeGone, WakeRetry, WakeDone,
           SetallEnd, ExitNext, ExitUndo
<1>6. Calls(p) => ids' = ids \/ Semget(p) \/ \E id \in Issued : Rmid(p, id)
    BY Zenon DEF Calls, tableVars, Semop, Setval, SetallBegin, Exit
<1>7. QED
    BY <1>1, <1>2, <1>3, <1>4, <1>5, <1>6

\* No step writes to an array that IPC_RMID has removed and freed: not the retry or
\* the clean-up after a sleep, nor what follows the allocation of an undo structure
\* or the copy of SETALL's values.
THEOREM WritesLive == Spec => NoWriteAfterFree
<1>1. Inv /\ Inv' /\ [Next]_vars => [WriteLive]_vars
    <2>1. SUFFICES ASSUME Inv, Inv', [Next]_vars, NEW k \in Arrays, arr'[k] # arr[k]
                   PROVE  k \in LiveArrays
        BY DEF WriteLive
    <2>2. arr' # arr /\ Next
        BY <2>1 DEF vars
    <2>3. InTable(k)' => InTable(k)
        BY <2>1, <2>2, TableSteps
    <2>4. ~InTable(k) => arr[k] = newary
        BY <2>1 DEF Inv, Stored
    <2>5. ~InTable(k)' => arr'[k] = newary
        BY <2>1 DEF Inv, Stored
    <2>6. InTable(k)
        BY <2>1, <2>3, <2>4, <2>5
    <2>7. QED
        BY <2>1, <2>6, LiveIs DEF Inv, Tabled
<1>2. QED
    BY <1>1, Invariance, PTL DEF Spec, NoWriteAfterFree

\* A step moves no process but the one that takes it.
LEMMA OneMoves ==
    ASSUME NEW p \in Procs, Calls(p) \/ Steps(p) \/ Signal(p)
    PROVE  \E where : pc' = pc \/ pc' = [pc EXCEPT ![p] = where]
<1>1. \A where : Goto(p, where) => pc' = [pc EXCEPT ![p] = where]
    BY DEF Goto
<1>2. Leave(p) => pc' = [pc EXCEPT ![p] = "idle"]
    BY <1>1 DEF Leave
<1>3. \A k, a, ops, id : SemTry(p, k, a, ops, id) => Leave(p) \/ Goto(p, "sleep")
    BY DEF SemTry
<1>4. Calls(p) => pc' = pc \/ Leave(p) \/ \E where : Goto(p, where)
    <2>1. \A id, ops : Semop(p, id, ops) => Leave(p) \/ \E where : Goto(p, where)
        BY <1>3, Zenon DEF Semop
    <2>2. QED
        BY <2>1, Zenon DEF Calls, Semget, Setval, SetallBegin, Rmid, Exit
<1>5. Steps(p) => pc' = pc \/ Leave(p) \/ \E where : Goto(p, where)
    <2>1. AllocUndo(p) => Leave(p) \/ \E where : Goto(p, where)
        BY <1>3, Zenon DEF AllocUndo
    <2>2. QED
        BY <2>1, Zenon DEF Steps, CallFails, WakeGone, WakeRetry, WakeDone, SetallEnd,
                           ExitNext, ExitUndo
<1>6. Signal(p) => pc' = pc
    BY DEF Signal
<1>7. QED
    BY <1>1, <1>2, <1>4, <1>5, <1>6, Zenon

\* What sem_exit makes of an undo structure touches the array of that structure only.
THEOREM UndoneOnOwn == Spec => UndoOnOwnArray
<1>1. Inv /\ [Next]_vars => [UndoOnOwn]_vars
    <2>1. SUFFICES ASSUME Inv, [Next]_vars, NEW p \in Procs, pc[p] = "adjust",
                          semundo'[p] # semundo[p], pc'[p] = "exit",
                          NEW k \in Arrays, k # Head(semundo[p]).arr
                   PROVE  arr'[k] = arr[k]
        BY DEF UndoOnOwn
    <2>2. PICK q \in Procs : Calls(q) \/ Steps(q) \/ Signal(q)
        BY <2>1 DEF vars, Next
    <2>3. pc \in [Procs -> PCs] /\ arr \in [Arrays -> ArraysOf(Nat)]
        BY <2>1 DEF Inv, Typed
    <2>4. q = p
        BY <2>1, <2>2, <2>3, OneMoves
    <2>5. ~Calls(p)
        BY <2>1, Zenon DEF Calls, Semget, Semop, Setval, SetallBegin, Rmid, Exit
    <2>6. ~Signal(p)
        BY <2>1 DEF Signal
    <2>7. ExitUndo(p)
        BY <2>1, <2>2, <2>4, <2>5, <2>6, Zenon DEF Steps, AllocUndo, CallFails, WakeGone, WakeRetry,
                                                  WakeDone, SetallEnd, ExitNext
    <2>8. CASE ~StillOwn(p, Head(semundo[p]), semid[p])
        BY <2>7, <2>8 DEF ExitUndo
    <2>9. CASE StillOwn(p, Head(semundo[p]), semid[p])
        <3>1. PICK j, b : j = ArrayOf(semid[p]) /\ Finish(p, j, b, TRUE)
            BY <2>7, <2>9, Zenon DEF ExitUndo
        <3>2. j = Head(semundo[p]).arr
            BY <2>9, <3>1 DEF StillOwn
        <3>3. PICK c : arr' = [arr EXCEPT ![j] = c]
            BY <3>1, Zenon DEF Finish
        <3>4. QED
            BY <2>1, <2>3, <3>2, <3>3
    <2>10. QED
        BY <2>8, <2>9
<1>2. QED
    BY <1>1, Invariance, PTL DEF Spec, UndoOnOwnArray
=============================================================================
