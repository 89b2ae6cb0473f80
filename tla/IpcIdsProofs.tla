---------------------------- MODULE IpcIdsProofs ----------------------------
(***************************************************************************)
(* Proofs about the identifier table of IpcIds, for every number of        *)
(* processes, every IPCMNI, every limit and every seq_max.                 *)
(***************************************************************************)
EXTENDS IpcIds, FiniteSetTheorems, WellFoundedInduction, TLAPS

(***************************************************************************)
(* Arithmetic of identifiers.                                              *)
(***************************************************************************)

\* An identifier splits into its sequence number and its slot.
LEMMA DivMod ==
    ASSUME NEW n \in Nat, NEW m \in Nat \ {0}
    PROVE  /\ n \div m \in Nat
           /\ n % m \in 0 .. m - 1
           /\ n = m * (n \div m) + (n % m)
  BY SMT

\* The slot and the sequence number can be read back from ipc_buildid.
LEMMA DivModUnique ==
    ASSUME NEW m \in Nat \ {0}, NEW q \in Nat, NEW r \in 0 .. m - 1
    PROVE  /\ m * q + r \in Nat
           /\ (m * q + r) \div m = q
           /\ (m * q + r) % m = r
<1> DEFINE n == m * q + r
<1>1. n \in Nat
  BY SMT
<1>2. n \div m \in Nat /\ n % m \in 0 .. m - 1 /\ n = m * (n \div m) + (n % m)
  BY <1>1, DivMod
<1>3. n \div m = q
  <2>1. CASE n \div m < q
    <3>1. m * (n \div m) + m <= m * q
      BY <2>1, <1>2, SMT
    <3> QED BY <3>1, <1>2, SMT
  <2>2. CASE n \div m > q
    <3>1. m * q + m <= m * (n \div m)
      BY <2>2, <1>2, SMT
    <3> QED BY <3>1, <1>2, SMT
  <2> QED BY <2>1, <2>2, <1>2
<1> QED BY <1>1, <1>2, <1>3, SMT

\* The remainder of the next number.
LEMMA SuccMod ==
    ASSUME NEW m \in Nat \ {0}, NEW n \in Nat
    PROVE  (n + 1) % m = IF n % m = m - 1 THEN 0 ELSE (n % m) + 1
<1>1. n \div m \in Nat /\ n % m \in 0 .. m - 1 /\ n = m * (n \div m) + (n % m)
  BY DivMod
<1>2. CASE n % m = m - 1
  <2>1. n + 1 = m * ((n \div m) + 1) + 0
    BY <1>1, <1>2, SMT
  <2>2. (n \div m) + 1 \in Nat /\ 0 \in 0 .. m - 1
    BY <1>1
  <2>3. (m * ((n \div m) + 1) + 0) % m = 0
    BY ONLY <2>2, DivModUnique, m \in Nat \ {0}, Zenon
  <2> QED BY <1>2, <2>1, <2>3, Zenon
<1>3. CASE n % m # m - 1
  <2>1. n + 1 = m * (n \div m) + ((n % m) + 1)
    BY <1>1, <1>3, SMT
  <2>2. (n % m) + 1 \in 0 .. m - 1
    BY <1>1, <1>3
  <2>3. (m * (n \div m) + ((n % m) + 1)) % m = (n % m) + 1
    BY ONLY <1>1, <2>2, DivModUnique, m \in Nat \ {0}, Zenon
  <2> QED BY <1>3, <2>1, <2>3, Zenon
<1> QED BY <1>2, <1>3

\* ids->seq++ with its wrap counts creations modulo seq_max + 1.
LEMMA NextSeqCounts ==
    ASSUME NEW n \in Nat
    PROVE  NextSeq(n % (SeqMax + 1)) = (n + 1) % (SeqMax + 1)
<1> DEFINE m == SeqMax + 1
<1>1. m \in Nat \ {0}
  BY UtilAssumption
<1>2. (n + 1) % m = IF n % m = m - 1 THEN 0 ELSE (n % m) + 1
  BY <1>1, SuccMod
<1>3. n % m \in 0 .. m - 1
  BY <1>1, DivMod
<1>4. ASSUME NEW r \in 0 .. SeqMax
      PROVE  NextSeq(r) = IF r = SeqMax THEN 0 ELSE r + 1
  BY UtilAssumption, SMT DEF NextSeq
<1> QED BY <1>2, <1>3, <1>4, UtilAssumption

\* Two numbers with the same remainder are a multiple of the modulus apart.
LEMMA SameRemainder ==
    ASSUME NEW m \in Nat \ {0}, NEW a \in Nat, NEW b \in Nat,
           a < b, a % m = b % m
    PROVE  b - a >= m
<1>1. /\ a \div m \in Nat /\ a % m \in 0 .. m - 1 /\ a = m * (a \div m) + (a % m)
      /\ b \div m \in Nat /\ b % m \in 0 .. m - 1 /\ b = m * (b \div m) + (b % m)
  BY DivMod
<1>2. a \div m < b \div m
  <2>1. SUFFICES ASSUME b \div m <= a \div m PROVE FALSE
    BY <1>1, SMT
  <2>2. m * (b \div m) <= m * (a \div m)
    BY <2>1, <1>1, SMT
  <2> QED BY <1>1, <2>2, SMT
<1>3. m * (a \div m) + m <= m * (b \div m)
  BY <1>1, <1>2, SMT
<1> QED BY <1>1, <1>3, SMT

\* An identifier built from a slot and a sequence number of the table is one of
\* AllIds, and gives both back.
LEMMA BuildId ==
    ASSUME NEW l \in 0 .. IPCMNI - 1, NEW s \in 0 .. SeqMax
    PROVE  /\ ipc_buildid(l, s) \in AllIds
           /\ Lid(ipc_buildid(l, s)) = l
           /\ ipc_buildid(l, s) \div IPCMNI = s
<1>1. IPCMNI * s + l \in Nat /\ (IPCMNI * s + l) \div IPCMNI = s
      /\ (IPCMNI * s + l) % IPCMNI = l
  BY UtilAssumption, DivModUnique
<1>2. IPCMNI * s <= IPCMNI * SeqMax /\ IPCMNI * (SeqMax + 1) = IPCMNI * SeqMax + IPCMNI
  BY UtilAssumption, SMT
<1> QED BY <1>1, <1>2, UtilAssumption, SMT DEF ipc_buildid, AllIds, Lid, SEQ_MULTIPLIER

\* Every identifier names a slot below IPCMNI and is rebuilt from its parts.
LEMMA SplitId ==
    ASSUME NEW id \in AllIds
    PROVE  /\ Lid(id) \in 0 .. IPCMNI - 1
           /\ ipc_buildid(Lid(id), id \div IPCMNI) = id
<1>1. id \in Nat
  BY UtilAssumption, SMT DEF AllIds
<1> QED BY <1>1, DivMod, UtilAssumption, SMT DEF Lid, ipc_buildid, SEQ_MULTIPLIER

(***************************************************************************)
(* First and last slots.                                                   *)
(***************************************************************************)
LEMMA Least ==
    ASSUME NEW S \in SUBSET Nat, S # {}
    PROVE  \E x \in S : \A y \in S : x <= y
<1>1. PICK x \in S : \A y \in S : ~ (<<y, x>> \in OpToRel(<, Nat))
  BY NatLessThanWellFounded, WFMin, S \subseteq Nat, Zenon
<1>2. \A y \in S : ~ (y < x)
  BY <1>1 DEF OpToRel
<1> QED BY <1>2

LEMMA Greatest ==
    ASSUME NEW n \in Nat, NEW S \in SUBSET (0 .. n), S # {}
    PROVE  \E x \in S : \A y \in S : y <= x
<1> DEFINE T == {k \in Nat : n - k \in S}
<1>1. T \subseteq Nat /\ T # {}
  <2>1. PICK s \in S : TRUE
    OBVIOUS
  <2>2. n - s \in Nat /\ n - (n - s) = s
    BY SMT
  <2> QED BY <2>1, <2>2
<1>2. PICK k \in T : \A j \in T : k <= j
  BY <1>1, Least, Zenon
<1>3. n - k \in S
  BY <1>2
<1>4. \A y \in S : y <= n - k
  <2> TAKE y \in S
  <2>1. n - y \in Nat /\ n - (n - y) = y
    BY SMT
  <2>2. k <= n - y
    BY <1>2, <2>1
  <2> QED BY <2>1, <2>2, <1>2, SMT
<1> QED BY <1>3, <1>4

\* ipc_findkey answers -1 only when no slot up to max_id has the key.
LEMMA FindKeyNone ==
    ASSUME NEW t, NEW k, DOMAIN t.entries \subseteq Nat, ipc_findkey(t, k) = -1
    PROVE  KeySlots(t, k) = {}
<1> SUFFICES ASSUME KeySlots(t, k) # {} PROVE FALSE
  OBVIOUS
<1>1. KeySlots(t, k) \in SUBSET Nat
  BY DEF KeySlots, Live
<1>2. \E i \in KeySlots(t, k) : \A j \in KeySlots(t, k) : i <= j
  BY <1>1, Least
<1>3. ipc_findkey(t, k) \in KeySlots(t, k)
  BY <1>2, Zenon DEF ipc_findkey
<1> QED BY <1>1, <1>3

\* The slot ipc_addid takes is one of the free ones.
LEMMA FirstFreeIsFree ==
    ASSUME NEW t, NEW n \in Nat, FreeSlots(t, n) # {}
    PROVE  FirstFree(t, n) \in FreeSlots(t, n)
<1>1. FreeSlots(t, n) \in SUBSET Nat
  BY DEF FreeSlots
<1>2. \E i \in FreeSlots(t, n) : \A j \in FreeSlots(t, n) : i <= j
  BY <1>1, Least
<1> QED BY <1>2, Zenon DEF FirstFree

\* The search of ipc_rmid finds the last slot in use below the emptied one.
LEMMA LastUsedIsLast ==
    ASSUME NEW t, NEW n \in Nat, DOMAIN t.entries = 0 .. n - 1, NEW l \in Nat
    PROVE  /\ LastUsedBelow(t, l) \in {-1} \cup {i \in Live(t) : i < l}
           /\ \A i \in Live(t) : i < l => i <= LastUsedBelow(t, l)
<1> DEFINE S == {i \in Live(t) : i < l}
           Last(m) == \A i \in Live(t) : i < l => i <= m
<1>1. S \in SUBSET (0 .. n) /\ Live(t) \subseteq Int
  BY DEF Live
<1>2. \E m \in {-1} \cup S : Last(m)
  <2>1. CASE S = {}
    BY <2>1
  <2>2. CASE S # {}
    <3>1. PICK m \in S : \A i \in S : i <= m
      BY <1>1, <2>2, Greatest, Zenon
    <3> QED BY <3>1
  <2> QED BY <2>1, <2>2
<1>3. LastUsedBelow(t, l) = CHOOSE m \in {-1} \cup S : Last(m)
  BY Zenon DEF LastUsedBelow
<1> HIDE DEF S, Last
<1>4. LastUsedBelow(t, l) \in {-1} \cup S /\ Last(LastUsedBelow(t, l))
  BY <1>2, <1>3, Zenon
<1> QED BY <1>4 DEF S, Last

LEMMA TableIntro ==
    ASSUME NEW n \in 0 .. IPCMNI, NEW f \in [0 .. n - 1 -> Perm \cup {NULL}]
    PROVE  f \in Tables
  BY Zenon DEF Tables

LEMMA TableElim ==
    ASSUME NEW f \in Tables, NEW n \in 0 .. IPCMNI, DOMAIN f = 0 .. n - 1
    PROVE  f \in [0 .. n - 1 -> Perm \cup {NULL}]
<1>1. PICK m \in 0 .. IPCMNI : f \in [0 .. m - 1 -> Perm \cup {NULL}]
  BY Zenon DEF Tables
<1>2. f = [i \in 0 .. m - 1 |-> f[i]] /\ \A i \in 0 .. m - 1 : f[i] \in Perm \cup {NULL}
  BY <1>1, Zenon
<1>3. DOMAIN f = 0 .. m - 1
  BY <1>1, Zenon
<1> QED BY <1>1, <1>3, Zenon

(***************************************************************************)
(* The inductive invariant.                                                *)
(***************************************************************************)
InSem(p) == pc[p] \notin {"idle", "look"}
Creating(p) == pc[p] \in {"grow", "swap", "scan", "insert"}
Inserting == \E p \in Procs : pc[p] = "insert"

\* Exactly the process in ids->sem is inside a creation or a removal.
SemInv == \A p \in Procs : InSem(p) <=> sem = p

\* grow_ary's copy is still what the table holds when it replaces it, and the
\* slots ipc_addid may scan exist.
GrowInv ==
    \A p \in Procs :
        /\ pc[p] = "swap" =>
              /\ limit[p] > ids.size
              /\ newtab[p] = [i \in 0 .. limit[p] - 1 |->
                                IF i < ids.size THEN ids.entries[i] ELSE NULL]
        /\ pc[p] = "scan" => limit[p] <= ids.size

\* The counters run ahead of the table between the two halves of ipc_addid.
CountInv ==
    /\ ids.in_use = Cardinality(Live(ids)) + (IF Inserting THEN 1 ELSE 0)
    /\ \A i \in Live(ids) : i <= ids.max_id
    /\ \/ ids.max_id \in Live(ids) \cup {-1}
       \/ \E p \in Procs : pc[p] = "insert" /\ ids.max_id = lid[p]
    /\ \A p \in Procs : pc[p] = "insert" =>
          /\ lid[p] \in DOMAIN ids.entries /\ ids.entries[lid[p]] = NULL
          /\ lid[p] <= ids.max_id

\* The key a creation goes on with is not in the table.
KeyInv ==
    \A p \in Procs : Creating(p) =>
        /\ created < MaxCreate
        /\ key[p] # IPC_PRIVATE =>
              \A i \in Live(ids) : ids.entries[i].key # key[p]

\* Sequence numbers count creations modulo seq_max + 1.
SeqInv ==
    /\ ids.seq = (IF Inserting THEN created + 1 ELSE created) % (SeqMax + 1)
    /\ \A p \in Procs : pc[p] = "insert" => newseq[p] = created % (SeqMax + 1)

\* What the kernel has returned, and what of it is still in the table.
IssueInv ==
    /\ \A i \in Live(ids) :
          [id |-> ipc_buildid(i, ids.entries[i].seq),
           obj |-> ids.entries[i].obj] \in issued
    /\ \A r \in issued :
          /\ r.obj < created
          /\ r.id \div IPCMNI = r.obj % (SeqMax + 1)
          /\ Lid(r.id) < ids.size

\* The slot a process is about to read is the one its identifier names.
LookInv ==
    \A p \in Procs : pc[p] \in {"rm", "look"} =>
        /\ lid[p] = Lid(uid[p])
        /\ lid[p] <= ids.size

IInv == /\ TypeOK /\ SemInv /\ GrowInv /\ CountInv /\ KeyInv /\ KeysUnique
        /\ SeqInv /\ IssueInv /\ LookInv /\ LookupSound

\* What the type invariant says of the array.
LEMMA EntriesType ==
    ASSUME TypeOK
    PROVE  /\ ids.size \in 0 .. IPCMNI /\ IPCMNI \in Nat
           /\ ids.entries \in [0 .. ids.size - 1 -> Perm \cup {NULL}]
           /\ Live(ids) = {i \in 0 .. ids.size - 1 : ids.entries[i] # NULL}
           /\ IsFiniteSet(Live(ids)) /\ Cardinality(Live(ids)) \in Nat
<1>1. ids.size \in 0 .. IPCMNI /\ ids.entries \in Tables
      /\ DOMAIN ids.entries = 0 .. ids.size - 1 /\ IPCMNI \in Nat
  BY UtilAssumption DEF TypeOK
<1>2. ids.entries \in [0 .. ids.size - 1 -> Perm \cup {NULL}]
  BY <1>1, TableElim
<1>3. Live(ids) \in SUBSET (0 .. ids.size - 1)
  BY <1>1 DEF Live
<1>4. IsFiniteSet(Live(ids))
  <2>1. 0 \in Int /\ ids.size - 1 \in Int
    BY <1>1
  <2>2. IsFiniteSet(0 .. ids.size - 1)
    BY <2>1, FS_Interval
  <2> QED BY <1>3, <2>2, FS_Subset
<1> QED BY <1>1, <1>2, <1>4, FS_CardinalityType DEF Live

LEMMA InitIInv == Init => IInv
<1> SUFFICES ASSUME Init PROVE IInv
  OBVIOUS
<1> DEFINE n == Smaller(InitSize, IPCMNI)
<1>1. n \in 0 .. IPCMNI
  BY UtilAssumption, IdsAssumption DEF Smaller
<1>2. /\ ids.size = n /\ ids.in_use = 0 /\ ids.max_id = -1 /\ ids.seq = 0
      /\ ids.entries = [i \in 0 .. n - 1 |-> NULL]
      /\ ids = [size |-> n, in_use |-> 0, max_id |-> -1, seq |-> 0,
                entries |-> [i \in 0 .. n - 1 |-> NULL]]
  BY DEF Init, ipc_init_ids
<1> HIDE DEF n
<1>3. ids.entries \in Tables
  BY <1>1, <1>2, TableIntro
<1>4. [i \in {} |-> NULL] \in Tables
  <2>1. 0 \in 0 .. IPCMNI /\ 0 .. 0 - 1 = {}
    BY UtilAssumption
  <2>2. [i \in {} |-> NULL] \in [0 .. 0 - 1 -> Perm \cup {NULL}]
    BY <2>1
  <2> QED BY <2>1, <2>2, TableIntro
<1>5. 0 \in AllIds
  <2>1. IPCMNI * (SeqMax + 1) >= 1
    BY UtilAssumption, SMT
  <2> QED BY <2>1, UtilAssumption, SMT DEF AllIds
<1>6. TypeOK
  BY <1>1, <1>2, <1>3, <1>4, <1>5, UtilAssumption, IdsAssumption
     DEF Init, TypeOK, PcValues, Creations
<1>7. Live(ids) = {} /\ Cardinality(Live(ids)) = 0
  <2>1. Live(ids) = {}
    BY <1>2 DEF Live
  <2> QED BY <2>1, FS_EmptySet
<1>8. SemInv /\ GrowInv /\ KeyInv /\ LookInv /\ ~Inserting
  <2>1. \A p \in Procs : pc[p] = "idle"
    BY DEF Init
  <2>2. sem = NULL
    BY DEF Init
  <2> QED
  BY <2>1, <2>2, IdsAssumption DEF SemInv, InSem, GrowInv, KeyInv, Creating, LookInv, Inserting
<1>9. CountInv /\ KeysUnique
  <2>1. \A p \in Procs : pc[p] # "insert"
    BY <1>8 DEF Inserting
  <2>2. ids.in_use = Cardinality(Live(ids)) + (IF Inserting THEN 1 ELSE 0)
    BY <1>2, <1>7, <1>8
  <2> QED BY <1>2, <1>7, <2>1, <2>2 DEF CountInv, KeysUnique
<1>10. SeqInv
  <2>1. 0 % (SeqMax + 1) = 0
    <3>1. SeqMax + 1 \in Nat \ {0} /\ 0 \in 0 .. (SeqMax + 1) - 1
      BY UtilAssumption
    <3>2. ((SeqMax + 1) * 0 + 0) % (SeqMax + 1) = 0
      BY ONLY <3>1, DivModUnique, 0 \in Nat
    <3> QED BY <3>1, <3>2
  <2> QED BY <2>1, <1>2, <1>8 DEF Init, SeqInv, Inserting
<1>11. IssueInv /\ LookupSound
  BY <1>7 DEF Init, IssueInv, LookupSound
<1> QED BY <1>6, <1>8, <1>9, <1>10, <1>11 DEF IInv

(***************************************************************************)
(* One lemma per action: it keeps the inductive invariant.                 *)
(***************************************************************************)
\* A process that reaches a section of ids->sem finds no other one in it.
LEMMA OneInSem ==
    ASSUME IInv, NEW p \in Procs, InSem(p), NEW q \in Procs, InSem(q)
    PROVE  p = q
  BY DEF IInv, SemInv

LEMMA GetDownKeeps ==
    ASSUME IInv, NEW p \in Procs, NEW k \in Keys, GetDown(p, k)
    PROVE  IInv'
<1> USE DEF IInv
<1>1. /\ pc' = [pc EXCEPT ![p] = "find"] /\ key' = [key EXCEPT ![p] = k] /\ sem' = p
      /\ sem = NULL /\ pc[p] = "idle"
      /\ UNCHANGED <<ids, newtab, limit, lid, newseq, uid, found, created, issued>>
  BY DEF GetDown, Goto
<1>2. TypeOK'
  BY <1>1 DEF TypeOK, PcValues
<1>3. /\ pc \in [Procs -> PcValues] /\ key \in [Procs -> Keys]
  BY DEF TypeOK
<1>4. /\ \A q \in Procs : pc'[q] = IF q = p THEN "find" ELSE pc[q]
      /\ \A q \in Procs : q # p => key'[q] = key[q]
  BY <1>1, <1>3
<1>5. Inserting' = Inserting /\ Live(ids)' = Live(ids)
  BY <1>1, <1>4 DEF Inserting, Live
<1>6. SemInv'
  BY <1>1, <1>4, IdsAssumption DEF SemInv, InSem
<1>7. GrowInv'
  BY <1>1, <1>4 DEF GrowInv
<1>8. CountInv'
  BY <1>1, <1>4, <1>5 DEF CountInv
<1>9. KeyInv' /\ KeysUnique'
  BY <1>1, <1>4, <1>5 DEF KeyInv, Creating, KeysUnique
<1>10. SeqInv' /\ IssueInv'
  BY <1>1, <1>4, <1>5 DEF SeqInv, IssueInv
<1>11. LookInv' /\ LookupSound'
  BY <1>1, <1>4 DEF LookInv, LookupSound
<1> QED BY <1>2, <1>6, <1>7, <1>8, <1>9, <1>10, <1>11

LEMMA GetFindKeeps ==
    ASSUME IInv, NEW p \in Procs, NEW c \in BOOLEAN, GetFind(p, c)
    PROVE  IInv'
<1> USE DEF IInv
<1> DEFINE free == key[p] = IPC_PRIVATE \/ ipc_findkey(ids, key[p]) = -1
           dest == IF free /\ c /\ created < MaxCreate THEN "grow" ELSE "up"
<1>1. /\ pc' = [pc EXCEPT ![p] = dest] /\ pc[p] = "find"
      /\ UNCHANGED <<ids, sem, key, newtab, limit, lid, newseq, uid, found, created, issued>>
  BY DEF GetFind, Goto
<1>2. /\ dest \in {"grow", "up"}
      /\ dest = "grow" => free /\ created < MaxCreate
  OBVIOUS
<1>3. free /\ key[p] # IPC_PRIVATE => \A i \in Live(ids) : ids.entries[i].key # key[p]
  <2> SUFFICES ASSUME ipc_findkey(ids, key[p]) = -1
               PROVE  \A i \in Live(ids) : ids.entries[i].key # key[p]
    OBVIOUS
  <2>1. DOMAIN ids.entries \subseteq Nat
    BY EntriesType
  <2>2. KeySlots(ids, key[p]) = {}
    BY <2>1, FindKeyNone
  <2> QED BY <2>2 DEF KeySlots, CountInv
<1> HIDE DEF free, dest
<1>4. TypeOK'
  BY <1>1, <1>2 DEF TypeOK, PcValues
<1>5. \A q \in Procs : pc'[q] = IF q = p THEN dest ELSE pc[q]
  BY <1>1 DEF TypeOK
<1>6. Inserting' = Inserting /\ Live(ids)' = Live(ids)
  BY <1>1, <1>2, <1>5 DEF Inserting, Live
<1>7. SemInv' /\ GrowInv'
  BY <1>1, <1>2, <1>5 DEF SemInv, InSem, GrowInv
<1>8. CountInv'
  BY <1>1, <1>2, <1>5, <1>6 DEF CountInv
<1>9. KeyInv' /\ KeysUnique'
  BY <1>1, <1>2, <1>3, <1>5, <1>6 DEF KeyInv, Creating, KeysUnique
<1>10. SeqInv' /\ IssueInv'
  BY <1>1, <1>2, <1>5, <1>6 DEF SeqInv, IssueInv
<1>11. LookInv' /\ LookupSound'
  BY <1>1, <1>2, <1>5 DEF LookInv, LookupSound
<1> QED BY <1>4, <1>7, <1>8, <1>9, <1>10, <1>11

LEMMA GrowAllocKeeps ==
    ASSUME IInv, NEW p \in Procs, NEW n \in 0 .. IPCMNI, GrowAlloc(p, n)
    PROVE  IInv'
<1> USE DEF IInv
<1> DEFINE copy == [i \in 0 .. n - 1 |-> IF i < ids.size THEN ids.entries[i] ELSE NULL]
<1>1. /\ pc[p] = "grow"
      /\ UNCHANGED <<ids, sem, key, lid, newseq, uid, found, created, issued>>
  BY DEF GrowAlloc
<1>2. \E d \in {"swap", "scan"}, m \in 0 .. IPCMNI :
        /\ pc' = [pc EXCEPT ![p] = d]
        /\ limit' = [limit EXCEPT ![p] = m]
        /\ IF d = "swap" THEN m = n /\ n > ids.size /\ newtab' = [newtab EXCEPT ![p] = copy]
                         ELSE m <= ids.size /\ newtab' = newtab
  BY EntriesType DEF GrowAlloc, Goto
<1>3. PICK d \in {"swap", "scan"}, m \in 0 .. IPCMNI :
        /\ pc' = [pc EXCEPT ![p] = d]
        /\ limit' = [limit EXCEPT ![p] = m]
        /\ IF d = "swap" THEN m = n /\ n > ids.size /\ newtab' = [newtab EXCEPT ![p] = copy]
                         ELSE m <= ids.size /\ newtab' = newtab
  BY <1>2, Zenon
<1>4. copy \in Tables
  <2>1. copy \in [0 .. n - 1 -> Perm \cup {NULL}]
    BY EntriesType
  <2> QED BY <2>1, TableIntro
<1>5. TypeOK'
  <2>1. newtab' \in [Procs -> Tables]
    BY <1>3, <1>4 DEF TypeOK
  <2> QED BY <1>1, <1>3, <2>1 DEF TypeOK, PcValues
<1>6. /\ \A q \in Procs : pc'[q] = IF q = p THEN d ELSE pc[q]
      /\ \A q \in Procs : limit'[q] = IF q = p THEN m ELSE limit[q]
      /\ \A q \in Procs : q # p => newtab'[q] = newtab[q]
      /\ d = "swap" => newtab'[p] = copy
  BY <1>3 DEF TypeOK
<1>7. Inserting' = Inserting /\ Live(ids)' = Live(ids)
  BY <1>1, <1>6 DEF Inserting, Live
<1>8. SemInv'
  BY <1>1, <1>6 DEF SemInv, InSem
<1>9. GrowInv'
  <2>1. d = "swap" => m = n /\ n > ids.size
    BY <1>3
  <2>2. d = "scan" => m <= ids.size
    BY <1>3
  <2> QED BY <1>1, <1>6, <2>1, <2>2 DEF GrowInv
<1>10. CountInv'
  BY <1>1, <1>6, <1>7 DEF CountInv
<1>11. KeyInv' /\ KeysUnique'
  BY <1>1, <1>6, <1>7 DEF KeyInv, Creating, KeysUnique
<1>12. SeqInv' /\ IssueInv'
  BY <1>1, <1>6, <1>7 DEF SeqInv, IssueInv
<1>13. LookInv' /\ LookupSound'
  BY <1>1, <1>6 DEF LookInv, LookupSound
<1> QED BY <1>5, <1>8, <1>9, <1>10, <1>11, <1>12, <1>13

LEMMA GrowSwapKeeps ==
    ASSUME IInv, NEW p \in Procs, GrowSwap(p)
    PROVE  /\ IInv'
           /\ Live(ids)' = Live(ids)
           /\ \A i \in Live(ids) : ids'.entries[i] = ids.entries[i]
<1> USE DEF IInv
<1> DEFINE n == limit[p]
           copy == [i \in 0 .. n - 1 |-> IF i < ids.size THEN ids.entries[i] ELSE NULL]
<1>1. /\ pc[p] = "swap" /\ pc' = [pc EXCEPT ![p] = "scan"]
      /\ newtab' = [newtab EXCEPT ![p] = [i \in {} |-> NULL]]
      /\ UNCHANGED <<sem, key, limit, lid, newseq, uid, found, created, issued>>
  BY DEF GrowSwap, Goto
<1>2. n > ids.size /\ n \in 0 .. IPCMNI /\ newtab[p] = copy
  BY <1>1 DEF GrowInv, TypeOK
<1>3. ids' = [ids EXCEPT !.entries = copy, !.size = n]
  BY <1>2 DEF GrowSwap
<1>4. /\ ids'.entries = copy /\ ids'.size = n /\ ids'.in_use = ids.in_use
      /\ ids'.max_id = ids.max_id /\ ids'.seq = ids.seq
  BY <1>3 DEF TypeOK
<1>5. /\ Live(ids)' = Live(ids)
      /\ \A i \in Live(ids) : ids'.entries[i] = ids.entries[i]
  BY <1>2, <1>4, EntriesType DEF Live
<1>6. TypeOK'
  <2>1. copy \in Tables
    <3>1. copy \in [0 .. n - 1 -> Perm \cup {NULL}]
      BY EntriesType
    <3> QED BY <1>2, <3>1, TableIntro
  <2>2. ids' \in [size : 0 .. IPCMNI, in_use : Int, max_id : Int,
                  seq : 0 .. SeqMax, entries : Tables]
    BY <1>2, <1>3, <2>1 DEF TypeOK
  <2>3. [i \in {} |-> NULL] \in Tables
    <3>1. 0 \in 0 .. IPCMNI /\ 0 .. 0 - 1 = {}
      BY UtilAssumption
    <3>2. [i \in {} |-> NULL] \in [0 .. 0 - 1 -> Perm \cup {NULL}]
      BY <3>1
    <3> QED BY <3>1, <3>2, TableIntro
  <2> QED BY <1>1, <1>4, <2>2, <2>3 DEF TypeOK, PcValues
<1> HIDE DEF n, copy
<1>7. \A q \in Procs : pc'[q] = IF q = p THEN "scan" ELSE pc[q]
  BY <1>1 DEF TypeOK
<1>8. Inserting' = Inserting
  BY <1>1, <1>7 DEF Inserting
<1>9. SemInv'
  BY <1>1, <1>7 DEF SemInv, InSem
<1>10. \A q \in Procs : q # p => ~InSem(q)
  BY <1>1, OneInSem DEF InSem
<1>11. GrowInv'
  BY <1>1, <1>2, <1>4, <1>7, <1>10 DEF GrowInv, InSem, n
<1>12. CountInv'
  BY <1>1, <1>4, <1>5, <1>7, <1>8, <1>10 DEF CountInv, InSem
<1>13. KeyInv' /\ KeysUnique'
  BY <1>1, <1>5, <1>7 DEF KeyInv, Creating, KeysUnique
<1>14. SeqInv'
  BY <1>1, <1>4, <1>7, <1>8 DEF SeqInv
<1>15. ids.size <= ids'.size /\ ids.size \in Int /\ ids'.size \in Int
  BY <1>2, <1>4 DEF TypeOK
<1>16. IssueInv'
  <2>1. \A r \in issued : Lid(r.id) \in Int
    BY SplitId DEF TypeOK
  <2> QED BY <1>1, <1>5, <1>15, <2>1 DEF IssueInv
<1>17. LookInv' /\ LookupSound'
  <2>1. \A q \in Procs : lid[q] \in Int
    BY DEF TypeOK
  <2> QED BY <1>1, <1>7, <1>15, <2>1 DEF LookInv, LookupSound
<1> QED BY <1>5, <1>6, <1>9, <1>11, <1>12, <1>13, <1>14, <1>16, <1>17

LEMMA AddScanKeeps ==
    ASSUME IInv, NEW p \in Procs, AddScan(p)
    PROVE  IInv' /\ UNCHANGED ids.entries
<1> USE DEF IInv
<1>1. /\ pc[p] = "scan"
      /\ UNCHANGED <<sem, key, newtab, limit, uid, found, created, issued>>
  BY DEF AddScan
<1>2. \A q \in Procs : q # p => ~InSem(q)
  BY <1>1, OneInSem DEF InSem
<1>3. ~Inserting
  BY <1>1, <1>2 DEF Inserting, InSem
<1>4. CASE FreeSlots(ids, limit[p]) = {}
  <2>1. pc' = [pc EXCEPT ![p] = "up"] /\ UNCHANGED <<ids, lid, newseq>>
    BY <1>4 DEF AddScan, Goto
  <2>2. TypeOK'
    BY <1>1, <2>1 DEF TypeOK, PcValues
  <2>3. \A q \in Procs : pc'[q] = IF q = p THEN "up" ELSE pc[q]
    BY <2>1 DEF TypeOK
  <2>4. Inserting' = Inserting /\ Live(ids)' = Live(ids)
    BY <1>1, <2>1, <2>3 DEF Inserting, Live
  <2>5. SemInv' /\ GrowInv'
    BY <1>1, <2>1, <2>3 DEF SemInv, InSem, GrowInv
  <2>6. CountInv'
    BY <1>1, <2>1, <2>3, <2>4 DEF CountInv
  <2>7. KeyInv' /\ KeysUnique'
    BY <1>1, <2>1, <2>3, <2>4 DEF KeyInv, Creating, KeysUnique
  <2>8. SeqInv' /\ IssueInv'
    BY <1>1, <2>1, <2>3, <2>4 DEF SeqInv, IssueInv
  <2>9. LookInv' /\ LookupSound'
    BY <1>1, <2>1, <2>3 DEF LookInv, LookupSound
  <2> QED BY <2>1, <2>2, <2>5, <2>6, <2>7, <2>8, <2>9
<1>5. CASE FreeSlots(ids, limit[p]) # {}
  <2> DEFINE l == FirstFree(ids, limit[p])
  <2>1. /\ pc' = [pc EXCEPT ![p] = "insert"]
        /\ lid' = [lid EXCEPT ![p] = l]
        /\ newseq' = [newseq EXCEPT ![p] = ids.seq]
        /\ ids' = ClaimSlot(ids, l)
    BY <1>5 DEF AddScan, Goto
  <2>2. l \in 0 .. ids.size - 1 /\ ids.entries[l] = NULL /\ l \in 0 .. IPCMNI - 1
    <3>1. limit[p] \in Nat
      BY DEF TypeOK
    <3>2. l \in FreeSlots(ids, limit[p])
      BY <1>5, <3>1, FirstFreeIsFree
    <3> QED BY <3>2, EntriesType DEF FreeSlots
  <2> HIDE DEF l
  <2>3. NextSeq(ids.seq) \in 0 .. SeqMax
    BY UtilAssumption DEF TypeOK, NextSeq
  <2>4. /\ ids'.entries = ids.entries /\ ids'.size = ids.size
        /\ ids'.in_use = ids.in_use + 1
        /\ ids'.max_id = IF l > ids.max_id THEN l ELSE ids.max_id
        /\ ids'.seq = NextSeq(ids.seq)
        /\ ids' \in [size : 0 .. IPCMNI, in_use : Int, max_id : Int,
                     seq : 0 .. SeqMax, entries : Tables]
    <3> DEFINE top == IF l > ids.max_id THEN l ELSE ids.max_id
    <3>1. top \in Int
      BY <2>2 DEF TypeOK
    <3>2. ids' = [ids EXCEPT !.in_use = ids.in_use + 1, !.max_id = top,
                             !.seq = NextSeq(ids.seq)]
      BY <2>1 DEF ClaimSlot
    <3> HIDE DEF top
    <3>3. /\ ids'.entries = ids.entries /\ ids'.size = ids.size
          /\ ids'.in_use = ids.in_use + 1 /\ ids'.max_id = top
          /\ ids'.seq = NextSeq(ids.seq)
      BY <3>2 DEF TypeOK
    <3>4. ids' \in [size : 0 .. IPCMNI, in_use : Int, max_id : Int,
                    seq : 0 .. SeqMax, entries : Tables]
      <4>1. /\ ids \in [size : 0 .. IPCMNI, in_use : Int, max_id : Int,
                         seq : 0 .. SeqMax, entries : Tables]
            /\ ids.in_use + 1 \in Int
        BY DEF TypeOK
      <4> QED BY <3>1, <3>2, <2>3, <4>1
    <3> QED BY <3>3, <3>4 DEF top
  <2>5. TypeOK'
    <3>1. /\ lid' \in [Procs -> 0 .. IPCMNI - 1]
          /\ newseq' \in [Procs -> 0 .. SeqMax]
          /\ pc' \in [Procs -> PcValues]
      BY <2>1, <2>2 DEF TypeOK, PcValues
    <3>2. DOMAIN ids'.entries = 0 .. ids'.size - 1
      BY <2>4 DEF TypeOK
    <3> QED BY <1>1, <2>4, <3>1, <3>2 DEF TypeOK
  <2>6. /\ \A q \in Procs : pc'[q] = IF q = p THEN "insert" ELSE pc[q]
        /\ \A q \in Procs : lid'[q] = IF q = p THEN l ELSE lid[q]
        /\ newseq'[p] = ids.seq
    BY <2>1 DEF TypeOK
  <2>7. Inserting' /\ Live(ids)' = Live(ids)
    BY <2>4, <2>6 DEF Inserting, Live
  <2>8. SemInv' /\ GrowInv'
    BY <1>1, <1>2, <2>6 DEF SemInv, InSem, GrowInv
  <2>9. CountInv'
    <3>1. ids'.in_use = Cardinality(Live(ids))' + (IF Inserting' THEN 1 ELSE 0)
      <4>1. ids.in_use = Cardinality(Live(ids)) + (IF Inserting THEN 1 ELSE 0)
        BY DEF CountInv
      <4> QED BY <1>3, <2>4, <2>7, <4>1, EntriesType
    <3>2. ids.max_id \in Int /\ \A i \in Live(ids) : i \in Int
      BY EntriesType DEF TypeOK
    <3>3. \A i \in Live(ids)' : i <= ids'.max_id
      BY <2>2, <2>4, <2>7, <3>2 DEF CountInv
    <3>4. \/ ids'.max_id \in Live(ids)' \cup {-1}
          \/ \E q \in Procs : pc'[q] = "insert" /\ ids'.max_id = lid'[q]
      BY <1>3, <2>4, <2>6, <2>7 DEF CountInv, Inserting
    <3>5. \A q \in Procs : pc'[q] = "insert" =>
             /\ lid'[q] \in DOMAIN ids'.entries /\ ids'.entries[lid'[q]] = NULL
             /\ lid'[q] <= ids'.max_id
      BY <1>2, <2>2, <2>4, <2>6, <3>2, EntriesType DEF InSem
    <3> QED BY <3>1, <3>3, <3>4, <3>5 DEF CountInv
  <2>10. KeyInv' /\ KeysUnique'
    BY <1>1, <2>4, <2>6, <2>7 DEF KeyInv, Creating, KeysUnique
  <2>11. SeqInv'
    <3>1. ids.seq = created % (SeqMax + 1) /\ created \in Nat
      BY <1>3 DEF SeqInv, TypeOK
    <3>2. ids'.seq = (created + 1) % (SeqMax + 1)
      BY <2>4, <3>1, NextSeqCounts
    <3>3. \A q \in Procs : pc'[q] = "insert" => q = p
      BY <1>2, <2>6 DEF InSem
    <3> QED BY <1>1, <2>6, <2>7, <3>1, <3>2, <3>3 DEF SeqInv
  <2>12. IssueInv'
    BY <1>1, <2>4, <2>7 DEF IssueInv
  <2>13. LookInv' /\ LookupSound'
    BY <1>1, <2>4, <2>6 DEF LookInv, LookupSound
  <2> QED BY <2>4, <2>5, <2>8, <2>9, <2>10, <2>11, <2>12, <2>13
<1> QED BY <1>4, <1>5

LEMMA UpKeeps ==
    ASSUME IInv, NEW p \in Procs, Up(p)
    PROVE  IInv'
<1> USE DEF IInv
<1>1. /\ pc[p] = "up" /\ pc' = [pc EXCEPT ![p] = "idle"] /\ sem' = NULL
      /\ key' = [key EXCEPT ![p] = IPC_PRIVATE]
      /\ limit' = [limit EXCEPT ![p] = 0]
      /\ newseq' = [newseq EXCEPT ![p] = 0]
      /\ lid' = [lid EXCEPT ![p] = 0]
      /\ UNCHANGED <<ids, newtab, uid, found, created, issued>>
  BY DEF Up, Goto
<1>2. TypeOK'
  BY <1>1, UtilAssumption, IdsAssumption DEF TypeOK, PcValues
<1>3. \A q \in Procs : /\ pc'[q] = IF q = p THEN "idle" ELSE pc[q]
                       /\ q # p => /\ key'[q] = key[q] /\ limit'[q] = limit[q]
                                   /\ newseq'[q] = newseq[q] /\ lid'[q] = lid[q]
  BY <1>1 DEF TypeOK
<1>4. Inserting' = Inserting /\ Live(ids)' = Live(ids)
  BY <1>1, <1>3 DEF Inserting, Live
<1>5. SemInv'
  <2>1. \A q \in Procs : q # p => ~InSem(q)
    BY <1>1, OneInSem DEF InSem
  <2> QED BY <1>1, <1>3, <2>1, IdsAssumption DEF SemInv, InSem
<1>6. GrowInv'
  BY <1>1, <1>3 DEF GrowInv
<1>7. CountInv'
  BY <1>1, <1>3, <1>4 DEF CountInv
<1>8. KeyInv' /\ KeysUnique'
  BY <1>1, <1>3, <1>4 DEF KeyInv, Creating, KeysUnique
<1>9. SeqInv' /\ IssueInv'
  BY <1>1, <1>3, <1>4 DEF SeqInv, IssueInv
<1>10. LookInv' /\ LookupSound'
  BY <1>1, <1>3 DEF LookInv, LookupSound
<1> QED BY <1>2, <1>5, <1>6, <1>7, <1>8, <1>9, <1>10

LEMMA AddInsertKeeps ==
    ASSUME IInv, NEW p \in Procs, AddInsert(p)
    PROVE  /\ IInv'
           /\ lid[p] \in 0 .. ids.size - 1 /\ lid[p] \notin Live(ids)
           /\ Live(ids)' = Live(ids) \cup {lid[p]}
           /\ ids'.entries = [ids.entries EXCEPT ![lid[p]] =
                [key |-> key[p], seq |-> newseq[p], obj |-> created]]
<1> USE DEF IInv
<1> DEFINE l == lid[p]
           perm == [key |-> key[p], seq |-> newseq[p], obj |-> created]
           issue == [id |-> ipc_buildid(l, newseq[p]), obj |-> created]
<1>1. /\ pc[p] = "insert" /\ pc' = [pc EXCEPT ![p] = "up"]
      /\ ids' = [ids EXCEPT !.entries[l] = perm]
      /\ issued' = issued \cup {issue}
      /\ created' = created + 1
      /\ UNCHANGED <<sem, key, newtab, limit, lid, newseq, uid, found>>
  BY DEF AddInsert, Goto, PublishSlot
<1>2. /\ l \in 0 .. ids.size - 1 /\ ids.entries[l] = NULL /\ l <= ids.max_id
      /\ l \in 0 .. IPCMNI - 1
  BY <1>1, EntriesType DEF CountInv, TypeOK
<1>3. /\ created < MaxCreate /\ created \in Nat
      /\ key[p] # IPC_PRIVATE => \A i \in Live(ids) : ids.entries[i].key # key[p]
  BY <1>1 DEF KeyInv, Creating, TypeOK
<1>4. perm \in Perm /\ perm # NULL
  BY <1>3, IdsAssumption DEF Perm, Creations, TypeOK
<1>5. newseq[p] = created % (SeqMax + 1) /\ newseq[p] \in 0 .. SeqMax
  BY <1>1 DEF SeqInv, TypeOK
<1>6. /\ ids'.entries = [ids.entries EXCEPT ![l] = perm] /\ ids'.size = ids.size
      /\ ids'.in_use = ids.in_use /\ ids'.max_id = ids.max_id /\ ids'.seq = ids.seq
  BY <1>1 DEF TypeOK
<1> HIDE DEF l, perm, issue
<1>7. ids'.entries \in [0 .. ids.size - 1 -> Perm \cup {NULL}]
  BY <1>4, <1>6, EntriesType
<1>8. \A i \in 0 .. ids.size - 1 : ids'.entries[i] = IF i = l THEN perm ELSE ids.entries[i]
  BY <1>6, EntriesType
<1>9. Live(ids)' = Live(ids) \cup {l} /\ l \notin Live(ids)
  BY <1>2, <1>4, <1>7, <1>8, EntriesType DEF Live
<1>10. TypeOK'
  <2>1. ids'.entries \in Tables
    BY <1>7, EntriesType, TableIntro
  <2>2. ids' \in [size : 0 .. IPCMNI, in_use : Int, max_id : Int,
                  seq : 0 .. SeqMax, entries : Tables]
    BY <1>1, <1>6, <2>1 DEF TypeOK
  <2>3. issue \in [id : AllIds, obj : Creations]
    BY <1>2, <1>3, <1>5, BuildId, IdsAssumption DEF issue, Creations
  <2>4. created' \in 0 .. MaxCreate
    BY <1>1, <1>3, IdsAssumption
  <2>5. DOMAIN ids'.entries = 0 .. ids'.size - 1
    BY <1>6, <1>7
  <2> QED BY <1>1, <2>2, <2>3, <2>4, <2>5 DEF TypeOK, PcValues
<1>11. \A q \in Procs : pc'[q] = IF q = p THEN "up" ELSE pc[q]
  BY <1>1 DEF TypeOK
<1>12. \A q \in Procs : q # p => ~InSem(q)
  BY <1>1, OneInSem DEF InSem
<1>13. Inserting /\ ~Inserting'
  BY <1>1, <1>11, <1>12 DEF Inserting, InSem
<1>14. SemInv' /\ GrowInv'
  BY <1>1, <1>11, <1>12 DEF SemInv, InSem, GrowInv
<1>15. CountInv'
  <2>1. Cardinality(Live(ids)') = Cardinality(Live(ids)) + 1
    BY <1>9, EntriesType, FS_AddElement
  <2>2. ids'.in_use = Cardinality(Live(ids))' + (IF Inserting' THEN 1 ELSE 0)
    <3>1. ids.in_use = Cardinality(Live(ids)) + (IF Inserting THEN 1 ELSE 0)
      BY DEF CountInv
    <3> QED BY <1>6, <1>13, <2>1, <3>1, EntriesType
  <2>3. \A i \in Live(ids)' : i <= ids'.max_id
    BY <1>2, <1>6, <1>9 DEF CountInv
  <2>4. ids'.max_id \in Live(ids)' \cup {-1}
    BY <1>6, <1>9, <1>12 DEF CountInv, InSem, l
  <2> QED BY <1>13, <2>2, <2>3, <2>4 DEF CountInv, Inserting
<1>16. KeyInv'
  BY <1>11, <1>12 DEF KeyInv, Creating, InSem
<1>17. KeysUnique'
  <2>1. perm.key = key[p]
    BY DEF perm
  <2>2. \A i \in Live(ids) : i # l /\ ids'.entries[i] = ids.entries[i]
    BY <1>8, <1>9, EntriesType
  <2>3. ids'.entries[l] = perm
    BY <1>2, <1>8
  <2> QED BY <1>3, <1>9, <2>1, <2>2, <2>3 DEF KeysUnique
<1>18. SeqInv'
  <2>1. ids.seq = (created + 1) % (SeqMax + 1)
    BY <1>13 DEF SeqInv
  <2> QED BY <1>1, <1>6, <1>13, <2>1 DEF SeqInv, Inserting
<1>19. IssueInv'
  <2>1. \A i \in Live(ids) : i # l /\ ids'.entries[i] = ids.entries[i]
    BY <1>8, <1>9, EntriesType
  <2>2. ids'.entries[l] = perm /\ perm.seq = newseq[p] /\ perm.obj = created
    BY <1>2, <1>8 DEF perm
  <2>3. \A i \in Live(ids)' :
          [id |-> ipc_buildid(i, ids'.entries[i].seq),
           obj |-> ids'.entries[i].obj] \in issued'
    BY <1>1, <1>9, <2>1, <2>2 DEF IssueInv, issue
  <2>4. /\ issue.obj < created' /\ issue.id \div IPCMNI = issue.obj % (SeqMax + 1)
        /\ Lid(issue.id) < ids.size
    <3>1. issue.id = ipc_buildid(l, newseq[p]) /\ issue.obj = created
      BY DEF issue
    <3>2. Lid(issue.id) = l /\ issue.id \div IPCMNI = newseq[p]
      BY <1>2, <1>5, <3>1, BuildId
    <3> QED BY <1>1, <1>2, <1>3, <1>5, <3>1, <3>2, EntriesType
  <2>5. \A r \in issued : r.obj \in Nat
    BY IdsAssumption DEF TypeOK, Creations
  <2>6. \A r \in issued' : /\ r.obj < created'
                           /\ r.id \div IPCMNI = r.obj % (SeqMax + 1)
                           /\ Lid(r.id) < ids'.size
    BY <1>1, <1>3, <1>6, <2>4, <2>5 DEF IssueInv
  <2> QED BY <2>3, <2>6 DEF IssueInv
<1>20. LookInv' /\ LookupSound'
  BY <1>1, <1>6, <1>11 DEF LookInv, LookupSound
<1> QED BY <1>2, <1>6, <1>9, <1>10, <1>14, <1>15, <1>16, <1>17, <1>18, <1>19, <1>20
        DEF l, perm

LEMMA RmDownKeeps ==
    ASSUME IInv, NEW p \in Procs, NEW id \in AllIds, RmDown(p, id)
    PROVE  IInv'
<1> USE DEF IInv
<1> DEFINE dest == IF Lid(id) > ids.size THEN "up" ELSE "rm"
<1>1. /\ pc[p] = "idle" /\ pc' = [pc EXCEPT ![p] = dest]
      /\ sem = NULL /\ sem' = p
      /\ uid' = [uid EXCEPT ![p] = id]
      /\ lid' = [lid EXCEPT ![p] = Lid(id)]
      /\ found' = [found EXCEPT ![p] = NULL]
      /\ UNCHANGED <<ids, key, newtab, limit, newseq, created, issued>>
  BY DEF RmDown, Goto
<1>2. dest \in {"up", "rm"}
  OBVIOUS
<1>3. /\ Lid(id) \in 0 .. IPCMNI - 1 /\ ids.size \in Int
      /\ dest \in {"rm", "look"} => Lid(id) <= ids.size
  BY SplitId, EntriesType
<1> HIDE DEF dest
<1>4. TypeOK'
  BY <1>1, <1>2, <1>3 DEF TypeOK, PcValues
<1>5. \A q \in Procs : /\ pc'[q] = IF q = p THEN dest ELSE pc[q]
                       /\ uid'[q] = IF q = p THEN id ELSE uid[q]
                       /\ lid'[q] = IF q = p THEN Lid(id) ELSE lid[q]
                       /\ found'[q] = IF q = p THEN NULL ELSE found[q]
  BY <1>1 DEF TypeOK
<1>6. Inserting' = Inserting /\ Live(ids)' = Live(ids)
  BY <1>1, <1>2, <1>5 DEF Inserting, Live
<1>7. SemInv'
  BY <1>1, <1>2, <1>5, IdsAssumption DEF SemInv, InSem
<1>8. GrowInv'
  BY <1>1, <1>2, <1>5 DEF GrowInv
<1>9. CountInv'
  BY <1>1, <1>2, <1>5, <1>6 DEF CountInv
<1>10. KeyInv' /\ KeysUnique'
  BY <1>1, <1>2, <1>5, <1>6 DEF KeyInv, Creating, KeysUnique
<1>11. SeqInv' /\ IssueInv'
  BY <1>1, <1>2, <1>5, <1>6 DEF SeqInv, IssueInv
<1>12. LookInv' /\ LookupSound'
  BY <1>1, <1>2, <1>3, <1>5 DEF LookInv, LookupSound
<1> QED BY <1>4, <1>7, <1>8, <1>9, <1>10, <1>11, <1>12

LEMMA LockTestKeeps ==
    ASSUME IInv, NEW p \in Procs, NEW id \in AllIds, LockTest(p, id)
    PROVE  IInv'
<1> USE DEF IInv
<1> DEFINE dest == IF Lid(id) > ids.size THEN "idle" ELSE "look"
<1>1. /\ pc[p] = "idle" /\ pc' = [pc EXCEPT ![p] = dest]
      /\ uid' = [uid EXCEPT ![p] = id]
      /\ lid' = [lid EXCEPT ![p] = Lid(id)]
      /\ found' = [found EXCEPT ![p] = NULL]
      /\ UNCHANGED <<ids, sem, key, newtab, limit, newseq, created, issued>>
  BY DEF LockTest, Goto
<1>2. dest \in {"idle", "look"}
  OBVIOUS
<1>3. /\ Lid(id) \in 0 .. IPCMNI - 1 /\ ids.size \in Int
      /\ dest \in {"rm", "look"} => Lid(id) <= ids.size
  BY SplitId, EntriesType
<1> HIDE DEF dest
<1>4. TypeOK'
  BY <1>1, <1>2, <1>3 DEF TypeOK, PcValues
<1>5. \A q \in Procs : /\ pc'[q] = IF q = p THEN dest ELSE pc[q]
                       /\ uid'[q] = IF q = p THEN id ELSE uid[q]
                       /\ lid'[q] = IF q = p THEN Lid(id) ELSE lid[q]
                       /\ found'[q] = IF q = p THEN NULL ELSE found[q]
  BY <1>1 DEF TypeOK
<1>6. Inserting' = Inserting /\ Live(ids)' = Live(ids)
  BY <1>1, <1>2, <1>5 DEF Inserting, Live
<1>7. SemInv' /\ GrowInv'
  BY <1>1, <1>2, <1>5 DEF SemInv, InSem, GrowInv
<1>8. CountInv'
  BY <1>1, <1>2, <1>5, <1>6 DEF CountInv
<1>9. KeyInv' /\ KeysUnique'
  BY <1>1, <1>2, <1>5, <1>6 DEF KeyInv, Creating, KeysUnique
<1>10. SeqInv' /\ IssueInv'
  BY <1>1, <1>2, <1>5, <1>6 DEF SeqInv, IssueInv
<1>11. LookInv' /\ LookupSound'
  BY <1>1, <1>2, <1>3, <1>5 DEF LookInv, LookupSound
<1> QED BY <1>4, <1>7, <1>8, <1>9, <1>10, <1>11

LEMMA LockReadKeeps ==
    ASSUME IInv, NEW p \in Procs, LockRead(p)
    PROVE  IInv'
<1> USE DEF IInv
<1> DEFINE perm == Entry(lid[p])
           out == IF perm = NULL THEN NULL
                  ELSE IF ipc_checkid(perm, uid[p]) THEN NULL
                  ELSE perm.obj
<1>1. /\ pc[p] = "look" /\ pc' = [pc EXCEPT ![p] = "idle"]
      /\ found' = [found EXCEPT ![p] = out]
      /\ lid' = [lid EXCEPT ![p] = 0]
      /\ UNCHANGED <<ids, sem, key, newtab, limit, newseq, uid, created, issued>>
  BY DEF LockRead, Goto
<1>2. /\ perm # NULL => lid[p] \in DOMAIN ids.entries /\ perm = ids.entries[lid[p]]
      /\ perm \in Perm \cup {NULL} /\ uid[p] \in AllIds /\ lid[p] = Lid(uid[p])
  BY <1>1, EntriesType DEF TypeOK, LookInv, Entry
<1>3. out # NULL => perm \in Perm /\ perm.seq = uid[p] \div IPCMNI /\ out = perm.obj
  BY <1>2 DEF ipc_checkid, SEQ_MULTIPLIER
<1>4. out \in Creations \cup {NULL}
  BY <1>3 DEF Perm
<1>5. out # NULL => [id |-> uid[p], obj |-> out] \in issued
  <2> SUFFICES ASSUME out # NULL PROVE [id |-> uid[p], obj |-> out] \in issued
    OBVIOUS
  <2>1. perm.seq = uid[p] \div IPCMNI /\ out = perm.obj /\ perm # NULL
    BY <1>3, IdsAssumption
  <2>2. lid[p] \in Live(ids)
    BY <1>2, <2>1 DEF Live
  <2>3. [id |-> ipc_buildid(lid[p], perm.seq), obj |-> perm.obj] \in issued
    BY <1>2, <2>1, <2>2 DEF IssueInv
  <2>4. ipc_buildid(lid[p], perm.seq) = uid[p]
    BY <1>2, <2>1, SplitId
  <2> QED BY <2>1, <2>3, <2>4
<1> HIDE DEF out, perm
<1>6. TypeOK'
  BY <1>1, <1>4, UtilAssumption DEF TypeOK, PcValues
<1>7. \A q \in Procs : /\ pc'[q] = IF q = p THEN "idle" ELSE pc[q]
                       /\ lid'[q] = IF q = p THEN 0 ELSE lid[q]
                       /\ found'[q] = IF q = p THEN out ELSE found[q]
  BY <1>1 DEF TypeOK
<1>8. Inserting' = Inserting /\ Live(ids)' = Live(ids)
  BY <1>1, <1>7 DEF Inserting, Live
<1>9. SemInv' /\ GrowInv'
  BY <1>1, <1>7 DEF SemInv, InSem, GrowInv
<1>10. CountInv'
  BY <1>1, <1>7, <1>8 DEF CountInv
<1>11. KeyInv' /\ KeysUnique'
  BY <1>1, <1>7, <1>8 DEF KeyInv, Creating, KeysUnique
<1>12. SeqInv' /\ IssueInv'
  BY <1>1, <1>7, <1>8 DEF SeqInv, IssueInv
<1>13. LookInv' /\ LookupSound'
  BY <1>1, <1>5, <1>7 DEF LookInv, LookupSound
<1> QED BY <1>6, <1>9, <1>10, <1>11, <1>12, <1>13

LEMMA RmLockedKeeps ==
    ASSUME IInv, NEW p \in Procs, NEW o \in BOOLEAN, RmLocked(p, o)
    PROVE  /\ IInv'
           /\ \/ ids' = ids
              \/ /\ lid[p] \in Live(ids)
                 /\ Live(ids)' = Live(ids) \ {lid[p]}
                 /\ \A i \in Live(ids)' : ids'.entries[i] = ids.entries[i]
<1> USE DEF IInv
<1> DEFINE l == lid[p]
<1>1. /\ pc[p] = "rm" /\ pc' = [pc EXCEPT ![p] = "up"]
      /\ \/ ids' = ids
         \/ l \in DOMAIN ids.entries /\ ids.entries[l] # NULL /\ ids' = ipc_rmid(ids, l)
      /\ UNCHANGED <<sem, key, newtab, limit, lid, newseq, uid, found, created, issued>>
  BY DEF RmLocked, Goto, Entry
<1>2. \A q \in Procs : pc'[q] = IF q = p THEN "up" ELSE pc[q]
  BY <1>1 DEF TypeOK
<1>3. \A q \in Procs : q # p => ~InSem(q)
  BY <1>1, OneInSem DEF InSem
<1>4. ~Inserting /\ ~Inserting'
  BY <1>1, <1>2, <1>3 DEF Inserting, InSem
<1>5. SemInv'
  BY <1>1, <1>2 DEF SemInv, InSem
<1>6. GrowInv' /\ KeyInv'
  BY <1>2, <1>3 DEF GrowInv, KeyInv, Creating, InSem
<1>7. CASE ids' = ids
  <2>1. TypeOK'
    BY <1>1, <1>7 DEF TypeOK, PcValues
  <2>2. Live(ids)' = Live(ids)
    BY <1>7 DEF Live
  <2>3. CountInv' /\ KeysUnique'
    BY <1>1, <1>2, <1>4, <1>7, <2>2 DEF CountInv, KeysUnique
  <2>4. SeqInv' /\ IssueInv'
    BY <1>1, <1>2, <1>4, <1>7, <2>2 DEF SeqInv, IssueInv
  <2>5. LookInv' /\ LookupSound'
    BY <1>1, <1>2, <1>7 DEF LookInv, LookupSound
  <2> QED BY <1>5, <1>6, <1>7, <2>1, <2>3, <2>4, <2>5
<1>8. CASE l \in DOMAIN ids.entries /\ ids.entries[l] # NULL /\ ids' = ipc_rmid(ids, l)
  <2> DEFINE last == LastUsedBelow(ids, l)
             top == IF l = ids.max_id THEN last ELSE ids.max_id
  <2>1. l \in 0 .. ids.size - 1 /\ l \in Nat /\ l \in Live(ids)
    BY <1>1, <1>8, EntriesType DEF Live
  <2>2. /\ last \in {-1} \cup {i \in Live(ids) : i < l}
        /\ \A i \in Live(ids) : i < l => i <= last
    <3>1. ids.size \in Nat /\ DOMAIN ids.entries = 0 .. ids.size - 1
      BY EntriesType
    <3> QED BY <2>1, <3>1, LastUsedIsLast
  <2> HIDE DEF last
  <2>3. top \in Int
    BY <2>2, EntriesType DEF TypeOK
  <2>4. /\ ids'.entries = [ids.entries EXCEPT ![l] = NULL]
        /\ ids'.size = ids.size /\ ids'.seq = ids.seq
        /\ ids'.in_use = ids.in_use - 1
        /\ ids'.max_id = top
        /\ ids' = [ids EXCEPT !.entries = [ids.entries EXCEPT ![l] = NULL],
                              !.in_use = ids.in_use - 1, !.max_id = top]
    BY <1>8 DEF ipc_rmid, TypeOK, last
  <2> HIDE DEF top, l
  <2>5. ids'.entries \in [0 .. ids.size - 1 -> Perm \cup {NULL}]
    BY <2>4, EntriesType
  <2>6. \A i \in 0 .. ids.size - 1 : ids'.entries[i] = IF i = l THEN NULL ELSE ids.entries[i]
    BY <2>4, EntriesType
  <2>7. Live(ids)' = Live(ids) \ {l}
    BY <2>5, <2>6, EntriesType DEF Live
  <2>8. TypeOK'
    <3>1. ids'.entries \in Tables
      BY <2>5, EntriesType, TableIntro
    <3>2. ids \in [size : 0 .. IPCMNI, in_use : Int, max_id : Int,
                   seq : 0 .. SeqMax, entries : Tables] /\ ids.in_use - 1 \in Int
      BY DEF TypeOK
    <3>3. ids' \in [size : 0 .. IPCMNI, in_use : Int, max_id : Int,
                    seq : 0 .. SeqMax, entries : Tables]
      BY <2>3, <2>4, <3>1, <3>2
    <3>4. DOMAIN ids'.entries = 0 .. ids'.size - 1
      BY <2>4, <2>5
    <3> QED BY <1>1, <3>3, <3>4 DEF TypeOK, PcValues
  <2>9. CountInv'
    <3>1. Cardinality(Live(ids)') = Cardinality(Live(ids)) - 1
      BY <2>1, <2>7, EntriesType, FS_RemoveElement
    <3>2. ids'.in_use = Cardinality(Live(ids))' + (IF Inserting' THEN 1 ELSE 0)
      <4>1. ids.in_use = Cardinality(Live(ids)) + (IF Inserting THEN 1 ELSE 0)
        BY DEF CountInv
      <4> QED BY <1>4, <2>4, <3>1, <4>1, EntriesType
    <3>3. /\ \A i \in Live(ids) : i <= ids.max_id /\ i \in Nat
          /\ ids.max_id \in Live(ids) \cup {-1}
      BY <1>4, EntriesType DEF CountInv, Inserting
    <3>4. \A i \in Live(ids)' : i <= ids'.max_id
      <4> SUFFICES ASSUME NEW i \in Live(ids), i # l PROVE i <= ids'.max_id
        BY <2>7
      <4>1. CASE l = ids.max_id
        <5>1. i < l /\ ids'.max_id = last
          BY <2>1, <2>4, <3>3, <4>1 DEF top
        <5> QED BY <2>2, <5>1
      <4>2. CASE l # ids.max_id
        BY <2>4, <3>3, <4>2 DEF top
      <4> QED BY <4>1, <4>2
    <3>5. ids'.max_id \in Live(ids)' \cup {-1}
      <4>1. CASE l = ids.max_id
        <5>1. ids'.max_id = last
          BY <2>4, <4>1 DEF top
        <5> QED BY <2>1, <2>2, <2>7, <5>1
      <4>2. CASE l # ids.max_id
        BY <2>4, <2>7, <3>3, <4>2 DEF top
      <4> QED BY <4>1, <4>2
    <3> QED BY <1>4, <3>2, <3>4, <3>5 DEF CountInv, Inserting
  <2>10. \A i \in Live(ids)' : i \in Live(ids) /\ ids'.entries[i] = ids.entries[i]
    BY <2>6, <2>7, EntriesType
  <2>11. KeysUnique'
    BY <2>10 DEF KeysUnique
  <2>12. SeqInv'
    BY <1>1, <1>4, <2>4 DEF SeqInv, Inserting
  <2>13. IssueInv'
    BY <1>1, <2>4, <2>10 DEF IssueInv
  <2>14. LookInv' /\ LookupSound'
    BY <1>1, <1>2, <2>4 DEF LookInv, LookupSound
  <2> QED BY <1>5, <1>6, <2>1, <2>7, <2>8, <2>9, <2>10, <2>11, <2>12, <2>13, <2>14 DEF l
<1> QED BY <1>1, <1>7, <1>8

(***************************************************************************)
(* The theorems.                                                           *)
(***************************************************************************)

\* The limit on objects, cut at IPCMNI, is a size the table may have.
LEMMA CutLimit ==
    ASSUME NEW n \in Limits
    PROVE  Smaller(n, IPCMNI) \in 0 .. IPCMNI
  BY UtilAssumption, IdsAssumption DEF Smaller

\* Every step of the table keeps the inductive invariant.
LEMMA NextKeeps == IInv /\ [Next]_vars => IInv'
<1> SUFFICES ASSUME IInv, [Next]_vars PROVE IInv'
  OBVIOUS
<1>1. CASE UNCHANGED vars
  <2>1. UNCHANGED <<ids, sem, pc, key, newtab, limit, lid, newseq, uid, found, created, issued>>
    BY <1>1 DEF vars
  <2>2. Inserting' = Inserting /\ Live(ids)' = Live(ids)
    BY <2>1 DEF Inserting, Live
  <2>3. TypeOK'
    BY <2>1 DEF IInv, TypeOK
  <2>4. SemInv' /\ GrowInv' /\ KeyInv'
    BY <2>1, <2>2 DEF IInv, SemInv, GrowInv, KeyInv, InSem, Creating
  <2>5. CountInv' /\ KeysUnique'
    BY <2>1, <2>2 DEF IInv, CountInv, KeysUnique
  <2>6. SeqInv' /\ IssueInv'
    BY <2>1, <2>2 DEF IInv, SeqInv, IssueInv
  <2>7. LookInv' /\ LookupSound'
    BY <2>1 DEF IInv, LookInv, LookupSound
  <2> QED BY <2>3, <2>4, <2>5, <2>6, <2>7 DEF IInv
<1>2. ASSUME NEW p \in Procs, NEW k \in Keys, GetDown(p, k) PROVE IInv'
  BY <1>2, GetDownKeeps
<1>3. ASSUME NEW p \in Procs, NEW c \in BOOLEAN, GetFind(p, c) PROVE IInv'
  BY <1>3, GetFindKeeps
<1>4. ASSUME NEW p \in Procs, NEW n \in Limits, GrowAlloc(p, Smaller(n, IPCMNI))
      PROVE  IInv'
  BY <1>4, CutLimit, GrowAllocKeeps
<1>5. ASSUME NEW p \in Procs, GrowSwap(p) \/ AddScan(p) \/ AddInsert(p) \/ Up(p)
      PROVE  IInv'
  BY <1>5, GrowSwapKeeps, AddScanKeeps, AddInsertKeeps, UpKeeps
<1>6. ASSUME NEW p \in Procs, NEW id \in AllIds, RmDown(p, id) \/ LockTest(p, id)
      PROVE  IInv'
  BY <1>6, RmDownKeeps, LockTestKeeps
<1>7. ASSUME NEW p \in Procs, NEW o \in BOOLEAN, RmLocked(p, o) PROVE IInv'
  BY <1>7, RmLockedKeeps
<1>8. ASSUME NEW p \in Procs, LockRead(p) PROVE IInv'
  BY <1>8, LockReadKeeps
<1> QED BY <1>1, <1>2, <1>3, <1>4, <1>5, <1>6, <1>7, <1>8 DEF Next

\* The inductive invariant holds of every reachable state of the table.
THEOREM IInvHolds == Spec => []IInv
  BY InitIInv, NextKeeps, PTL DEF Spec

\* Type correctness: the array is always as long as size says, size never passes
\* IPCMNI and the sequence number never passes seq_max.
THEOREM TypeCorrect == Spec => []TypeOK
<1>1. IInv => TypeOK
  BY DEF IInv
<1> QED BY <1>1, IInvHolds, PTL

\* The counters that SEM_INFO, MSG_INFO, SHM_INFO and ipc_findkey rely on are
\* exact whenever nobody is in ids->sem, whatever creations and removals did.
THEOREM CountersAreExact == Spec => []CountersExact
<1>1. IInv => CountersExact
  <2> SUFFICES ASSUME IInv, sem = NULL
               PROVE  /\ ids.in_use = Cardinality(Live(ids))
                      /\ ids.max_id \in Live(ids) \cup {-1}
                      /\ \A i \in Live(ids) : i <= ids.max_id
    BY DEF CountersExact
  <2>1. \A p \in Procs : ~InSem(p)
    BY IdsAssumption DEF IInv, SemInv
  <2>2. ~Inserting
    BY <2>1 DEF Inserting, InSem
  <2>3. ids.in_use = Cardinality(Live(ids)) + (IF Inserting THEN 1 ELSE 0)
    BY DEF IInv, CountInv
  <2> QED BY <2>2, <2>3, EntriesType DEF IInv, CountInv, Inserting
<1> QED BY <1>1, IInvHolds, PTL

\* No two objects of a table ever have the same public key, although ipc_findkey
\* and the publication by ipc_addid are separated by steps that sleep.
THEOREM KeysAreUnique == Spec => []KeysUnique
  BY IInvHolds, PTL DEF IInv

\* Whatever identifiers processes pass, ipc_lock reads slots of the array, whenever it
\* is replaced, or the one after the last, and that one only under identifiers whose
\* slot no object ever had.
THEOREM AccessesInBounds == Spec => []AccessInBounds
<1>1. IInv => AccessInBounds
  <2> SUFFICES ASSUME IInv, NEW p \in Procs, pc[p] \in {"rm", "look"},
                      lid[p] \notin DOMAIN ids.entries
               PROVE  lid[p] = ids.size /\ \A r \in issued : Lid(r.id) # lid[p]
    BY DEF AccessInBounds
  <2>1. lid[p] = ids.size /\ ids.size \in Int
    BY EntriesType DEF IInv, LookInv, TypeOK
  <2>2. \A r \in issued : Lid(r.id) < ids.size
    BY DEF IInv, IssueInv
  <2> QED BY <2>1, <2>2
<1> QED BY <1>1, IInvHolds, PTL

\* An identifier is not issued again before seq_max + 1 further creations.
THEOREM IdsNotReusedEarly == Spec => []NoEarlyReuse
<1>1. IInv => NoEarlyReuse
  <2> SUFFICES ASSUME IInv, NEW r \in issued, NEW s \in issued,
                      r.id = s.id, r.obj < s.obj
               PROVE  s.obj - r.obj >= SeqMax + 1
    BY DEF NoEarlyReuse
  <2>1. r.obj \in Nat /\ s.obj \in Nat /\ SeqMax + 1 \in Nat \ {0}
    BY UtilAssumption, IdsAssumption DEF IInv, TypeOK, Creations
  <2>2. r.obj % (SeqMax + 1) = s.obj % (SeqMax + 1)
    BY DEF IInv, IssueInv
  <2> QED BY <2>1, <2>2, SameRemainder
<1> QED BY <1>1, IInvHolds, PTL

\* A lookup only returns an object to which that identifier was issued.
THEOREM LookupsAreSound == Spec => []LookupSound
  BY IInvHolds, PTL DEF IInv

(***************************************************************************)
(* The table implements the registry.                                      *)
(***************************************************************************)
\* The registry entry of a slot.
Reg(i) == [id  |-> ipc_buildid(i, ids.entries[i].seq),
           key |-> ids.entries[i].key,
           obj |-> ids.entries[i].obj]

\* Two slots in use have different identifiers, each one of AllIds.
LEMMA RegIds ==
    ASSUME IInv
    PROVE  /\ \A i \in Live(ids) : /\ Reg(i).id \in AllIds /\ Lid(Reg(i).id) = i
                                   /\ Reg(i).key = ids.entries[i].key
           /\ Registered = {Reg(i) : i \in Live(ids)}
<1>1. ASSUME NEW i \in Live(ids)
      PROVE  /\ Reg(i).id \in AllIds /\ Lid(Reg(i).id) = i
             /\ Reg(i).key = ids.entries[i].key
  <2>1. i \in 0 .. IPCMNI - 1 /\ ids.entries[i] \in Perm
    BY EntriesType DEF IInv
  <2>2. ids.entries[i].seq \in 0 .. SeqMax
    BY <2>1 DEF Perm
  <2> QED BY <2>1, <2>2, BuildId DEF Reg
<1>2. Registered = {Reg(i) : i \in Live(ids)}
  BY DEF Registered, Reg
<1> QED BY <1>1, <1>2

\* A step that leaves the slots in use as they are is invisible in the registry.
LEMMA SameRegistered ==
    ASSUME Live(ids)' = Live(ids),
           \A i \in Live(ids) : ids'.entries[i] = ids.entries[i]
    PROVE  Registered' = Registered
  BY DEF Registered

\* Publishing an object registers it, under an identifier and a key of its own.
LEMMA InsertRegisters ==
    ASSUME IInv, NEW p \in Procs, AddInsert(p)
    PROVE  \E id \in AllIds, k \in Keys, obj \in Creations : Registry!Register(id, k, obj)
<1> DEFINE l == lid[p]
           perm == [key |-> key[p], seq |-> newseq[p], obj |-> created]
           id == ipc_buildid(l, newseq[p])
<1>1. /\ l \in 0 .. ids.size - 1 /\ l \notin Live(ids)
      /\ Live(ids)' = Live(ids) \cup {l}
      /\ ids'.entries = [ids.entries EXCEPT ![l] = perm]
  BY AddInsertKeeps
<1>2. /\ pc[p] = "insert" /\ newseq[p] \in 0 .. SeqMax /\ l \in 0 .. IPCMNI - 1
      /\ key[p] \in Keys /\ created \in 0 .. MaxCreate
  BY DEF AddInsert, IInv, TypeOK
<1>3. /\ created \in Creations
      /\ key[p] # IPC_PRIVATE => \A i \in Live(ids) : ids.entries[i].key # key[p]
  BY <1>2, IdsAssumption DEF IInv, KeyInv, Creating, Creations
<1>4. id \in AllIds /\ Lid(id) = l
  BY <1>2, BuildId
<1>5. \A r \in Registered : r.id # id
  BY <1>1, <1>4, RegIds
<1>6. key[p] # IPC_PRIVATE => \A r \in Registered : r.key # key[p]
  BY <1>3, RegIds
<1>7. Registered' = Registered \cup {[id |-> id, key |-> key[p], obj |-> created]}
  <2>1. \A i \in Live(ids) : ids'.entries[i] = ids.entries[i]
    BY <1>1, EntriesType DEF IInv
  <2>2. ids'.entries[l] = perm
    BY <1>1, EntriesType DEF IInv
  <2>3. /\ ids'.entries[l].seq = newseq[p] /\ ids'.entries[l].key = key[p]
        /\ ids'.entries[l].obj = created
    BY <2>2
  <2>4. Registered' = {[id  |-> ipc_buildid(i, ids'.entries[i].seq),
                        key |-> ids'.entries[i].key,
                        obj |-> ids'.entries[i].obj] : i \in Live(ids)'}
    BY DEF Registered
  <2> HIDE DEF l, perm
  <2> QED BY <1>1, <2>1, <2>3, <2>4 DEF Registered
<1>8. Registry!Register(id, key[p], created)
  BY <1>5, <1>6, <1>7 DEF Registry!Register
<1> QED BY <1>2, <1>3, <1>4, <1>8

\* Removing an object unregisters it and no other.
LEMMA RemoveUnregisters ==
    ASSUME IInv, NEW p \in Procs, NEW o \in BOOLEAN, RmLocked(p, o)
    PROVE  Registered' = Registered \/ \E r \in Registered : Registry!Unregister(r)
<1>1. CASE ids' = ids
  BY <1>1 DEF Registered, Live
<1>2. CASE /\ lid[p] \in Live(ids)
           /\ Live(ids)' = Live(ids) \ {lid[p]}
           /\ \A i \in Live(ids)' : ids'.entries[i] = ids.entries[i]
  <2> DEFINE l == lid[p]
  <2>1. Registered = {Reg(i) : i \in Live(ids)}
    BY RegIds
  <2>2. \A i \in Live(ids) : Reg(i) = Reg(l) => i = l
    BY <1>2, RegIds
  <2>3. Registered' = {Reg(i) : i \in Live(ids) \ {l}}
    BY <1>2 DEF Registered, Reg
  <2>4. Registered' = Registered \ {Reg(l)}
    BY <1>2, <2>1, <2>2, <2>3
  <2>5. Reg(l) \in Registered
    BY <1>2, <2>1
  <2> QED BY <2>4, <2>5 DEF Registry!Unregister
<1> QED BY <1>1, <1>2, RmLockedKeeps

\* The table implements the abstract registry: the array may be replaced, the
\* limit lowered and calls may fail at any point, and callers still see objects
\* registered and removed one at a time, under unique identifiers and keys.
THEOREM ImplementsRegistry == Spec => RegistrySpec
<1>1. Init => Registry!Init
  <2> SUFFICES ASSUME Init PROVE Registered = {}
    BY DEF Registry!Init
  <2>1. Live(ids) = {}
    BY DEF Init, ipc_init_ids, Live
  <2> QED BY <2>1 DEF Registered
<1>2. IInv /\ [Next]_vars => [Registry!Next]_Registered
  <2> SUFFICES ASSUME IInv, [Next]_vars
               PROVE  Registry!Next \/ Registered' = Registered
    OBVIOUS
  <2>1. ASSUME ids' = ids PROVE Registered' = Registered
    BY <2>1 DEF Registered, Live
  <2>2. ASSUME NEW p \in Procs, GrowSwap(p) PROVE Registered' = Registered
    BY <2>2, GrowSwapKeeps, SameRegistered
  <2>3. ASSUME NEW p \in Procs, AddScan(p) PROVE Registered' = Registered
    <3>1. ids'.entries = ids.entries
      BY <2>3, AddScanKeeps
    <3> QED BY <3>1 DEF Registered, Live
  <2>4. ASSUME NEW p \in Procs, AddInsert(p) PROVE Registry!Next
    BY <2>4, InsertRegisters DEF Registry!Next
  <2>5. ASSUME NEW p \in Procs, NEW o \in BOOLEAN, RmLocked(p, o)
        PROVE  Registry!Next \/ Registered' = Registered
    BY <2>5, RemoveUnregisters DEF Registry!Next
  <2> QED BY <2>1, <2>2, <2>3, <2>4, <2>5
          DEF Next, vars, GetDown, GetFind, GrowAlloc, Up, RmDown, LockTest, LockRead
<1> QED BY <1>1, <1>2, IInvHolds, PTL DEF Spec, RegistrySpec, Registry!Spec
=============================================================================
