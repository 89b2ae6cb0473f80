---------------------------- MODULE RwSemProofs ----------------------------
(***************************************************************************)
(* The read-write semaphore excludes, reaches no BUG() and strands neither *)
(* readers nor an owner of the bias, for every number of readers and       *)
(* writers.                                                                *)
(*                                                                         *)
(* The argument leaves count behind at once: count is negative exactly     *)
(* when a writer and somebody else have both subtracted (Contended). Who   *)
(* makes it so gets the bias; who ends it makes a token, the grant, for an *)
(* owner of the bias. The owners that still wait are therefore one for the *)
(* contention and one for the token. A token for a writer is only made     *)
(* when nobody has the lock, one for a reader when no writer has it.       *)
(***************************************************************************)
EXTENDS RwSem, SequenceTheorems, FiniteSetTheorems, WellFoundedInduction, TLAPS

Waiting == {"test", "set_state", "retest", "schedule", "leave"}
PCs == {"idle", "retry", "held", "failed", "enter", "grant_read", "grant_write",
        "wake_read", "wake_write", "pass_on", "pass_wake"} \cup Waiting
Kinds == {"read", "write"}
Queues == {"wait", "write_bias_wait"}
Entry == [task : Procs, exclusive : BOOLEAN]

Types ==
    /\ count \in Int /\ granted \in [Kinds -> BOOLEAN]
    /\ queue \in [Queues -> Seq(Entry)]
    /\ state \in [Procs -> {TASK_RUNNING, TASK_UNINTERRUPTIBLE}]
    /\ pc \in [Procs -> PCs] /\ after \in [Procs -> {"idle", "enter"}]
    /\ biased \subseteq Procs
    /\ \A p \in biased : pc[p] \in Waiting \cup {"enter"}

\* Who has subtracted from count, who has or was given the lock, and the owners of
\* the bias that still wait.
Sub == {p \in Procs : p \in biased \/ Has(p) \/ pc[p] = "failed"}
Active == {p \in Procs : Has(p) \/ (p \in biased /\ pc[p] = "leave")}
Owners == {p \in biased : pc[p] # "leave"}

\* A grant of kind k has been decided and not been taken yet.
Pending(k) == granted[k] \/ \E p \in Procs : pc[p] = GrantAt(k)

Value(S) == BIAS - Cardinality(S \cap Readers) - BIAS * Cardinality(S \cap Writers)
CountExact == count = Value(Sub)

\* The rules of the lock, in terms of these sets and the two tokens.
Contended(S) == \E w \in S \cap Writers : \E q \in S : w # q

Fair(S, A, B, r, w) ==
    /\ S \subseteq Procs /\ A \subseteq S /\ B \subseteq S /\ A \cap B = {}
    /\ r \in BOOLEAN /\ w \in BOOLEAN /\ ~(r /\ w)
    /\ \A x \in A \cap Writers : A = {x}
    /\ w => A = {} /\ B \cap Writers # {}
    /\ r => A \cap Writers = {} /\ B \cap Readers # {}
    /\ \A x, y \in B \cap Readers : x = y
    /\ ~Contended(S) /\ ~(r \/ w) => B = {}
    /\ Contended(S) /\ ~(r \/ w) => \E x \in B : B = {x}
    /\ ~Contended(S) /\ (r \/ w) => \E x \in B : B = {x}
    /\ Contended(S) /\ (r \/ w) => \E x, y \in B : x # y /\ B = {x, y}

Granting == {"grant_read", "grant_write"}
OneToken ==
    /\ \A p, q \in Procs : pc[p] \in Granting /\ pc[q] \in Granting => p = q
    /\ \A p \in Procs : pc[p] \in Granting => ~granted["read"] /\ ~granted["write"]
Rules == OneToken /\ Fair(Sub, Active, Owners, Pending("read"), Pending("write"))

\* Readers wait in front of writers, on one queue, once; nobody else is on a queue.
Ordered(s) ==
    /\ \A i, j \in DOMAIN s : i < j /\ s[i].exclusive => s[j].exclusive
    /\ \A i, j \in DOMAIN s : s[i].task = s[j].task => i = j
    /\ \A i \in DOMAIN s : s[i].exclusive <=> s[i].task \in Writers
OnQueue(s, p) == \E i \in DOMAIN s : s[i].task = p
Queued ==
    \A q \in Queues : /\ Ordered(queue[q])
                      /\ \A p \in Procs : OnQueue(queue[q], p) <=> pc[p] \in Waiting /\ Queue(p) = q

\* A grant wakes an owner of the bias, or somebody is about to do it.
GrantSeen ==
    \A k \in Kinds : granted[k] =>
        \/ \E p \in Procs : pc[p] = WakeAt(k)
        \/ \E p \in Owners : Kind(p) = k /\ ~Sleeping(p)

\* A reader that sleeps for a count that is not negative any more will be woken.
ReadersWoken ==
    \A p \in Readers \ biased : Sleeping(p) /\ ~Contended(Sub) =>
        \/ Pending("write")
        \/ \E q \in Procs : \/ pc[q] \in {"grant_read", "wake_read", "pass_on", "pass_wake"}
                            \/ q \in biased \cap Writers /\ pc[q] = "leave"

Inv == Types /\ CountExact /\ Rules /\ Queued /\ GrantSeen /\ ReadersWoken
-----------------------------------------------------------------------------
(* The rules are kept by what can happen to the sets and the tokens.       *)

\* A process makes one kind of call.
LEMMA Disjoint == \A p : ~(p \in Readers /\ p \in Writers)
BY RwAssumption

\* A process gets the lock at once.
LEMMA FairGot ==
    ASSUME NEW S, NEW A, NEW B, NEW r, NEW w, Fair(S, A, B, r, w), NEW p, p \notin S,
           (p \in Readers /\ S \cap Writers = {}) \/ (p \in Writers /\ S = {})
    PROVE  Fair(S \cup {p}, A \cup {p}, B, r, w)
<1>1. ~Contended(S) /\ ~Contended(S \cup {p})
    <2>1. CASE p \in Readers /\ S \cap Writers = {}
        BY <2>1, Disjoint DEF Contended
    <2>2. CASE p \in Writers /\ S = {}
        BY <2>2 DEF Contended
    <2>3. QED
        BY <2>1, <2>2
<1>2. ~w /\ (p \in Writers => ~r)
    <2>1. w => S \cap Writers # {}
        BY DEF Fair
    <2>2. r => S # {}
        BY DEF Fair
    <2>3. QED
        BY <2>1, <2>2, Disjoint
<1>3. QED
    BY <1>1, <1>2, Disjoint DEF Fair, Procs

\* A process makes count negative and gets the bias.
LEMMA FairBias ==
    ASSUME NEW S, NEW A, NEW B, NEW r, NEW w, Fair(S, A, B, r, w), NEW p, p \notin S,
           ~Contended(S), S # {}, p \in Writers \/ (p \in Readers /\ \E x \in Writers : S = {x})
    PROVE  Fair(S \cup {p}, A, B \cup {p}, r, w)
<1>1. Contended(S \cup {p})
    <2>1. CASE p \in Writers
        BY <2>1 DEF Contended
    <2>2. CASE \E x \in Writers : S = {x}
        BY <2>2 DEF Contended
    <2>3. QED
        BY <2>1, <2>2
<1>2. \A x, y \in (B \cup {p}) \cap Readers : x = y
    BY Disjoint DEF Fair
<1>3. p \notin A /\ p \notin B
    BY DEF Fair
<1>4. CASE ~(r \/ w)
    <2>1. B = {}
        BY <1>4 DEF Fair
    <2>2. QED
        BY <1>1, <1>2, <1>3, <1>4, <2>1 DEF Fair, Procs
<1>5. CASE r \/ w
    <2>1. PICK x \in B : B = {x}
        BY <1>5 DEF Fair
    <2>2. \E y, z \in B \cup {p} : y # z /\ B \cup {p} = {y, z}
        BY <1>3, <2>1
    <2>3. QED
        BY <1>1, <1>2, <1>3, <1>5, <2>2 DEF Fair, Procs
<1>6. QED
    BY <1>4, <1>5

\* A process subtracts when count is negative already.
LEMMA FairFail ==
    ASSUME NEW S, NEW A, NEW B, NEW r, NEW w, Fair(S, A, B, r, w), NEW p \in Procs, Contended(S)
    PROVE  Fair(S \cup {p}, A, B, r, w)
<1>1. Contended(S \cup {p})
    BY DEF Contended
<1>2. QED
    BY <1>1 DEF Fair

\* A process adds again what it has subtracted, and count keeps its sign.
LEMMA FairAdd ==
    ASSUME NEW S, NEW A, NEW B, NEW r, NEW w, Fair(S, A, B, r, w), NEW p, p \notin B,
           Contended(S \ {p}) <=> Contended(S)
    PROVE  Fair(S \ {p}, A \ {p}, B, r, w)
BY DEF Fair

\* count stops being negative: there was no token, and who is left is the owner.
LEMMA NoTokenBefore ==
    ASSUME NEW S, NEW A, NEW B, NEW r, NEW w, Fair(S, A, B, r, w), NEW p, p \notin B,
           Contended(S), ~Contended(S \ {p})
    PROVE  ~r /\ ~w
<1>1. SUFFICES ASSUME r \/ w PROVE FALSE
    OBVIOUS
<1>2. PICK x, y \in B : x # y /\ B = {x, y}
    BY <1>1 DEF Fair
<1>3. x \in S \ {p} /\ y \in S \ {p} /\ x \in Procs /\ y \in Procs
    BY <1>2 DEF Fair
<1>4. x \notin Writers /\ y \notin Writers
    BY <1>2, <1>3 DEF Contended
<1>5. QED
    BY <1>1, <1>2, <1>3, <1>4 DEF Fair, Procs
\* The last process but one leaves a writer behind, which owns the bias.
LEMMA FairAddWrite ==
    ASSUME NEW S, NEW A, NEW B, NEW r, NEW w, Fair(S, A, B, r, w), NEW p, p \notin B,
           Contended(S), NEW x \in Writers, S \ {p} = {x}
    PROVE  Fair(S \ {p}, A \ {p}, B, r, TRUE)
<1>1. ~Contended(S \ {p})
    BY DEF Contended
<1>2. ~r /\ ~w
    BY <1>1, NoTokenBefore
<1>3. PICK b \in B : B = {b}
    BY <1>2 DEF Fair
<1>4. b = x /\ A \ {p} = {}
    BY <1>3 DEF Fair
<1>5. QED
    BY <1>1, <1>2, <1>3, <1>4 DEF Fair

\* The last writer leaves readers behind, one of which owns the bias.
LEMMA FairAddRead ==
    ASSUME NEW S, NEW A, NEW B, NEW r, NEW w, Fair(S, A, B, r, w), NEW p, p \notin B,
           Contended(S), (S \ {p}) \cap Writers = {}
    PROVE  Fair(S \ {p}, A \ {p}, B, TRUE, w)
<1>1. ~Contended(S \ {p})
    BY DEF Contended
<1>2. ~r /\ ~w
    BY <1>1, NoTokenBefore
<1>3. PICK b \in B : B = {b}
    BY <1>2 DEF Fair
<1>4. b \in Readers
    BY <1>3 DEF Fair, Procs
<1>5. QED
    BY <1>1, <1>2, <1>3, <1>4 DEF Fair

\* The owner takes the token of its kind.
LEMMA FairTakeWrite ==
    ASSUME NEW S, NEW A, NEW B, NEW r, Fair(S, A, B, r, TRUE), NEW p \in B, p \in Writers
    PROVE  Fair(S, A \cup {p}, B \ {p}, r, FALSE)
<1>1. ~r /\ A = {}
    BY DEF Fair
<1>2. CASE Contended(S)
    <2>1. PICK x, y \in B : x # y /\ B = {x, y}
        BY <1>2 DEF Fair
    <2>2. \E z \in B \ {p} : B \ {p} = {z}
        BY <2>1
    <2>3. QED
        BY <1>1, <1>2, <2>2 DEF Fair
<1>3. CASE ~Contended(S)
    <2>1. B \ {p} = {}
        BY <1>3 DEF Fair
    <2>2. QED
        BY <1>1, <1>3, <2>1 DEF Fair
<1>4. QED
    BY <1>2, <1>3

LEMMA FairTakeRead ==
    ASSUME NEW S, NEW A, NEW B, NEW w, Fair(S, A, B, TRUE, w), NEW p \in B, p \in Readers
    PROVE  Fair(S, A \cup {p}, B \ {p}, FALSE, w)
<1>1. ~w /\ A \cap Writers = {} /\ p \notin Writers
    BY Disjoint DEF Fair
<1>2. CASE Contended(S)
    <2>1. PICK x, y \in B : x # y /\ B = {x, y}
        BY <1>2 DEF Fair
    <2>2. \E z \in B \ {p} : B \ {p} = {z}
        BY <2>1
    <2>3. QED
        BY <1>1, <1>2, <2>2 DEF Fair
<1>3. CASE ~Contended(S)
    <2>1. B \ {p} = {}
        BY <1>3 DEF Fair
    <2>2. QED
        BY <1>1, <1>3, <2>1 DEF Fair
<1>4. QED
    BY <1>2, <1>3

-----------------------------------------------------------------------------
(* What the value of count says of the processes that have subtracted.     *)

LEMMA SubFinite ==
    ASSUME NEW S \in SUBSET Procs
    PROVE  IsFiniteSet(S) /\ Cardinality(S) \in Nat
BY RwAssumption, FS_Subset, FS_CardinalityType

LEMMA BiasType == BIAS \in Nat /\ BIAS > 0 /\ BIAS > Cardinality(Readers)
<1>1. Readers \in SUBSET Procs
    BY DEF Procs
<1>2. QED
    BY <1>1, SubFinite, RwAssumption

LEMMA Times == ASSUME NEW n \in Nat, NEW b \in Nat, n >= 2 PROVE b * n >= b + b
<1>1. b * n = b * (n - 2) + b + b
    OBVIOUS
<1>2. b * (n - 2) >= 0
    OBVIOUS
<1>3. b * (n - 2) \in Int /\ b * n \in Int
    OBVIOUS
<1>4. QED
    BY <1>1, <1>2, <1>3

\* The sign.
LEMMA ValueSign ==
    ASSUME NEW S \in SUBSET Procs
    PROVE  /\ Value(S) \in Int /\ Value(S) <= BIAS
           /\ S \cap Writers = {} => Value(S) > 0
           /\ \A x \in Writers : S = {x} => Value(S) = 0
           /\ Contended(S) => Value(S) < 0
           /\ S # {} => Value(S) < BIAS
           /\ S = {} => Value(S) = BIAS
<1> DEFINE R == S \cap Readers
           W == S \cap Writers
           m == Cardinality(R)
           n == Cardinality(W)
<1>1. /\ IsFiniteSet(R) /\ IsFiniteSet(W) /\ m \in Nat /\ n \in Nat
      /\ IsFiniteSet(Readers) /\ Cardinality(Readers) \in Nat
    BY SubFinite DEF Procs
<1>2. m <= Cardinality(Readers)
    BY <1>1, FS_Subset
<1>3. /\ m = 0 <=> R = {}
      /\ n = 0 <=> W = {}
    BY <1>1, FS_EmptySet
<1>4. S = R \cup W
    BY DEF Procs
<1>5. \A x \in W : W # {x} => n >= 2
    <2>1. SUFFICES ASSUME NEW x \in W, W # {x}, n < 2 PROVE FALSE
        BY <1>1
    <2>2. n = 1
        BY <1>1, <1>3, <2>1
    <2>3. PICK y : W = {y}
        BY <1>1, <2>2, FS_Singleton
    <2>4. QED
        BY <2>1, <2>3
<1>6. Value(S) = BIAS - m - BIAS * n
    BY DEF Value
<1> HIDE DEF m, n
<1>7. BIAS * n \in Nat /\ (n = 0 => BIAS * n = 0) /\ (n = 1 => BIAS * n = BIAS)
      /\ (n >= 2 => BIAS * n >= BIAS + BIAS) /\ (n >= 1 => BIAS * n >= BIAS)
    <2>1. n >= 2 => BIAS * n >= BIAS + BIAS
        BY <1>1, Times, BiasType
    <2>2. BIAS * n \in Nat /\ (n = 0 => BIAS * n = 0) /\ (n = 1 => BIAS * n = BIAS)
        BY <1>1, BiasType
    <2>3. n >= 1 => n = 1 \/ n >= 2
        BY <1>1
    <2>4. QED
        BY <2>1, <2>2, <2>3, BiasType
<1>8. S \cap Writers = {} => Value(S) > 0
    BY <1>1, <1>2, <1>3, <1>6, <1>7, BiasType
<1>9. ASSUME NEW x \in Writers, S = {x} PROVE Value(S) = 0
    <2>1. R = {} /\ W = {x}
        BY <1>9, Disjoint
    <2>2. n = 1
        BY <2>1, FS_Singleton DEF n
    <2>3. QED
        BY <1>1, <1>3, <1>6, <1>7, <2>1, <2>2, BiasType
<1>10. ASSUME Contended(S) PROVE Value(S) < 0
    <2>1. PICK x \in W : \E q \in S : x # q
        BY <1>10 DEF Contended
    <2>2. PICK q \in S : x # q
        BY <2>1
    <2>3. CASE q \in W
        <3>1. n >= 2
            BY <1>5, <2>2, <2>3
        <3>2. QED
            BY <1>1, <1>6, <1>7, <3>1, BiasType
    <2>4. CASE q \in R
        <3>1. m >= 1 /\ n >= 1
            BY <1>1, <1>3, <2>1, <2>4
        <3>2. QED
            BY <1>1, <1>6, <1>7, <3>1, BiasType
    <2>5. QED
        BY <1>4, <2>3, <2>4
<1>11. S # {} => m >= 1 \/ n >= 1
    BY <1>1, <1>3, <1>4
<1>12. S # {} => Value(S) < BIAS
    BY <1>1, <1>6, <1>7, <1>11, BiasType
<1>13. S = {} => Value(S) = BIAS
    BY <1>1, <1>3, <1>6, <1>7, BiasType
<1>14. Value(S) \in Int /\ Value(S) <= BIAS
    BY <1>1, <1>6, <1>7, BiasType
<1>15. QED
    BY <1>8, <1>9, <1>10, <1>12, <1>13, <1>14

\* The sign decides among the cases, as they exclude each other.
LEMMA SignCases ==
    ASSUME NEW S \in SUBSET Procs
    PROVE  /\ Value(S) < 0 <=> Contended(S)
           /\ Value(S) > 0 <=> S \cap Writers = {}
           /\ Value(S) = 0 <=> \E x \in Writers : S = {x}
           /\ Value(S) = BIAS <=> S = {}
<1>1. Contended(S) \/ S \cap Writers = {} \/ \E x \in Writers : S = {x}
    BY DEF Contended
<1>2. QED
    BY <1>1, ValueSign, BiasType

\* What adding and removing a process changes.
LEMMA ValueAdd ==
    ASSUME NEW S \in SUBSET Procs, NEW p \in Procs, p \notin S
    PROVE  Value(S \cup {p}) = Value(S) - Amount(p)
<1> DEFINE R == S \cap Readers
           W == S \cap Writers
<1>1. /\ IsFiniteSet(R) /\ IsFiniteSet(W) /\ Cardinality(R) \in Nat /\ Cardinality(W) \in Nat
    BY SubFinite DEF Procs
<1>2. CASE p \in Readers
    <2>1. (S \cup {p}) \cap Readers = R \cup {p} /\ (S \cup {p}) \cap Writers = W
        BY <1>2, Disjoint
    <2>2. Cardinality(R \cup {p}) = Cardinality(R) + 1
        BY <1>1, FS_AddElement
    <2>3. BIAS * Cardinality(W) \in Nat
        BY <1>1, BiasType
    <2>4. Value(S \cup {p}) = BIAS - Cardinality(R \cup {p}) - BIAS * Cardinality(W)
        BY <2>1 DEF Value
    <2>5. Value(S) = BIAS - Cardinality(R) - BIAS * Cardinality(W) /\ Amount(p) = 1
        BY <1>2 DEF Value, Amount
    <2>6. QED
        BY <1>1, <2>2, <2>3, <2>4, <2>5, BiasType
<1>3. CASE p \in Writers
    <2>1. (S \cup {p}) \cap Readers = R /\ (S \cup {p}) \cap Writers = W \cup {p}
        BY <1>3, Disjoint
    <2>2. Cardinality(W \cup {p}) = Cardinality(W) + 1
        BY <1>1, FS_AddElement
    <2>3. BIAS * (Cardinality(W) + 1) = BIAS * Cardinality(W) + BIAS /\ BIAS * Cardinality(W) \in Nat
        BY <1>1, BiasType
    <2>4. Amount(p) = BIAS
        BY <1>3, Disjoint DEF Amount
    <2>5. Value(S \cup {p}) = BIAS - Cardinality(R) - BIAS * Cardinality(W \cup {p})
        BY <2>1 DEF Value
    <2>6. Value(S) = BIAS - Cardinality(R) - BIAS * Cardinality(W)
        BY DEF Value
    <2>7. QED
        BY <1>1, <2>2, <2>3, <2>4, <2>5, <2>6, BiasType
<1>4. QED
    BY <1>2, <1>3 DEF Procs

LEMMA ValueRemove ==
    ASSUME NEW S \in SUBSET Procs, NEW p \in S
    PROVE  Value(S \ {p}) = Value(S) + Amount(p)
<1>1. S = (S \ {p}) \cup {p} /\ p \notin S \ {p}
    OBVIOUS
<1>2. Value(S) = Value(S \ {p}) - Amount(p)
    BY <1>1, ValueAdd
<1>3. Amount(p) \in Int /\ Value(S \ {p}) \in Int
    BY BiasType, ValueSign DEF Amount
<1>4. QED
    BY <1>2, <1>3
-----------------------------------------------------------------------------
(* Wait queues.                                                            *)

\* The least index __wake_up_common looks for exists.
LEMMA MinIn ==
    ASSUME NEW T \in SUBSET Nat, T # {}
    PROVE  Min(T) \in T /\ \A y \in T : Min(T) <= y
<1>1. PICK x \in T : \A y \in T : ~(<<y, x>> \in OpToRel(<, Nat))
    BY NatLessThanWellFounded, WFMin
<1>2. \A y \in T : x <= y
    <2>1. SUFFICES ASSUME NEW y \in T, ~(x <= y) PROVE FALSE
        OBVIOUS
    <2>2. y < x /\ <<y, x>> \in Nat \X Nat
        BY <2>1
    <2>3. <<y, x>> \in OpToRel(<, Nat)
        BY <2>2 DEF OpToRel
    <2>4. QED
        BY <1>1, <2>3
<1>3. QED
    BY <1>2 DEF Min

\* Readers go to the front.
LEMMA EnterFront ==
    ASSUME NEW s \in Seq(Entry), Ordered(s), NEW p \in Readers, ~OnQueue(s, p)
    PROVE  /\ add_wait_queue(s, p) \in Seq(Entry) /\ Ordered(add_wait_queue(s, p))
           /\ \A x : OnQueue(add_wait_queue(s, p), x) <=> x = p \/ OnQueue(s, x)
<1> DEFINE e == [task |-> p, exclusive |-> FALSE]
           r == <<e>> \o s
<1>0. r = add_wait_queue(s, p)
    BY DEF add_wait_queue
<1>1. e \in Entry /\ p \notin Writers
    BY Disjoint DEF Entry, Procs
<1>2. e.task = p /\ e.exclusive = FALSE
    OBVIOUS
<1> HIDE DEF e
<1>3. <<e>> \in Seq(Entry) /\ Len(<<e>>) = 1 /\ <<e>>[1] = e
    BY <1>1
<1>4. /\ r \in Seq(Entry) /\ Len(r) = Len(s) + 1
      /\ \A i \in 1 .. Len(s) + 1 : r[i] = IF i <= 1 THEN e ELSE s[i - 1]
    BY <1>3, ConcatProperties
<1>5. Len(s) \in Nat /\ DOMAIN s = 1 .. Len(s) /\ DOMAIN r = 1 .. Len(s) + 1
    BY <1>4, LenProperties
<1>6. \A j \in DOMAIN r : (j = 1 /\ r[j] = e) \/ (j - 1 \in DOMAIN s /\ j > 1 /\ r[j] = s[j - 1])
    BY <1>4, <1>5
<1>7. 1 \in DOMAIN r /\ r[1] = e /\ \A i \in DOMAIN s : i + 1 \in DOMAIN r /\ r[i + 1] = s[i]
    BY <1>4, <1>5
<1> HIDE DEF r
<1>8. Ordered(r)
    <2>1. ASSUME NEW i \in DOMAIN r, NEW j \in DOMAIN r, i < j, r[i].exclusive PROVE r[j].exclusive
        <3>1. i - 1 \in DOMAIN s /\ r[i] = s[i - 1]
            BY <1>6, <1>2, <2>1
        <3>2. j - 1 \in DOMAIN s /\ r[j] = s[j - 1] /\ i - 1 < j - 1
            BY <1>5, <1>6, <2>1
        <3>3. QED
            BY <2>1, <3>1, <3>2 DEF Ordered
    <2>2. ASSUME NEW i \in DOMAIN r, NEW j \in DOMAIN r, r[i].task = r[j].task PROVE i = j
        <3>1. \A k \in DOMAIN s : s[k].task # p
            BY DEF OnQueue
        <3>2. QED
            BY <1>5, <1>6, <1>2, <2>2, <3>1 DEF Ordered
    <2>3. ASSUME NEW i \in DOMAIN r PROVE r[i].exclusive <=> r[i].task \in Writers
        BY <1>1, <1>6, <1>2 DEF Ordered
    <2>4. QED
        BY <2>1, <2>2, <2>3 DEF Ordered
<1>9. ASSUME NEW x PROVE OnQueue(r, x) <=> x = p \/ OnQueue(s, x)
    BY <1>6, <1>7, <1>2 DEF OnQueue
<1>10. QED
    BY <1>0, <1>4, <1>8, <1>9

\* Writers go to the end.
LEMMA EnterEnd ==
    ASSUME NEW s \in Seq(Entry), Ordered(s), NEW p \in Writers, ~OnQueue(s, p)
    PROVE  /\ add_wait_queue_exclusive(s, p) \in Seq(Entry) /\ Ordered(add_wait_queue_exclusive(s, p))
           /\ \A x : OnQueue(add_wait_queue_exclusive(s, p), x) <=> x = p \/ OnQueue(s, x)
<1> DEFINE e == [task |-> p, exclusive |-> TRUE]
           r == Append(s, e)
<1>0. r = add_wait_queue_exclusive(s, p)
    BY DEF add_wait_queue_exclusive
<1>1. e \in Entry /\ e.task = p /\ e.exclusive = TRUE
    BY DEF Entry, Procs
<1> HIDE DEF e
<1>2. /\ r \in Seq(Entry) /\ Len(r) = Len(s) + 1
      /\ \A i \in 1 .. Len(s) : r[i] = s[i]
      /\ r[Len(s) + 1] = e
    BY <1>1, AppendProperties
<1>3. Len(s) \in Nat /\ DOMAIN s = 1 .. Len(s) /\ DOMAIN r = 1 .. Len(s) + 1
    BY <1>2, LenProperties
<1> HIDE DEF r
<1>4. \A j \in DOMAIN r : (j = Len(s) + 1 /\ r[j] = e) \/ (j \in DOMAIN s /\ j <= Len(s) /\ r[j] = s[j])
    BY <1>2, <1>3
<1>5. Len(s) + 1 \in DOMAIN r /\ \A i \in DOMAIN s : i \in DOMAIN r
    BY <1>3
<1>6. Ordered(r)
    <2>1. ASSUME NEW i \in DOMAIN r, NEW j \in DOMAIN r, i < j, r[i].exclusive PROVE r[j].exclusive
        <3>1. CASE j = Len(s) + 1
            BY <1>1, <1>2, <3>1
        <3>2. CASE j # Len(s) + 1
            <4>1. j \in DOMAIN s /\ r[j] = s[j] /\ i \in DOMAIN s /\ r[i] = s[i]
                BY <1>3, <1>4, <2>1, <3>2
            <4>2. QED
                BY <2>1, <4>1 DEF Ordered
        <3>3. QED
            BY <3>1, <3>2
    <2>2. ASSUME NEW i \in DOMAIN r, NEW j \in DOMAIN r, r[i].task = r[j].task PROVE i = j
        <3>1. \A k \in DOMAIN s : s[k].task # p
            BY DEF OnQueue
        <3>2. QED
            BY <1>1, <1>4, <2>2, <3>1 DEF Ordered
    <2>3. ASSUME NEW i \in DOMAIN r PROVE r[i].exclusive <=> r[i].task \in Writers
        BY <1>1, <1>4 DEF Ordered
    <2>4. QED
        BY <2>1, <2>2, <2>3 DEF Ordered
<1>7. ASSUME NEW x PROVE OnQueue(r, x) <=> x = p \/ OnQueue(s, x)
    BY <1>1, <1>2, <1>3, <1>4, <1>5 DEF OnQueue
<1>8. QED
    BY <1>0, <1>2, <1>6, <1>7

\* remove_wait_queue takes the one entry of the process off.
LEMMA LeaveQueue ==
    ASSUME NEW s \in Seq(Entry), Ordered(s), NEW p, OnQueue(s, p)
    PROVE  /\ remove_wait_queue(s, p) \in Seq(Entry) /\ Ordered(remove_wait_queue(s, p))
           /\ \A x : OnQueue(remove_wait_queue(s, p), x) <=> x # p /\ OnQueue(s, x)
<1> DEFINE at == CHOOSE i \in DOMAIN s : s[i].task = p
           n == Len(s) - 1
           E(j) == IF j < at THEN s[j] ELSE s[j + 1]
           r == [j \in 1 .. n |-> E(j)]
<1>0. r = remove_wait_queue(s, p)
    BY DEF remove_wait_queue
<1>1. at \in DOMAIN s /\ s[at].task = p
    BY DEF OnQueue
<1> HIDE DEF at
<1>2. Len(s) \in Nat /\ DOMAIN s = 1 .. Len(s) /\ \A i \in DOMAIN s : s[i] \in Entry
    BY LenProperties
<1>3. n \in Nat /\ at \in 1 .. n + 1 /\ DOMAIN s = 1 .. n + 1
    BY <1>1, <1>2
<1> HIDE DEF n
<1>4. \A j \in 1 .. n : E(j) \in Entry
    BY <1>2, <1>3
<1>5. r \in [1 .. n -> Entry] /\ \A j \in 1 .. n : r[j] = E(j)
    BY <1>4
<1>6. r \in Seq(Entry) /\ DOMAIN r = 1 .. n
    BY <1>3, <1>5, SeqDef
<1> DEFINE from(j) == IF j < at THEN j ELSE j + 1
<1>7. \A j \in DOMAIN r : from(j) \in DOMAIN s /\ from(j) # at /\ r[j] = s[from(j)]
    BY <1>3, <1>5, <1>6
<1>8. \A i, j \in DOMAIN r : (i < j => from(i) < from(j)) /\ (from(i) = from(j) => i = j)
    BY <1>3, <1>6
<1>9. \A i \in DOMAIN s \ {at} : \E j \in DOMAIN r : from(j) = i
    <2>1. SUFFICES ASSUME NEW i \in DOMAIN s, i # at PROVE \E j \in DOMAIN r : from(j) = i
        OBVIOUS
    <2>2. CASE i < at
        BY <1>3, <1>6, <2>2
    <2>3. CASE i > at
        <3>1. i - 1 \in DOMAIN r /\ from(i - 1) = i
            BY <1>3, <1>6, <2>3
        <3>2. QED
            BY <3>1
    <2>4. QED
        BY <1>3, <2>1, <2>2, <2>3
<1> HIDE DEF from, r
<1>10. Ordered(r)
    BY <1>7, <1>8 DEF Ordered
<1>11. ASSUME NEW x PROVE OnQueue(r, x) <=> x # p /\ OnQueue(s, x)
    <2>1. ASSUME OnQueue(r, x) PROVE x # p /\ OnQueue(s, x)
        BY <1>1, <1>7, <2>1 DEF OnQueue, Ordered
    <2>2. ASSUME x # p, OnQueue(s, x) PROVE OnQueue(r, x)
        <3>1. PICK i \in DOMAIN s : s[i].task = x
            BY <2>2 DEF OnQueue
        <3>2. i # at
            BY <1>1, <2>2, <3>1
        <3>3. PICK j \in DOMAIN r : from(j) = i
            BY <1>9, <3>2
        <3>4. QED
            BY <1>7, <3>1, <3>3 DEF OnQueue
    <2>3. QED
        BY <2>1, <2>2
<1>12. QED
    BY <1>0, <1>6, <1>10, <1>11
\* What wake_up does to the states, and whom it wakes: every reader of the queue,
\* and somebody if there is anybody.
States == {TASK_RUNNING, TASK_UNINTERRUPTIBLE}

LEMMA WakeTypes ==
    ASSUME NEW s, NEW st \in [Procs -> States]
    PROVE  /\ wake_up(s, st) \in [Procs -> States]
           /\ \A p \in Procs : wake_up(s, st)[p] \in {st[p], TASK_RUNNING}
BY DEF wake_up, WakeUp, States

LEMMA WakeReaders ==
    ASSUME NEW s \in Seq(Entry), Ordered(s), NEW st \in [Procs -> States],
           NEW p \in Readers, OnQueue(s, p)
    PROVE  wake_up(s, st)[p] = TASK_RUNNING
<1> DEFINE hit == {i \in DOMAIN s : st[s[i].task] \in Asleep}
           stop == {i \in hit : s[i].exclusive}
<1>1. p \in Procs /\ p \notin Writers
    BY Disjoint DEF Procs
<1>2. CASE st[p] = TASK_RUNNING
    BY <1>1, <1>2 DEF wake_up, WakeUp
<1>3. CASE st[p] = TASK_UNINTERRUPTIBLE
    <2>1. PICK i \in DOMAIN s : s[i].task = p
        BY DEF OnQueue
    <2>2. i \in hit /\ ~s[i].exclusive
        BY <1>1, <1>3, <2>1 DEF Ordered, Asleep
    <2>3. DOMAIN s = 1 .. Len(s) /\ Len(s) \in Nat
        BY LenProperties
    <2>4. stop # {} => i <= Min(stop)
        <3>1. SUFFICES ASSUME stop # {} PROVE i <= Min(stop)
            OBVIOUS
        <3>2. stop \in SUBSET Nat
            BY <2>3
        <3>3. Min(stop) \in stop
            BY <3>1, <3>2, MinIn
        <3>4. ~(Min(stop) < i)
            BY <2>1, <2>2, <3>3 DEF Ordered
        <3>5. QED
            BY <2>3, <3>3, <3>4
    <2>5. p \in Wakes(s, st, Asleep)
        <3>1. i \in IF stop = {} THEN hit ELSE {j \in hit : j <= Min(stop)}
            BY <2>2, <2>4
        <3>2. QED
            BY <2>1, <3>1 DEF Wakes
    <2>6. QED
        BY <1>1, <2>5 DEF wake_up, WakeUp
<1>4. QED
    BY <1>1, <1>2, <1>3 DEF States

LEMMA WakeOne ==
    ASSUME NEW s \in Seq(Entry), NEW st \in [Procs -> States], NEW p \in Procs, OnQueue(s, p)
    PROVE  \E t \in Procs : OnQueue(s, t) /\ wake_up(s, st)[t] = TASK_RUNNING
<1> DEFINE hit == {i \in DOMAIN s : st[s[i].task] \in Asleep}
           stop == {i \in hit : s[i].exclusive}
<1>1. CASE st[p] = TASK_RUNNING
    <2>1. wake_up(s, st)[p] = TASK_RUNNING
        BY <1>1 DEF wake_up, WakeUp
    <2>2. QED
        BY <2>1
<1>2. CASE st[p] = TASK_UNINTERRUPTIBLE
    <2>1. PICK i \in DOMAIN s : s[i].task = p
        BY DEF OnQueue
    <2>2. i \in hit
        BY <1>2, <2>1 DEF Asleep
    <2>3. DOMAIN s = 1 .. Len(s) /\ Len(s) \in Nat /\ \A j \in DOMAIN s : s[j].task \in Procs
        <3>1. DOMAIN s = 1 .. Len(s) /\ Len(s) \in Nat
            BY LenProperties
        <3>2. \A j \in DOMAIN s : s[j] \in Entry
            BY <3>1, ElementOfSeq
        <3>3. QED
            BY <3>1, <3>2 DEF Entry
    <2>4. PICK j \in hit : j \in IF stop = {} THEN hit ELSE {k \in hit : k <= Min(stop)}
        <3>1. CASE stop = {}
            BY <2>2, <3>1
        <3>2. CASE stop # {}
            <4>1. stop \in SUBSET Nat
                BY <2>3
            <4>2. Min(stop) \in stop
                BY <3>2, <4>1, MinIn
            <4>3. Min(stop) <= Min(stop)
                BY <4>1, <4>2
            <4>4. QED
                BY <3>2, <4>2, <4>3
        <3>3. QED
            BY <3>1, <3>2
    <2>5. s[j].task \in Wakes(s, st, Asleep) /\ s[j].task \in Procs /\ OnQueue(s, s[j].task)
        BY <2>3, <2>4 DEF Wakes, OnQueue
    <2>6. QED
        BY <2>5 DEF wake_up, WakeUp
<1>3. QED
    BY <1>1, <1>2 DEF States

-----------------------------------------------------------------------------
(* The steps. One process moves; the others keep their place, and at most  *)
(* are woken.                                                              *)

Step(p) == DownCall(p) \/ Up(p) \/ Steps(p)

LEMMA QueueName == ASSUME NEW p PROVE Queue(p) \in Queues
BY DEF Queue, Queues

LEMMA TypesStep ==
    ASSUME Types, Queued, NEW p \in Procs, Step(p)
    PROVE  Types'
<1> USE DEF Types, PCs, Waiting, Goto
<1>1. CASE DownCall(p) \/ DownRetry(p)
    <2>1. count' \in Int
        BY <1>1, BiasType DEF DownCall, DownRetry, Subtract, Amount
    <2>2. QED
        BY <1>1, <2>1 DEF DownCall, DownRetry, Subtract
<1>2. CASE Up(p) \/ DownFailed(p)
    <2>1. count' \in Int
        BY <1>2, BiasType DEF Up, DownFailed, Add, Amount
    <2>2. QED
        BY <1>2, <2>1 DEF Up, DownFailed, Add
<1>3. ASSUME NEW k \in {"read", "write"}, Grant(p, k) PROVE Types'
    BY <1>3 DEF Grant, GrantAt, WakeAt, Kinds
<1>4. ASSUME NEW k \in {"read", "write"}, WakeGranted(p, k) PROVE Types'
    BY <1>4, WakeTypes DEF WakeGranted, WakeAt, States
<1>5. CASE Enter(p)
    <2>1. queue[Queue(p)] \in Seq(Entry) /\ Ordered(queue[Queue(p)]) /\ ~OnQueue(queue[Queue(p)], p)
        BY <1>5, QueueName DEF Enter, Queued
    <2>2. queue' \in [Queues -> Seq(Entry)]
        BY <1>5, <2>1, QueueName, EnterFront, EnterEnd DEF Enter, Procs
    <2>3. QED
        BY <1>5, <2>2 DEF Enter
<1>6. CASE Test(p)
    <2>1. granted' \in [Kinds -> BOOLEAN]
        BY <1>6 DEF Test, Kind, Kinds
    <2>2. pc' = [pc EXCEPT ![p] = "leave"] /\ UNCHANGED <<count, queue, state, biased, after>>
        BY <1>6 DEF Test
    <2>3. QED
        BY <2>1, <2>2
<1>7. CASE TestFails(p) \/ Retest(p) \/ Schedule(p) \/ PassOn(p)
    BY <1>7 DEF TestFails, Retest, Schedule, PassOn
<1>8. CASE SetState(p)
    BY <1>8 DEF SetState
<1>9. CASE Leave(p)
    <2>1. queue[Queue(p)] \in Seq(Entry) /\ Ordered(queue[Queue(p)]) /\ OnQueue(queue[Queue(p)], p)
        BY <1>9, QueueName DEF Leave, Queued
    <2>2. queue' \in [Queues -> Seq(Entry)]
        BY <1>9, <2>1, QueueName, LeaveQueue DEF Leave
    <2>3. QED
        BY <1>9, <2>2 DEF Leave
<1>10. CASE PassWake(p)
    BY <1>10, WakeTypes DEF PassWake, States
<1>11. QED
    BY <1>1, <1>2, <1>3, <1>4, <1>5, <1>6, <1>7, <1>8, <1>9, <1>10 DEF Step, Steps

LEMMA Frame ==
    ASSUME Types, NEW p \in Procs, Step(p), NEW q \in Procs, q # p
    PROVE  /\ pc'[q] = pc[q] /\ (q \in biased' <=> q \in biased)
           /\ state'[q] = state[q] \/ state'[q] = TASK_RUNNING
<1> USE DEF Types, Goto
<1>1. CASE \E k \in {"read", "write"} : WakeGranted(p, k)
    BY <1>1, WakeTypes DEF WakeGranted, States
<1>2. CASE PassWake(p)
    BY <1>2, WakeTypes DEF PassWake, States
<1>3. QED
    BY <1>1, <1>2
    DEF Step, Steps, DownCall, DownRetry, Subtract, Up, DownFailed, Add, Grant, Enter, Test,
        TestFails, SetState, Retest, Schedule, Leave, PassOn

\* Where a process is on a queue.
LEMMA QueuedStep ==
    ASSUME Types, Queued, NEW p \in Procs, Step(p)
    PROVE  Queued'
<1>1. \A q \in Procs \ {p} : pc'[q] = pc[q] /\ Queue(q)' = Queue(q)
    BY Frame DEF Queue
<1>2. ASSUME queue' = queue, pc'[p] \notin Waiting, pc[p] \notin Waiting PROVE Queued'
    BY <1>1, <1>2 DEF Queued
<1>3. ASSUME queue' = queue, pc'[p] \in Waiting, pc[p] \in Waiting, biased' = biased PROVE Queued'
    BY <1>1, <1>3 DEF Queued, Queue
<1>4. CASE DownCall(p) \/ DownRetry(p) \/ Up(p) \/ DownFailed(p)
    BY <1>2, <1>4 DEF DownCall, DownRetry, Up, DownFailed, Subtract, Add, Goto, Types, Waiting
<1>5. CASE \E k \in {"read", "write"} : Grant(p, k) \/ WakeGranted(p, k)
    BY <1>2, <1>5 DEF Grant, WakeGranted, GrantAt, WakeAt, Goto, Types, Waiting
<1>6. CASE PassOn(p) \/ PassWake(p)
    BY <1>2, <1>6 DEF PassOn, PassWake, Goto, Types, Waiting
<1>7. CASE Test(p) \/ TestFails(p) \/ SetState(p) \/ Retest(p) \/ Schedule(p)
    BY <1>3, <1>7 DEF Test, TestFails, SetState, Retest, Schedule, Goto, Types, Waiting
<1>8. CASE Enter(p)
    <2> DEFINE s == queue[Queue(p)]
               r == IF p \in Readers THEN add_wait_queue(s, p) ELSE add_wait_queue_exclusive(s, p)
    <2>1. s \in Seq(Entry) /\ Ordered(s) /\ ~OnQueue(s, p)
        BY <1>8, QueueName DEF Enter, Queued, Types, Waiting
    <2>2. Ordered(r) /\ \A x : OnQueue(r, x) <=> x = p \/ OnQueue(s, x)
        BY <2>1, EnterFront, EnterEnd DEF Procs
    <2>3. queue' = [queue EXCEPT ![Queue(p)] = r]
        BY <1>8 DEF Enter
    <2> HIDE DEF r
    <2>4. /\ pc[p] \notin Waiting /\ pc'[p] \in Waiting /\ Queue(p)' = Queue(p)
          /\ \A q \in Queues : queue'[q] = IF q = Queue(p) THEN r ELSE queue[q]
        BY <1>8, <2>3 DEF Enter, Goto, Types, Waiting, Queue
    <2>5. QED
        BY <1>1, <2>2, <2>4, QueueName DEF Queued
<1>9. CASE Leave(p)
    <2> DEFINE s == queue[Queue(p)]
               r == remove_wait_queue(s, p)
    <2>1. s \in Seq(Entry) /\ Ordered(s) /\ OnQueue(s, p)
        BY <1>9, QueueName DEF Leave, Queued, Types, Waiting
    <2>2. Ordered(r) /\ \A x : OnQueue(r, x) <=> x # p /\ OnQueue(s, x)
        BY <2>1, LeaveQueue
    <2>3. queue' = [queue EXCEPT ![Queue(p)] = r]
        BY <1>9 DEF Leave
    <2> HIDE DEF r
    <2>4. /\ pc[p] \in Waiting /\ pc'[p] \notin Waiting
          /\ \A q \in Queues : queue'[q] = IF q = Queue(p) THEN r ELSE queue[q]
        BY <1>9, <2>3 DEF Leave, Goto, Types, Waiting
    <2>5. QED
        BY <1>1, <2>2, <2>4, QueueName DEF Queued
<1>10. QED
    BY <1>4, <1>5, <1>6, <1>7, <1>8, <1>9 DEF Step, Steps
-----------------------------------------------------------------------------
(* The rules of the lock in every step.                                    *)

LEMMA SubType == Types => Sub \in SUBSET Procs
BY DEF Sub

\* A step that neither adds nor subtracts, makes no token and takes none.
LEMMA RulesKeep ==
    ASSUME CountExact, Rules, count' = count, granted' = granted,
           Sub' = Sub, Active' = Active, Owners' = Owners,
           \A q \in Procs : pc'[q] = pc[q] \/ (pc'[q] \notin Granting /\ pc[q] \notin Granting)
    PROVE  CountExact' /\ Rules'
<1>1. CountExact'
    BY DEF CountExact, Value
<1>2. ASSUME NEW k \in Kinds PROVE Pending(k)' = Pending(k)
    BY DEF Pending, GrantAt, Granting
<1>3. OneToken'
    BY DEF Rules, OneToken
<1>4. QED
    BY <1>1, <1>2, <1>3 DEF Rules, Kinds

LEMMA RulesSubtract ==
    ASSUME Types, CountExact, Rules, NEW p \in Procs, DownCall(p) \/ DownRetry(p)
    PROVE  CountExact' /\ Rules'
<1>1. pc[p] \in {"idle", "retry"} /\ Subtract(p) /\ p \notin biased
    BY DEF DownCall, DownRetry, Types, Waiting
<1>2. \A q \in Procs : q # p => pc'[q] = pc[q] /\ (q \in biased' <=> q \in biased)
    BY <1>1 DEF Subtract, Goto, Types
<1>3. /\ count' = count - Amount(p) /\ granted' = granted
      /\ pc'[p] \in {"held", "enter", "failed"} /\ (p \in biased' <=> pc'[p] = "enter")
      /\ biased' \subseteq Procs
    BY <1>1 DEF Subtract, Goto, Types
<1>4. p \notin Sub /\ Sub' = Sub \cup {p} /\ p \notin Active /\ p \notin Owners
    BY <1>1, <1>2, <1>3 DEF Sub, Has, Active, Owners
<1>5. Sub \in SUBSET Procs /\ count = Value(Sub)
    BY SubType DEF CountExact
<1>6. CountExact'
    BY <1>3, <1>4, <1>5, ValueAdd DEF CountExact, Value
<1>7. ASSUME NEW k \in Kinds PROVE Pending(k)' = Pending(k)
    BY <1>1, <1>2, <1>3 DEF Pending, GrantAt
<1>8. OneToken'
    BY <1>2, <1>3 DEF Rules, OneToken, Granting
<1>9. Fair(Sub, Active, Owners, Pending("read"), Pending("write"))
    BY DEF Rules
<1>10. SUFFICES Fair(Sub \cup {p}, Active', Owners', Pending("read"), Pending("write"))
    BY <1>4, <1>6, <1>7, <1>8 DEF Rules, Kinds
<1>11. /\ Value(Sub) < 0 <=> Contended(Sub)
       /\ Value(Sub) > 0 <=> Sub \cap Writers = {}
       /\ Value(Sub) = 0 <=> \E x \in Writers : Sub = {x}
       /\ Value(Sub) = BIAS <=> Sub = {}
       /\ Value(Sub) \in Int /\ Value(Sub) <= BIAS
    BY <1>5, SignCases, ValueSign
<1>12. BIAS \in Nat /\ BIAS > 0
    BY BiasType
<1>13. CASE pc'[p] = "held"
    <2>1. Active' = Active \cup {p} /\ Owners' = Owners
        BY <1>1, <1>2, <1>3, <1>13 DEF Active, Owners, Has, Types
    <2>2. Got(p, count - Amount(p))
        BY <1>1, <1>13 DEF Subtract, Goto, Types
    <2>3. (p \in Readers /\ Sub \cap Writers = {}) \/ (p \in Writers /\ Sub = {})
        <3>1. CASE p \in Readers
            BY <1>5, <1>11, <1>12, <2>2, <3>1 DEF Got, Amount
        <3>2. CASE p \in Writers
            <4>1. count - BIAS = 0
                BY <2>2, <3>2, Disjoint DEF Got, Amount
            <4>2. QED
                BY <1>5, <1>11, <1>12, <3>2, <4>1
        <3>3. QED
            BY <3>1, <3>2 DEF Procs
    <2>4. QED
        BY <1>4, <1>9, <2>1, <2>3, FairGot
<1>14. CASE pc'[p] = "enter"
    <2>1. Active' = Active /\ Owners' = Owners \cup {p}
        BY <1>1, <1>2, <1>3, <1>14 DEF Active, Owners, Has, Types
    <2>2. ~Got(p, count - Amount(p)) /\ Borrow(count, Amount(p))
        BY <1>1, <1>14 DEF Subtract, Goto, Types
    <2>3. ~Contended(Sub) /\ Sub # {}
          /\ (p \in Writers \/ (p \in Readers /\ \E x \in Writers : Sub = {x}))
        <3>1. CASE p \in Readers
            <4>1. count = 0
                BY <1>5, <1>11, <2>2, <3>1 DEF Borrow, Amount
            <4>2. QED
                BY <1>5, <1>11, <1>12, <3>1, <4>1
        <3>2. CASE p \in Writers
            <4>1. count >= 0 /\ count < BIAS
                BY <1>5, <1>11, <2>2, <3>2, Disjoint DEF Borrow, Amount
            <4>2. QED
                BY <1>5, <1>11, <1>12, <3>2, <4>1
        <3>3. QED
            BY <3>1, <3>2 DEF Procs
    <2>4. QED
        BY <1>4, <1>9, <2>1, <2>3, FairBias
<1>15. CASE pc'[p] = "failed"
    <2>1. Active' = Active /\ Owners' = Owners
        BY <1>1, <1>2, <1>3, <1>15 DEF Active, Owners, Has, Types
    <2>2. ~Got(p, count - Amount(p)) /\ ~Borrow(count, Amount(p))
        BY <1>1, <1>15 DEF Subtract, Goto, Types
    <2>3. Contended(Sub)
        <3>1. CASE p \in Readers
            BY <1>5, <1>11, <1>12, <2>2, <3>1 DEF Got, Borrow, Amount
        <3>2. CASE p \in Writers
            <4>1. count - BIAS # 0 /\ ~(0 <= count /\ count < BIAS)
                BY <2>2, <3>2, Disjoint DEF Got, Borrow, Amount
            <4>2. QED
                BY <1>5, <1>11, <1>12, <4>1
        <3>3. QED
            BY <3>1, <3>2 DEF Procs
    <2>4. QED
        BY <1>9, <2>1, <2>3, FairFail
<1>16. QED
    BY <1>3, <1>13, <1>14, <1>15
\* up_read, up_write and the addition of a slow path: what they do to the sets, and
\* that they make a grant exactly when count stops being negative.
Adds(p) ==
    /\ p \in Sub /\ p \notin Owners
    /\ Sub' = Sub \ {p} /\ Active' = Active \ {p} /\ Owners' = Owners
    /\ granted' = granted /\ \A q \in Procs : q # p => pc'[q] = pc[q]
    /\ pc[p] \notin Granting
    /\ \/ /\ Contended(Sub \ {p}) <=> Contended(Sub)
          /\ pc'[p] \notin Granting
       \/ /\ Contended(Sub) /\ \E x \in Writers : Sub \ {p} = {x}
          /\ pc'[p] = "grant_write"
       \/ /\ Contended(Sub) /\ (Sub \ {p}) \cap Writers = {}
          /\ pc'[p] = "grant_read"

LEMMA AddEffect ==
    ASSUME Types, CountExact, NEW p \in Procs, Up(p) \/ DownFailed(p)
    PROVE  CountExact' /\ Adds(p)
<1>1. PICK next \in {"idle", "enter"} : Add(p, next)
    BY DEF Up, DownFailed
<1>2. pc[p] \in {"held", "failed"} /\ p \notin biased
    BY DEF Up, DownFailed, Types, Waiting
<1>3. /\ \A q \in Procs : q # p => pc'[q] = pc[q]
      /\ biased' = biased /\ granted' = granted /\ count' = count + Amount(p)
      /\ pc'[p] = IF UpWakes(p) THEN IF count + Amount(p) = 0 THEN "grant_write" ELSE "grant_read"
                  ELSE next
    BY <1>1 DEF Add, Goto, Types
<1>4. pc'[p] \in {"idle", "enter", "grant_write", "grant_read"}
    BY <1>3
<1>5. /\ p \in Sub /\ Sub' = Sub \ {p} /\ Active' = Active \ {p}
      /\ p \notin Owners /\ Owners' = Owners
    BY <1>2, <1>3, <1>4 DEF Sub, Active, Owners, Has, Types
<1>6. Sub \in SUBSET Procs /\ Sub \ {p} \in SUBSET Procs /\ count = Value(Sub)
    BY SubType DEF CountExact
<1>7. Value(Sub \ {p}) = count + Amount(p)
    BY <1>5, <1>6, ValueRemove
<1>8. CountExact'
    BY <1>3, <1>5, <1>7 DEF CountExact, Value
<1>9. /\ count < 0 <=> Contended(Sub)
      /\ count + Amount(p) < 0 <=> Contended(Sub \ {p})
      /\ count + Amount(p) > 0 <=> (Sub \ {p}) \cap Writers = {}
      /\ count + Amount(p) = 0 <=> \E x \in Writers : Sub \ {p} = {x}
    BY <1>6, <1>7, SignCases
<1>10. count \in Int /\ BIAS \in Nat /\ BIAS > 0
    BY BiasType DEF Types
<1>11. UpWakes(p) <=> count < 0 /\ ~(count + Amount(p) < 0)
    <2>1. CASE p \in Readers
        BY <1>10, <2>1 DEF UpWakes, Amount
    <2>2. CASE p \notin Readers
        BY <1>10, <2>2 DEF UpWakes, Amount
    <2>3. QED
        BY <2>1, <2>2
<1>12. Amount(p) \in Nat
    BY <1>10 DEF Amount
<1>13. CASE UpWakes(p)
    <2>1. Contended(Sub) /\ ~(count + Amount(p) < 0)
        BY <1>9, <1>11, <1>13
    <2>2. CASE count + Amount(p) = 0
        BY <1>2, <1>3, <1>5, <1>8, <1>9, <1>13, <2>1, <2>2 DEF Adds, Granting
    <2>3. CASE count + Amount(p) > 0
        BY <1>2, <1>3, <1>5, <1>8, <1>9, <1>13, <2>1, <2>3 DEF Adds, Granting
    <2>4. QED
        BY <1>10, <1>12, <2>1, <2>2, <2>3
<1>14. CASE ~UpWakes(p)
    <2>1. Contended(Sub \ {p}) => Contended(Sub)
        BY DEF Contended
    <2>2. pc'[p] \notin Granting
        BY <1>3, <1>14 DEF Granting
    <2>3. QED
        BY <1>2, <1>3, <1>5, <1>8, <1>9, <1>11, <1>14, <2>1, <2>2 DEF Adds, Granting
<1>15. QED
    BY <1>13, <1>14

LEMMA RulesAdd ==
    ASSUME Types, Rules, NEW p \in Procs, Adds(p)
    PROVE  Rules'
<1>1. Fair(Sub, Active, Owners, Pending("read"), Pending("write"))
    BY DEF Rules
<1>2. CASE (Contended(Sub \ {p}) <=> Contended(Sub)) /\ pc'[p] \notin Granting
    <2>1. ASSUME NEW k \in Kinds PROVE Pending(k)' = Pending(k)
        BY <1>2 DEF Pending, GrantAt, Granting, Adds
    <2>2. OneToken'
        BY <1>2 DEF Rules, OneToken, Adds
    <2>3. Fair(Sub \ {p}, Active \ {p}, Owners, Pending("read"), Pending("write"))
        BY <1>1, <1>2, FairAdd DEF Adds
    <2>4. QED
        BY <2>1, <2>2, <2>3 DEF Rules, Kinds, Adds
<1>3. ASSUME Contended(Sub), ~Contended(Sub \ {p}), pc'[p] \in Granting
      PROVE  OneToken'
    <2>1. ~Pending("read") /\ ~Pending("write")
        BY <1>1, <1>3, NoTokenBefore DEF Adds
    <2>2. ~granted["read"] /\ ~granted["write"] /\ \A q \in Procs : pc[q] \notin Granting
        BY <2>1 DEF Pending, GrantAt, Granting
    <2>3. QED
        BY <2>2 DEF OneToken, Adds
<1>4. CASE Contended(Sub) /\ (\E x \in Writers : Sub \ {p} = {x}) /\ pc'[p] = "grant_write"
    <2>1. ~Contended(Sub \ {p})
        BY <1>4 DEF Contended
    <2>2. OneToken'
        BY <1>3, <1>4, <2>1 DEF Granting
    <2>3. Fair(Sub \ {p}, Active \ {p}, Owners, Pending("read"), TRUE)
        BY <1>1, <1>4, FairAddWrite DEF Adds
    <2>4. Pending("read")' = Pending("read") /\ Pending("write")' = TRUE
        BY <1>4 DEF Pending, GrantAt, Granting, Adds
    <2>5. QED
        BY <2>2, <2>3, <2>4 DEF Rules, Adds
<1>5. CASE Contended(Sub) /\ (Sub \ {p}) \cap Writers = {} /\ pc'[p] = "grant_read"
    <2>1. ~Contended(Sub \ {p})
        BY <1>5 DEF Contended
    <2>2. OneToken'
        BY <1>3, <1>5, <2>1 DEF Granting
    <2>3. Fair(Sub \ {p}, Active \ {p}, Owners, TRUE, Pending("write"))
        BY <1>1, <1>5, FairAddRead DEF Adds
    <2>4. Pending("write")' = Pending("write") /\ Pending("read")' = TRUE
        BY <1>5 DEF Pending, GrantAt, Granting, Adds
    <2>5. QED
        BY <2>2, <2>3, <2>4 DEF Rules, Adds
<1>6. QED
    BY <1>2, <1>4, <1>5 DEF Adds

LEMMA RulesGrant ==
    ASSUME Types, CountExact, Rules, NEW p \in Procs, NEW k \in Kinds, Grant(p, k)
    PROVE  CountExact' /\ Rules'
<1>1. /\ pc[p] = GrantAt(k) /\ pc[p] \in Granting /\ p \notin biased
      /\ pc'[p] = WakeAt(k) /\ pc'[p] \notin Granting /\ ~Has(p)
      /\ \A q \in Procs : q # p => pc'[q] = pc[q]
      /\ biased' = biased /\ count' = count
      /\ granted' = [granted EXCEPT ![k] = TRUE]
    BY DEF Grant, Goto, GrantAt, WakeAt, Granting, Kinds, Types, Waiting, Has
<1>2. Sub' = Sub /\ Active' = Active /\ Owners' = Owners
    BY <1>1 DEF Sub, Active, Owners, Has, WakeAt, Granting, Types
<1>3. \A q \in Procs : pc'[q] \notin Granting
    BY <1>1 DEF Rules, OneToken
<1>4. \A l \in Kinds : granted'[l] = (l = k) /\ granted[l] = FALSE
    BY <1>1 DEF Rules, OneToken, Types, Kinds
<1>5. \A q \in Procs : pc[q] \in Granting => q = p
    BY <1>1 DEF Rules, OneToken
<1>6. \A l \in Kinds : Pending(l)' = (l = k) /\ Pending(l) = (l = k)
    <2>1. SUFFICES ASSUME NEW l \in Kinds PROVE Pending(l)' = (l = k) /\ Pending(l) = (l = k)
        OBVIOUS
    <2>2. Pending(l)' = (l = k)
        BY <1>3, <1>4 DEF Pending, GrantAt, Granting
    <2>3. Pending(l) = (l = k)
        BY <1>1, <1>4, <1>5 DEF Pending, GrantAt, Granting, Kinds
    <2>4. QED
        BY <2>2, <2>3
<1>7. OneToken'
    BY <1>3 DEF OneToken
<1>8. CountExact'
    BY <1>1, <1>2 DEF CountExact, Value
<1>9. QED
    BY <1>2, <1>6, <1>7, <1>8 DEF Rules, Kinds

LEMMA RulesTest ==
    ASSUME Types, CountExact, Rules, NEW p \in Procs, Test(p)
    PROVE  CountExact' /\ Rules'
<1>1. /\ pc[p] = "test" /\ pc'[p] = "leave" /\ biased' = biased /\ count' = count
      /\ \A q \in Procs : q # p => pc'[q] = pc[q]
    BY DEF Test, Goto, Types
<1>2. Sub' = Sub
    BY <1>1 DEF Sub, Has
<1>3. CASE p \notin biased
    <2>1. Active' = Active /\ Owners' = Owners /\ granted' = granted
        BY <1>1, <1>3 DEF Active, Owners, Has, Types, Test
    <2>2. QED
        BY <1>1, <1>2, <2>1, RulesKeep DEF Granting
<1>4. CASE p \in biased
    <2>1. /\ granted[Kind(p)] /\ granted' = [granted EXCEPT ![Kind(p)] = FALSE] /\ Kind(p) \in Kinds
        BY <1>4 DEF Test, Kind, Kinds
    <2>2. \A q \in Procs : pc[q] \notin Granting
        BY <2>1 DEF Rules, OneToken, Kinds
    <2>3. \A q \in Procs : pc'[q] \notin Granting
        BY <1>1, <2>2 DEF Granting
    <2>4. /\ \A l \in Kinds : Pending(l) = granted[l]
          /\ \A l \in Kinds : Pending(l)' = IF l = Kind(p) THEN FALSE ELSE granted[l]
        BY <2>1, <2>2, <2>3 DEF Pending, GrantAt, Granting, Types
    <2>5. Active' = Active \cup {p} /\ Owners' = Owners \ {p} /\ p \in Owners
        BY <1>1, <1>4 DEF Active, Owners, Has, Types
    <2>6. OneToken' /\ CountExact'
        BY <1>1, <1>2, <2>3 DEF OneToken, CountExact, Value
    <2>7. Fair(Sub, Active, Owners, Pending("read"), Pending("write"))
        BY DEF Rules
    <2>8. CASE p \in Writers
        <3>1. Kind(p) = "write"
            BY <2>8, Disjoint DEF Kind
        <3>2. Pending("write") = TRUE /\ Pending("write")' = FALSE /\ Pending("read")' = Pending("read")
            <4>1. granted["write"] = TRUE
                BY <2>1, <3>1 DEF Kinds, Types
            <4>2. "read" \in Kinds /\ "write" \in Kinds /\ "read" # "write"
                BY DEF Kinds
            <4>3. QED
                BY <2>4, <3>1, <4>1, <4>2
        <3>3. Fair(Sub, Active, Owners, Pending("read"), TRUE)
            BY <2>7, <3>2
        <3>4. Fair(Sub, Active \cup {p}, Owners \ {p}, Pending("read"), FALSE)
            BY <2>5, <2>8, <3>3, FairTakeWrite
        <3>5. QED
            BY <1>2, <2>5, <2>6, <3>2, <3>4 DEF Rules
    <2>9. CASE p \in Readers
        <3>1. Kind(p) = "read"
            BY <2>9 DEF Kind
        <3>2. Pending("read") = TRUE /\ Pending("read")' = FALSE /\ Pending("write")' = Pending("write")
            <4>1. granted["read"] = TRUE
                BY <2>1, <3>1 DEF Kinds, Types
            <4>2. "read" \in Kinds /\ "write" \in Kinds /\ "read" # "write"
                BY DEF Kinds
            <4>3. QED
                BY <2>4, <3>1, <4>1, <4>2
        <3>3. Fair(Sub, Active, Owners, TRUE, Pending("write"))
            BY <2>7, <3>2
        <3>4. Fair(Sub, Active \cup {p}, Owners \ {p}, FALSE, Pending("write"))
            BY <2>5, <2>9, <3>3, FairTakeRead
        <3>5. QED
            BY <1>2, <2>5, <2>6, <3>2, <3>4 DEF Rules
    <2>10. QED
        BY <2>8, <2>9 DEF Procs
<1>5. QED
    BY <1>3, <1>4

LEMMA RulesStep ==
    ASSUME Types, CountExact, Rules, NEW p \in Procs, Step(p)
    PROVE  CountExact' /\ Rules'
<1>1. CASE DownCall(p) \/ DownRetry(p)
    BY <1>1, RulesSubtract
<1>2. CASE Up(p) \/ DownFailed(p)
    BY <1>2, AddEffect, RulesAdd
<1>3. CASE \E k \in {"read", "write"} : Grant(p, k)
    BY <1>3, RulesGrant DEF Kinds
<1>4. CASE Test(p)
    BY <1>4, RulesTest
<1>5. CASE \E k \in {"read", "write"} : WakeGranted(p, k)
    <2>1. /\ pc[p] \in {"wake_read", "wake_write"} /\ pc'[p] \in {"idle", "enter"} /\ p \notin biased
          /\ \A q \in Procs : q # p => pc'[q] = pc[q]
          /\ count' = count /\ granted' = granted /\ biased' = biased
        BY <1>5 DEF WakeGranted, WakeAt, Goto, Types, Waiting
    <2>2. Sub' = Sub /\ Active' = Active /\ Owners' = Owners
        BY <2>1 DEF Sub, Active, Owners, Has, Types
    <2>3. QED
        BY <2>1, <2>2, RulesKeep DEF Granting
<1>6. CASE Enter(p) \/ TestFails(p) \/ SetState(p) \/ Schedule(p)
    <2>1. /\ pc[p] \in {"enter", "test", "set_state", "schedule"}
          /\ pc'[p] \in {"test", "set_state", "retest"}
          /\ \A q \in Procs : q # p => pc'[q] = pc[q]
          /\ count' = count /\ granted' = granted /\ biased' = biased
        BY <1>6 DEF Enter, TestFails, SetState, Schedule, Goto, Types
    <2>2. Sub' = Sub /\ Active' = Active /\ Owners' = Owners
        BY <2>1 DEF Sub, Active, Owners, Has, Types
    <2>3. QED
        BY <2>1, <2>2, RulesKeep DEF Granting
<1>7. CASE Retest(p)
    <2>1. /\ pc[p] = "retest" /\ pc'[p] \in {"schedule", "test", "leave"}
          /\ p \in biased => pc'[p] # "leave"
          /\ \A q \in Procs : q # p => pc'[q] = pc[q]
          /\ count' = count /\ granted' = granted /\ biased' = biased
        BY <1>7 DEF Retest, Goto, Types
    <2>2. Sub' = Sub /\ Active' = Active /\ Owners' = Owners
        BY <2>1 DEF Sub, Active, Owners, Has, Types
    <2>3. QED
        BY <2>1, <2>2, RulesKeep DEF Granting
<1>8. CASE Leave(p)
    <2>1. /\ pc[p] = "leave" /\ (p \in biased <=> pc'[p] \in {"held", "pass_on"})
          /\ pc'[p] \in {"retry", "held", "pass_on"}
          /\ \A q \in Procs : q # p => pc'[q] = pc[q]
          /\ count' = count /\ granted' = granted /\ biased' = biased \ {p}
        BY <1>8 DEF Leave, Goto, Types
    <2>2. Sub' = Sub /\ Active' = Active /\ Owners' = Owners
        BY <2>1 DEF Sub, Active, Owners, Has, Types
    <2>3. QED
        BY <2>1, <2>2, RulesKeep DEF Granting
<1>9. CASE PassOn(p) \/ PassWake(p)
    <2>1. /\ pc[p] \in {"pass_on", "pass_wake"} /\ pc'[p] \in {"pass_wake", "held"}
          /\ \A q \in Procs : q # p => pc'[q] = pc[q]
          /\ count' = count /\ granted' = granted /\ biased' = biased
        BY <1>9 DEF PassOn, PassWake, Goto, Types
    <2>2. Sub' = Sub /\ Active' = Active /\ Owners' = Owners
        BY <2>1 DEF Sub, Active, Owners, Has, Types
    <2>3. QED
        BY <2>1, <2>2, RulesKeep DEF Granting
<1>10. QED
    BY <1>1, <1>2, <1>3, <1>4, <1>5, <1>6, <1>7, <1>8, <1>9 DEF Step, Steps
-----------------------------------------------------------------------------
(* Grants are seen.                                                        *)

\* The wake-up after a grant finds an owner of the bias of that kind.
LEMMA WakeFinds ==
    ASSUME Types, Rules, Queued, NEW p \in Procs, NEW k \in Kinds, WakeGranted(p, k), granted[k]
    PROVE  \E q \in Owners : Kind(q) = k /\ ~Sleeping(q)' /\ q \in Owners'
<1>1. /\ pc[p] = WakeAt(k) /\ biased' = biased /\ \A q \in Procs : q # p => pc'[q] = pc[q]
      /\ p \notin biased
      /\ state' = wake_up(queue[IF k = "read" THEN "wait" ELSE "write_bias_wait"], state)
    BY DEF WakeGranted, WakeAt, Goto, Types, Waiting
<1>2. \A q \in Owners : q \in Procs /\ q # p /\ q \in Owners' /\ pc'[q] = pc[q]
    BY <1>1 DEF Owners, Types
<1>3. Pending(k) /\ Fair(Sub, Active, Owners, Pending("read"), Pending("write"))
    BY DEF Pending, Rules
<1>4. state \in [Procs -> States] /\ \A q \in Queues : queue[q] \in Seq(Entry) /\ Ordered(queue[q])
    BY DEF Types, States, Queued
<1>5. CASE k = "read"
    <2>1. PICK b \in Owners : b \in Readers
        BY <1>3, <1>5 DEF Fair
    <2>2. Kind(b) = "read"
        BY <2>1 DEF Kind
    <2>3. CASE pc[b] = "enter"
        BY <1>2, <1>5, <2>1, <2>2, <2>3 DEF Sleeping
    <2>4. CASE pc[b] # "enter"
        <3>1. pc[b] \in Waiting /\ Queue(b) = "wait"
            BY <2>1, <2>4, Disjoint DEF Owners, Types, Queue
        <3>2. OnQueue(queue["wait"], b)
            BY <1>2, <3>1 DEF Queued, Queues
        <3>3. state'[b] = TASK_RUNNING
            BY <1>1, <1>4, <1>5, <2>1, <3>2, WakeReaders DEF Queues
        <3>4. QED
            BY <1>2, <1>5, <2>1, <2>2, <3>3 DEF Sleeping
    <2>5. QED
        BY <2>3, <2>4
<1>6. CASE k = "write"
    <2>1. Active = {} /\ \E b \in Owners : b \in Writers
        BY <1>3, <1>6 DEF Fair
    <2>2. PICK b \in Owners : b \in Writers
        BY <2>1
    <2>3. CASE pc[b] = "enter"
        BY <1>2, <1>6, <2>2, <2>3, Disjoint DEF Sleeping, Kind
    <2>4. CASE pc[b] # "enter"
        <3>1. pc[b] \in Waiting /\ Queue(b) = "write_bias_wait" /\ b \in Procs
            BY <2>2, <2>4 DEF Owners, Types, Queue
        <3>2. OnQueue(queue["write_bias_wait"], b)
            BY <3>1 DEF Queued, Queues
        <3>3. PICK t \in Procs : OnQueue(queue["write_bias_wait"], t) /\ state'[t] = TASK_RUNNING
            BY <1>1, <1>4, <1>6, <3>1, <3>2, WakeOne DEF Queues
        <3>4. pc[t] \in Waiting /\ Queue(t) = "write_bias_wait"
            BY <3>3 DEF Queued, Queues
        <3>5. t \in biased /\ t \in Writers
            BY <3>4 DEF Queue
        <3>6. t \in Owners
            BY <2>1, <3>5 DEF Owners, Active
        <3>7. QED
            BY <1>2, <1>6, <3>3, <3>5, <3>6, Disjoint DEF Sleeping, Kind
    <2>5. QED
        BY <2>3, <2>4
<1>7. QED
    BY <1>5, <1>6 DEF Kinds

\* An owner of the bias that is awake stays so while there is a grant for it.
LEMMA OwnerAwake ==
    ASSUME Types, NEW p \in Procs, Step(p), NEW q \in Owners,
           ~Sleeping(q), granted[Kind(q)], granted'[Kind(q)]
    PROVE  q \in Owners' /\ ~Sleeping(q)'
<1>1. q \in Procs /\ q \in biased /\ pc[q] # "leave" /\ pc[q] \in Waiting \cup {"enter"}
    BY DEF Owners, Types
<1>2. CASE q # p
    BY <1>1, <1>2, Frame DEF Owners, Sleeping
<1>3. CASE q = p
    <2>1. Enter(q) \/ Test(q) \/ TestFails(q) \/ SetState(q) \/ Retest(q) \/ Schedule(q)
        BY <1>1, <1>3
        DEF Step, Steps, DownCall, DownRetry, Up, DownFailed, Grant, WakeGranted, Leave,
            PassOn, PassWake, GrantAt, WakeAt, Waiting
    <2>2. ~Test(q) /\ ~TestFails(q)
        BY <1>1 DEF Test, TestFails, Ready, Types, Kind, Kinds
    <2>3. biased' = biased /\ pc'[q] \in {"test", "retest"}
        BY <1>1, <2>1, <2>2 DEF Enter, SetState, Retest, Schedule, Ready, Goto, Types
    <2>4. QED
        BY <1>1, <2>3 DEF Owners, Sleeping
<1>4. QED
    BY <1>2, <1>3

\* The flags are set by Grant only.
LEMMA GrantedBy ==
    ASSUME Types, NEW p \in Procs, Step(p), NEW k \in Kinds, granted'[k], ~granted[k]
    PROVE  pc'[p] = WakeAt(k)
<1>1. CASE \E l \in {"read", "write"} : Grant(p, l)
    <2>1. PICK l \in Kinds : Grant(p, l)
        BY <1>1 DEF Kinds
    <2>2. l = k
        BY <2>1 DEF Grant, Types
    <2>3. QED
        BY <2>1, <2>2 DEF Grant, Goto, Types
<1>2. CASE Test(p)
    BY <1>2 DEF Test, Types
<1>3. CASE ~(\E l \in {"read", "write"} : Grant(p, l)) /\ ~Test(p)
    <2>1. granted' = granted
        BY <1>3 DEF Step, Steps, DownCall, DownRetry, Subtract, Up, DownFailed, Add, WakeGranted,
                    Enter, TestFails, SetState, Retest, Schedule, Leave, PassOn, PassWake
    <2>2. QED
        BY <2>1
<1>4. QED
    BY <1>1, <1>2, <1>3

LEMMA GrantSeenStep ==
    ASSUME Types, Rules, Queued, GrantSeen, NEW p \in Procs, Step(p)
    PROVE  GrantSeen'
<1>1. SUFFICES ASSUME NEW k \in Kinds, granted'[k]
               PROVE  \/ \E q \in Procs : pc'[q] = WakeAt(k)
                      \/ \E q \in Owners' : Kind(q) = k /\ ~Sleeping(q)'
    BY DEF GrantSeen, Kind
<1>2. CASE ~granted[k]
    BY <1>1, <1>2, GrantedBy
<1>3. CASE granted[k] /\ \E q \in Owners : Kind(q) = k /\ ~Sleeping(q)
    BY <1>1, <1>3, OwnerAwake
<1>4. CASE granted[k] /\ \E q \in Procs : pc[q] = WakeAt(k)
    <2>1. PICK q \in Procs : pc[q] = WakeAt(k)
        BY <1>4
    <2>2. CASE q # p
        BY <2>1, <2>2, Frame
    <2>3. CASE q = p
        <3>1. WakeGranted(p, k)
            BY <2>1, <2>3
            DEF Step, Steps, DownCall, DownRetry, Up, DownFailed, Grant, WakeGranted, Enter, Test,
                TestFails, SetState, Retest, Schedule, Leave, PassOn, PassWake, GrantAt, WakeAt, Kinds
        <3>2. QED
            BY <1>4, <3>1, WakeFinds
    <2>4. QED
        BY <2>2, <2>3
<1>5. QED
    BY <1>2, <1>3, <1>4 DEF GrantSeen

-----------------------------------------------------------------------------
(* Readers are woken.                                                      *)

Waker(q) == \/ pc[q] \in {"grant_read", "wake_read", "pass_on", "pass_wake"}
            \/ q \in biased \cap Writers /\ pc[q] = "leave"

\* wake_up of the queue wait leaves no reader asleep that waits without the bias.
LEMMA ReaderOnWait ==
    ASSUME Types, Queued, NEW r \in Readers, Sleeping(r),
           state' = wake_up(queue["wait"], state)
    PROVE  state'[r] = TASK_RUNNING
<1>1. r \in Procs /\ pc[r] \in Waiting /\ Queue(r) = "wait"
    BY Disjoint DEF Sleeping, Waiting, Queue, Procs
<1>2. OnQueue(queue["wait"], r)
    BY <1>1 DEF Queued, Queues
<1>3. queue["wait"] \in Seq(Entry) /\ Ordered(queue["wait"]) /\ state \in [Procs -> States]
    BY DEF Types, Queued, Queues, States
<1>4. QED
    BY <1>2, <1>3, WakeReaders

\* A reader only goes to sleep while count is negative.
LEMMA GoesToSleep ==
    ASSUME Types, CountExact, NEW p \in Procs, Step(p), NEW r \in Readers, r \notin biased',
           Sleeping(r)', ~Contended(Sub')
    PROVE  Sleeping(r) /\ r \notin biased
<1>1. r \in Procs
    BY DEF Procs
<1>2. CASE r # p
    BY <1>1, <1>2, Frame DEF Sleeping
<1>3. CASE r = p
    <2>1. pc'[p] = "schedule" /\ state'[p] # TASK_RUNNING
        BY <1>3 DEF Sleeping
    <2>2. Retest(p)
        BY <2>1
        DEF Step, Steps, DownCall, DownRetry, Subtract, Up, DownFailed, Add, Grant, WakeGranted,
            Enter, Test, TestFails, SetState, Schedule, Leave, PassOn, PassWake, GrantAt, WakeAt,
            Goto, Types
    <2>3. biased' = biased /\ ~Ready(p) /\ pc[p] = "retest" /\ \A q \in Procs : q # p => pc'[q] = pc[q]
        BY <2>1, <2>2 DEF Retest, Goto, Types
    <2>4. Sub' = Sub
        BY <2>1, <2>3 DEF Sub, Has
    <2>5. Value(Sub) < 0
        BY <1>3, <2>3 DEF Ready, CountExact, Types
    <2>6. QED
        BY <2>4, <2>5, SubType, SignCases
<1>4. QED
    BY <1>2, <1>3

LEMMA ReadersWokenStep ==
    ASSUME Types, CountExact, Rules, Queued, ReadersWoken, NEW p \in Procs, Step(p)
    PROVE  ReadersWoken'
<1>1. SUFFICES ASSUME NEW r \in Readers, r \notin biased', Sleeping(r)', ~Contended(Sub')
               PROVE  Pending("write")' \/ \E q \in Procs : Waker(q)'
    BY DEF ReadersWoken, Waker
<1>2. Sleeping(r) /\ r \notin biased /\ r \in Procs
    BY <1>1, GoesToSleep DEF Procs
<1>3. CASE Contended(Sub)
    <2>1. CASE Up(p) \/ DownFailed(p)
        <3>1. pc'[p] \in {"grant_write", "grant_read"}
            BY <1>1, <1>3, <2>1, AddEffect DEF Adds
        <3>2. QED
            BY <3>1 DEF Pending, GrantAt, Waker
    <2>2. CASE ~(Up(p) \/ DownFailed(p))
        <3>1. p \in Sub => p \in Sub'
            BY <2>2
            DEF Step, Steps, DownCall, DownRetry, Subtract, Up, DownFailed, Grant, WakeGranted, Enter,
                Test, TestFails, SetState, Retest, Schedule, Leave, PassOn, PassWake, GrantAt, WakeAt,
                Goto, Types, Sub, Has
        <3>2. \A q \in Procs \ {p} : q \in Sub <=> q \in Sub'
            BY Frame DEF Sub, Has
        <3>3. Sub \subseteq Sub'
            BY <3>1, <3>2, SubType
        <3>4. QED
            BY <1>1, <1>3, <3>3 DEF Contended
    <2>3. QED
        BY <2>1, <2>2
<1>4. CASE ~Contended(Sub) /\ \E q \in Procs : Waker(q)
    <2>1. PICK q \in Procs : Waker(q)
        BY <1>4
    <2>2. CASE q # p
        BY <2>1, <2>2, Frame DEF Waker
    <2>3. CASE q = p /\ pc[p] = "grant_read"
        <3>1. Grant(p, "read")
            BY <2>3
            DEF Step, Steps, DownCall, DownRetry, Up, DownFailed, Grant, WakeGranted, Enter, Test,
                TestFails, SetState, Retest, Schedule, Leave, PassOn, PassWake, GrantAt, WakeAt
        <3>2. QED
            BY <3>1 DEF Grant, WakeAt, Goto, Types, Waker
    <2>4. CASE q = p /\ pc[p] \in {"wake_read", "pass_wake"}
        <3>1. WakeGranted(p, "read") \/ PassWake(p)
            BY <2>4
            DEF Step, Steps, DownCall, DownRetry, Up, DownFailed, Grant, WakeGranted, Enter, Test,
                TestFails, SetState, Retest, Schedule, Leave, PassOn, PassWake, GrantAt, WakeAt
        <3>2. state' = wake_up(queue["wait"], state)
            BY <3>1 DEF WakeGranted, PassWake
        <3>3. QED
            BY <1>1, <1>2, <3>2, ReaderOnWait DEF Sleeping
    <2>5. CASE q = p /\ pc[p] = "pass_on"
        <3>1. PassOn(p)
            BY <2>5
            DEF Step, Steps, DownCall, DownRetry, Up, DownFailed, Grant, WakeGranted, Enter, Test,
                TestFails, SetState, Retest, Schedule, Leave, PassOn, PassWake, GrantAt, WakeAt
        <3>2. count >= 0
            BY <1>4, SubType, SignCases DEF CountExact, Types
        <3>3. QED
            BY <3>1, <3>2 DEF PassOn, Goto, Types, Waker
    <2>6. CASE q = p /\ p \in biased \cap Writers /\ pc[p] = "leave"
        <3>1. Leave(p)
            BY <2>6
            DEF Step, Steps, DownCall, DownRetry, Up, DownFailed, Grant, WakeGranted, Enter, Test,
                TestFails, SetState, Retest, Schedule, Leave, PassOn, PassWake, GrantAt, WakeAt
        <3>2. QED
            BY <2>6, <3>1, Disjoint DEF Leave, Goto, Types, Waker
    <2>7. QED
        BY <2>1, <2>2, <2>3, <2>4, <2>5, <2>6 DEF Waker
<1>5. CASE ~Contended(Sub) /\ Pending("write")
    <2>1. CASE Test(p) /\ p \in biased \cap Writers
        BY <2>1 DEF Test, Goto, Types, Waker
    <2>2. CASE Test(p) /\ p \notin biased \cap Writers
        <3>1. granted'["write"] = granted["write"]
            BY <2>2 DEF Test, Kind, Types, Kinds, Procs
        <3>2. \A x \in Procs : pc[x] = "grant_write" => pc'[x] = "grant_write"
            BY <2>2 DEF Test, Goto, Types
        <3>3. QED
            BY <1>5, <3>1, <3>2 DEF Pending, GrantAt
    <2>3. CASE Grant(p, "read") \/ Grant(p, "write")
        <3>1. granted["write"] => granted'["write"]
            BY <2>3 DEF Grant, Types, Kinds
        <3>2. pc[p] = "grant_write" => granted'["write"]
            BY <2>3 DEF Grant, GrantAt, Types, Kinds
        <3>3. QED
            BY <1>5, <3>1, <3>2, Frame DEF Pending, GrantAt
    <2>4. CASE ~Test(p) /\ ~Grant(p, "read") /\ ~Grant(p, "write")
        <3>1. granted' = granted /\ pc[p] # "grant_write"
            BY <2>4
            DEF Step, Steps, DownCall, DownRetry, Subtract, Up, DownFailed, Add, WakeGranted, Enter,
                TestFails, SetState, Retest, Schedule, Leave, PassOn, PassWake, WakeAt
        <3>2. QED
            BY <1>5, <3>1, Frame DEF Pending, GrantAt
    <2>5. QED
        BY <2>1, <2>2, <2>3, <2>4
<1>6. QED
    BY <1>2, <1>3, <1>4, <1>5 DEF ReadersWoken, Waker

-----------------------------------------------------------------------------
(* The invariant and what it says.                                         *)

LEMMA InvInit == Init => Inv
<1> SUFFICES ASSUME Init PROVE Inv
    OBVIOUS
<1>1. Types
    BY BiasType, EmptySeq DEF Init, Types, Kinds, Queues, PCs
<1>2. Sub = {} /\ Active = {} /\ Owners = {}
    BY DEF Init, Sub, Active, Owners, Has
<1>3. CountExact
    BY <1>2, ValueSign DEF Init, CountExact
<1>4. Pending("read") = FALSE /\ Pending("write") = FALSE
    BY DEF Init, Pending, GrantAt
<1>5. ~Contended({})
    BY DEF Contended
<1>6. Rules
    <2>1. Fair({}, {}, {}, FALSE, FALSE)
        BY <1>5 DEF Fair
    <2>2. OneToken
        BY DEF Init, OneToken, Granting
    <2>3. QED
        BY <1>2, <1>4, <2>1, <2>2 DEF Rules
<1>7. Queued
    <2>1. Ordered(<<>>) /\ \A p : ~OnQueue(<<>>, p)
        BY DEF Ordered, OnQueue
    <2>2. QED
        BY <2>1 DEF Init, Queued, Queues, Waiting
<1>8. GrantSeen /\ ReadersWoken
    BY DEF Init, GrantSeen, Kinds, ReadersWoken, Sleeping, Procs
<1>9. QED
    BY <1>1, <1>3, <1>6, <1>7, <1>8 DEF Inv

LEMMA InvNext == Inv /\ [Next]_vars => Inv'
<1> SUFFICES ASSUME Inv, [Next]_vars PROVE Inv'
    OBVIOUS
<1> USE DEF Inv
<1>1. CASE UNCHANGED vars
    <2>1. UNCHANGED <<count, granted, queue, state, pc, biased, after>>
        BY <1>1 DEF vars
    <2>2. Sub' = Sub /\ Active' = Active /\ Owners' = Owners
        BY <2>1 DEF Sub, Active, Owners, Has
    <2>3. CountExact' /\ Rules'
        BY <2>1, <2>2, RulesKeep
    <2>4. Types' /\ Queued'
        BY <2>1 DEF Types, Queued, Queue
    <2>5. GrantSeen' /\ ReadersWoken'
        BY <2>1, <2>2 DEF GrantSeen, ReadersWoken, Pending, Sleeping
    <2>6. QED
        BY <2>3, <2>4, <2>5
<1>2. CASE Next
    <2>1. PICK p \in Procs : Step(p)
        BY <1>2 DEF Next, Step
    <2>2. QED
        BY <2>1, TypesStep, RulesStep, QueuedStep, GrantSeenStep, ReadersWokenStep
<1>3. QED
    BY <1>1, <1>2

THEOREM Invariance == Spec => []Inv
BY InvInit, InvNext, PTL DEF Spec

\* A writer that has the lock has it alone, for every number of readers below the bias
\* and every number of writers: down_read, down_write and their slow paths.
THEOREM WritersExclude == Spec => []Exclusion
<1>1. Inv => Exclusion
    <2> SUFFICES ASSUME Inv, NEW w \in Writers, NEW q \in Procs, Has(w), Has(q) PROVE w = q
        BY DEF Exclusion
    <2>1. w \in Active /\ q \in Active
        BY DEF Active, Procs
    <2>2. QED
        BY <2>1 DEF Inv, Rules, Fair
<1>2. QED
    BY <1>1, Invariance, PTL

\* None of the BUG() assertions about read_bias_granted and write_bias_granted is
\* reached.
THEOREM NoBUGReached == Spec => []NoBUG
<1>1. Inv => NoBUG
    <2> SUFFICES ASSUME Inv PROVE NoBUG
        OBVIOUS
    <2>1. OneToken /\ Fair(Sub, Active, Owners, Pending("read"), Pending("write"))
        BY DEF Inv, Rules
    <2>2. granted["write"] => Active = {}
        BY <2>1 DEF Pending, Fair
    <2>3. granted["read"] => Active \cap Writers = {}
        BY <2>1 DEF Pending, Fair
    <2>4. \A p \in Procs : pc[p] = "held" => p \in Active
        BY DEF Active, Has
    <2>5. QED
        BY <2>1, <2>2, <2>3, <2>4 DEF NoBUG, OneToken, Granting
<1>2. QED
    BY <1>1, Invariance, PTL

\* When every call is done or asleep, no owner of the bias and no reader is asleep:
\* the grants and the wake-ups of __rwsem_wake and of down_write_failed_biased are
\* not lost.
THEOREM NobodyStranded == Spec => []BiasNotStranded
<1>1. Inv => BiasNotStranded
    <2> SUFFICES ASSUME Inv, Quiet, NEW p \in Procs, pc[p] # "idle" PROVE p \in Writers \ biased
        BY DEF BiasNotStranded
    <2>1. \A q \in Procs : pc[q] = "idle" \/ (pc[q] = "schedule" /\ Sleeping(q))
        BY DEF Quiet, Sleeping
    <2>2. Sub = Owners /\ \A q \in Owners : q \in Procs /\ Sleeping(q)
        BY <2>1 DEF Inv, Types, Sub, Owners, Has, Waiting
    <2>3. Fair(Sub, Active, Owners, Pending("read"), Pending("write"))
        BY DEF Inv, Rules
    <2>4. \A k \in Kinds : ~granted[k]
        BY <2>1, <2>2 DEF Inv, GrantSeen, WakeAt
    <2>5. ~Pending("read") /\ ~Pending("write")
        BY <2>1, <2>4 DEF Pending, GrantAt, Kinds
    <2>6. ~Contended(Sub)
        BY <2>2, <2>3, <2>5 DEF Fair, Contended
    <2>7. Owners = {}
        BY <2>3, <2>5, <2>6 DEF Fair
    <2>8. Sleeping(p) /\ p \notin biased
        BY <2>1, <2>7 DEF Owners
    <2>9. p \notin Readers
        BY <2>1, <2>5, <2>6, <2>8 DEF Inv, ReadersWoken
    <2>10. QED
        BY <2>8, <2>9 DEF Procs
<1>2. QED
    BY <1>1, Invariance, PTL
=============================================================================
