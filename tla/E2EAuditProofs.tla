--------------------------- MODULE E2EAuditProofs ---------------------------
(***************************************************************************)
(* Theorems about module E2EAudit, for any number of producers, Nodes,     *)
(* faults and slots.                                                       *)
(*                                                                         *)
(* Rounds and verdicts are bounded together with what may still add to     *)
(* them: the leaders that have not had their round of the day, a vacant    *)
(* leadership, the tasks of a Node.  While nothing has failed there is one *)
(* of these at most, and the slots of a day are enough for it.             *)
(***************************************************************************)
EXTENDS E2EAudit, FiniteSetTheorems, TLAPS

-----------------------------------------------------------------------------
(* Definitions.                                                            *)

(* The copies in a bag of the elements of a set, each with a number. *)
Copies(B, S) == UNION {{x} \X (1..B[x]) : x \in BagToSet(B) \cap S}

(* The tasks of a Node that are, or will be if they run today, of a day. *)
Of(n, d) == {j \in Job : j.node = n /\ DateOf(j) = d}

(* Its tasks that stopped before they were dated. *)
Stopped(n) == {j \in Job : j.node = n /\ j.auditDate = NoDate /\ j.at = "failed"}

(* The instances that believe that they lead, and those of them that are   *)
(* still to have the round of the day; the seat that one more may take.    *)
Leaders == {p \in Producer : IS_LEADER[p]}
Pending == {p \in Leaders : currentDay[p] # Today}
Vacancy == IF holder = NoProducer THEN 1 ELSE 0

(* The verdicts of a Node for a day, and those that may still follow. *)
Given(n, d) == VerdictsOn(n, d, TRUE) + VerdictsOn(n, d, FALSE)
Load(n, d) ==
    Given(n, d) + Cardinality(Copies(jobs, Of(n, d)))
    + (IF d = Today THEN Cardinality(Pending) + Vacancy ELSE 0)

(* Nothing is dated in the future; a task is dated when it first runs. *)
DateInv ==
    /\ \A j \in BagToSet(jobs) :
          /\ j.auditDate <= Today
          /\ j.auditDate = NoDate => j.stage = "hash_submission" /\ j.retryCount = 0
    /\ \A v \in BagToSet(verdicts) : v.auditDate <= Today
    /\ \A d \in Day : d > Today => rounds[d] = 0

(* Rounds and the leaders that may add to them. *)
RoundInv ==
    /\ IsFiniteSet(Leaders)
    /\ Cardinality(Leaders) + Vacancy <= 1 + faults
    /\ rounds[Today] + Cardinality(Pending) + Vacancy <= 1 + faults
    /\ \A d \in Day : rounds[d] <= 1 + faults

(* Verdicts and what may add to them. *)
LoadInv ==
    \A n \in Node :
        /\ IsFiniteSet(Copies(jobs, Stopped(n)))
        /\ Cardinality(Copies(jobs, Stopped(n))) + Cardinality(Leaders) + Vacancy <= 1 + faults
        /\ \A d \in Day :
              /\ IsFiniteSet(Copies(jobs, Of(n, d)))
              /\ <<n, d>> \notin late => Load(n, d) <= 1 + faults

BoundInv == TypeOK /\ DateInv /\ RoundInv /\ LoadInv

(* While nothing has failed, a round takes place in the first slot of a    *)
(* day, and what a Node is asked has its slots, up to the eighth.          *)
LastSlot(j) ==
    IF j.stage = "hash_submission" THEN j.retryCount
    ELSE IF j.stage = "proof_retrieval" THEN 3 + j.retryCount ELSE 5 + j.retryCount

CalmInv ==
    /\ amqpChannel = "open" /\ late = {}
    /\ holder = NoProducer => \A p \in Producer : currentDay[p] = Today
    /\ \A p \in Producer :
          IS_LEADER[p] => currentDay[p] = Today \/ clock = Today * SlotsPerDay
    /\ \A j \in BagToSet(jobs) :
          /\ j.at = "queued" /\ DateOf(j) = Today
          /\ clock <= j.due /\ j.due <= Today * SlotsPerDay + LastSlot(j)

RowsOf(n, d) == {r \in BagToSet(log) : r.node = n /\ r.auditDate = d}
Passed(n, d, s) == \E r \in RowsOf(n, d) : r.stage = s /\ r.passed

(* Its rows tell what a task has done, and what a verdict says. *)
OutcomeInv ==
    /\ \A r \in BagToSet(log) :
          \/ \E j \in BagToSet(jobs) : j \in Of(r.node, r.auditDate)
          \/ \E v \in BagToSet(verdicts) : v.node = r.node /\ v.auditDate = r.auditDate
    /\ \A j \in BagToSet(jobs), r \in BagToSet(log) :
          j \in Of(r.node, r.auditDate) =>
              IF r.stage = j.stage THEN ~r.passed
              ELSE /\ Passed(r.node, r.auditDate, r.stage)
                   /\ r.stage = "hash_submission" \/ j.stage = "proof_verification"
    /\ \A v \in BagToSet(verdicts) :
          /\ RowsOf(v.node, v.auditDate) # {}
          /\ v.auditPass <=> \A r \in RowsOf(v.node, v.auditDate) :
                                 Passed(v.node, v.auditDate, r.stage)

ReportInv == faults = 0 => CalmInv /\ OutcomeInv


-----------------------------------------------------------------------------
(* Days.                                                                   *)

(* A slot lies in its day. *)
LEMMA DaySlots ==
    ASSUME NEW c \in Nat
    PROVE  /\ DayOf(c) \in Nat
           /\ DayOf(c) * SlotsPerDay <= c
           /\ c < DayOf(c) * SlotsPerDay + SlotsPerDay
  BY BoundsAssumption, Z3 DEF DayOf

(* A later slot lies in no earlier day. *)
LEMMA DaysGrow ==
    ASSUME NEW b \in Nat, NEW c \in Nat, b <= c
    PROVE  DayOf(b) <= DayOf(c)
  <1> DEFINE x == DayOf(b)
             y == DayOf(c)
  <1>1. /\ x \in Nat /\ y \in Nat
        /\ x * SlotsPerDay <= b /\ c < y * SlotsPerDay + SlotsPerDay
    BY DaySlots
  <1>2. SUFFICES ASSUME x > y PROVE FALSE
    BY <1>1
  <1> HIDE DEF x, y
  <1>3. x >= y + 1
    BY <1>1, <1>2
  <1>4. x * SlotsPerDay >= (y + 1) * SlotsPerDay
    BY <1>1, <1>3, BoundsAssumption, Z3
  <1>5. (y + 1) * SlotsPerDay = y * SlotsPerDay + SlotsPerDay
    BY <1>1, BoundsAssumption, Z3
  <1> QED
    BY <1>1, <1>4, <1>5, BoundsAssumption

(* A day begins with its first slot. *)
LEMMA NewDay ==
    ASSUME NEW c \in Nat, DayOf(c + 1) # DayOf(c)
    PROVE  DayOf(c + 1) > DayOf(c) /\ c + 1 = DayOf(c + 1) * SlotsPerDay
  <1> DEFINE x == DayOf(c)
             y == DayOf(c + 1)
  <1>1. /\ x \in Nat /\ y \in Nat
        /\ c < x * SlotsPerDay + SlotsPerDay
        /\ y * SlotsPerDay <= c + 1
    BY DaySlots
  <1>2. x <= y /\ x # y
    BY DaysGrow
  <1> HIDE DEF x, y
  <1>3. y >= x + 1
    BY <1>1, <1>2
  <1>4. y * SlotsPerDay >= (x + 1) * SlotsPerDay
    BY <1>1, <1>3, BoundsAssumption, Z3
  <1>5. (x + 1) * SlotsPerDay = x * SlotsPerDay + SlotsPerDay
    BY <1>1, BoundsAssumption, Z3
  <1>6. x < y /\ c + 1 = y * SlotsPerDay
    BY <1>1, <1>2, <1>4, <1>5, BoundsAssumption
  <1> QED
    BY <1>6 DEF x, y

(* The days of the model. *)
LEMMA DayType ==
    ASSUME NEW c \in 0..MaxClock
    PROVE  DayOf(c) \in Day
  <1>1. DayOf(c) \in Nat
    BY DaySlots, BoundsAssumption
  <1>2. DayOf(MaxClock) \in Nat /\ DayOf(c) <= DayOf(MaxClock)
    BY DaySlots, DaysGrow, BoundsAssumption
  <1> QED
    BY <1>1, <1>2 DEF Day

-----------------------------------------------------------------------------
(* Bags.                                                                   *)

LEMMA BagPlus ==
    ASSUME NEW B, NEW x, IsABag(B)
    PROVE  /\ IsABag(B (+) One(x))
           /\ BagToSet(B (+) One(x)) = BagToSet(B) \union {x}
           /\ \A y \in BagToSet(B) : y # x => (B (+) One(x))[y] = B[y]
           /\ BagIn(x, B) => (B (+) One(x))[x] = B[x] + 1
           /\ ~BagIn(x, B) => (B (+) One(x))[x] = 1
  BY SMTT(30) DEF IsABag, BagIn, BagToSet, (+), One, SetToBag

LEMMA BagPlusSet ==
    ASSUME NEW B, NEW X, IsABag(B)
    PROVE  /\ IsABag(B (+) SetToBag(X))
           /\ BagToSet(B (+) SetToBag(X)) = BagToSet(B) \union X
           /\ \A y \in BagToSet(B) : y \notin X => (B (+) SetToBag(X))[y] = B[y]
           /\ \A y \in X : BagIn(y, B) => (B (+) SetToBag(X))[y] = B[y] + 1
           /\ \A y \in X : ~BagIn(y, B) => (B (+) SetToBag(X))[y] = 1
  BY SMTT(30) DEF IsABag, BagIn, BagToSet, (+), SetToBag

LEMMA BagMinus ==
    ASSUME NEW B, NEW x, IsABag(B), BagIn(x, B)
    PROVE  /\ IsABag(B (-) One(x))
           /\ BagToSet(B (-) One(x)) = {y \in BagToSet(B) : y # x \/ B[x] > 1}
           /\ \A y \in BagToSet(B) : y # x => (B (-) One(x))[y] = B[y]
           /\ B[x] > 1 => (B (-) One(x))[x] = B[x] - 1
  BY SMTT(30) DEF IsABag, BagIn, BagToSet, (-), One, SetToBag

LEMMA BagEmpty == IsABag(EmptyBag) /\ BagToSet(EmptyBag) = {}
  BY DEF IsABag, EmptyBag, SetToBag, BagToSet


-----------------------------------------------------------------------------
(* Numbers of copies.                                                      *)

LEMMA CopiesHas ==
    ASSUME NEW B, NEW S, NEW c
    PROVE  c \in Copies(B, S) <=>
               \E x \in BagToSet(B) \cap S : \E k \in 1..B[x] : c = <<x, k>>
  <1>1. c \in Copies(B, S) <=> \E x \in BagToSet(B) \cap S : c \in {x} \X (1..B[x])
    BY Zenon DEF Copies
  <1>2. \A x : c \in {x} \X (1..B[x]) <=> \E k \in 1..B[x] : c = <<x, k>>
    BY SMT
  <1> QED
    BY <1>1, <1>2, Zenon

LEMMA CopyIn ==
    ASSUME NEW B, NEW S, IsABag(B), NEW x \in BagToSet(B), x \in S
    PROVE  <<x, B[x]>> \in Copies(B, S)
  <1>1. B[x] \in Nat /\ B[x] > 0
    BY DEF IsABag, BagToSet
  <1>2. B[x] \in 1..B[x]
    BY <1>1
  <1> QED
    BY <1>2, CopiesHas

(* One copy more is one pair more, if it is of the set. *)
LEMMA CopiesPlus ==
    ASSUME NEW B, NEW x, NEW S, IsABag(B), IsFiniteSet(Copies(B, S))
    PROVE  /\ IsFiniteSet(Copies(B (+) One(x), S))
           /\ Cardinality(Copies(B (+) One(x), S))
                <= Cardinality(Copies(B, S)) + (IF x \in S THEN 1 ELSE 0)
  <1> DEFINE D == B (+) One(x)
             C == Copies(B, S)
             new == <<x, D[x]>>
  <1>1. /\ IsABag(D) /\ BagToSet(D) = BagToSet(B) \union {x}
        /\ \A y \in BagToSet(B) : y # x => D[y] = B[y]
        /\ BagIn(x, B) => D[x] = B[x] + 1
        /\ ~BagIn(x, B) => D[x] = 1
    BY BagPlus
  <1>2. \A y \in BagToSet(B) : B[y] \in Nat
    BY DEF IsABag, BagToSet
  <1> HIDE DEF D
  <1>3. Copies(D, S) \subseteq C \union {new}
    <2> SUFFICES ASSUME NEW c \in Copies(D, S) PROVE c # new => c \in C
      BY Zenon
    <2> SUFFICES ASSUME c # new PROVE c \in C
      OBVIOUS
    <2>0. PICK y \in BagToSet(D) \cap S : \E k \in 1..D[y] : c = <<y, k>>
      BY CopiesHas
    <2>1. PICK k \in 1..D[y] : c = <<y, k>>
      BY <2>0
    <2>2. y \in BagToSet(B) /\ k \in 1..B[y]
      <3>1. CASE y # x
        BY <1>1, <2>1, <3>1
      <3>2. CASE y = x /\ BagIn(x, B)
        <4>1. k # B[x] + 1
          BY <1>1, <2>1, <3>2
        <4> QED
          BY <1>1, <1>2, <2>1, <3>2, <4>1 DEF BagIn
      <3>3. CASE y = x /\ ~BagIn(x, B)
        <4>1. k = 1
          BY <1>1, <2>1, <3>3
        <4> QED
          BY <1>1, <2>1, <3>3, <4>1
      <3> QED
        BY <3>1, <3>2, <3>3
    <2> QED
      BY <2>1, <2>2, CopiesHas
  <1>4. x \notin S => Copies(D, S) \subseteq C
    <2> SUFFICES ASSUME x \notin S, NEW c \in Copies(D, S) PROVE c \in C
      OBVIOUS
    <2>0. PICK y \in BagToSet(D) \cap S : \E k \in 1..D[y] : c = <<y, k>>
      BY CopiesHas
    <2>1. PICK k \in 1..D[y] : c = <<y, k>>
      BY <2>0
    <2>2. y \in BagToSet(B) /\ k \in 1..B[y]
      BY <1>1, <2>1
    <2> QED
      BY <2>1, <2>2, CopiesHas
  <1> HIDE DEF C, new
  <1>5. IsFiniteSet(C)
    BY DEF C
  <1>6. /\ IsFiniteSet(C \union {new})
        /\ Cardinality(C \union {new}) <= Cardinality(C) + 1
        /\ Cardinality(C) \in Nat
    <2>1. Cardinality(C) \in Nat
      BY <1>5, FS_CardinalityType
    <2>2. /\ IsFiniteSet(C \union {new})
          /\ \/ Cardinality(C \union {new}) = Cardinality(C)
             \/ Cardinality(C \union {new}) = Cardinality(C) + 1
      BY <1>5, FS_AddElement
    <2> QED
      BY <2>1, <2>2
  <1>7. /\ IsFiniteSet(Copies(D, S))
        /\ Cardinality(Copies(D, S)) <= Cardinality(C \union {new})
        /\ Cardinality(Copies(D, S)) \in Nat
        /\ Cardinality(C \union {new}) \in Nat
    BY <1>3, <1>6, FS_Subset, FS_CardinalityType
  <1>8. x \notin S => Cardinality(Copies(D, S)) <= Cardinality(C)
    BY <1>4, <1>5, FS_Subset
  <1>9. /\ IsFiniteSet(Copies(D, S))
        /\ Cardinality(Copies(D, S)) <= Cardinality(C) + (IF x \in S THEN 1 ELSE 0)
    BY <1>6, <1>7, <1>8
  <1> QED
    BY <1>9 DEF D, C

(* One copy less is one pair less. *)
LEMMA CopiesMinus ==
    ASSUME NEW B, NEW x, NEW S, IsABag(B), BagIn(x, B), IsFiniteSet(Copies(B, S))
    PROVE  /\ IsFiniteSet(Copies(B (-) One(x), S))
           /\ Cardinality(Copies(B (-) One(x), S))
                <= Cardinality(Copies(B, S)) - (IF x \in S THEN 1 ELSE 0)
  <1> DEFINE D == B (-) One(x)
             C == Copies(B, S)
             old == <<x, B[x]>>
  <1>1. /\ IsABag(D) /\ BagToSet(D) = {y \in BagToSet(B) : y # x \/ B[x] > 1}
        /\ \A y \in BagToSet(B) : y # x => D[y] = B[y]
        /\ B[x] > 1 => D[x] = B[x] - 1
    BY BagMinus
  <1>2. \A y \in BagToSet(B) : B[y] \in Nat
    BY DEF IsABag, BagToSet
  <1> HIDE DEF D
  <1>3. Copies(D, S) \subseteq C \ {old}
    <2> SUFFICES ASSUME NEW c \in Copies(D, S) PROVE c \in C /\ c # old
      OBVIOUS
    <2>0. PICK y \in BagToSet(D) \cap S : \E k \in 1..D[y] : c = <<y, k>>
      BY CopiesHas
    <2>1. PICK k \in 1..D[y] : c = <<y, k>>
      BY <2>0
    <2>2. y \in BagToSet(B) /\ k \in 1..B[y] /\ (y = x => k # B[x])
      BY <1>1, <1>2, <2>1
    <2> QED
      BY <2>1, <2>2, CopiesHas
  <1>4. x \in S => old \in C
    BY CopyIn DEF BagIn
  <1> HIDE DEF C, old
  <1>5. IsFiniteSet(C)
    BY DEF C
  <1>6. /\ IsFiniteSet(C \ {old}) /\ Cardinality(C) \in Nat
        /\ Cardinality(C \ {old}) <= Cardinality(C)
        /\ old \in C => Cardinality(C \ {old}) = Cardinality(C) - 1
    <2>1. Cardinality(C) \in Nat
      BY <1>5, FS_CardinalityType
    <2>2. /\ IsFiniteSet(C \ {old})
          /\ Cardinality(C \ {old})
               = IF old \in C THEN Cardinality(C) - 1 ELSE Cardinality(C)
      BY <1>5, FS_RemoveElement
    <2> QED
      BY <2>1, <2>2
  <1>7. /\ IsFiniteSet(Copies(D, S))
        /\ Cardinality(Copies(D, S)) <= Cardinality(C \ {old})
        /\ Cardinality(Copies(D, S)) \in Nat
        /\ Cardinality(C \ {old}) \in Nat
    BY <1>3, <1>6, FS_Subset, FS_CardinalityType
  <1>9. /\ IsFiniteSet(Copies(D, S))
        /\ Cardinality(Copies(D, S)) <= Cardinality(C) - (IF x \in S THEN 1 ELSE 0)
    BY <1>4, <1>6, <1>7
  <1> QED
    BY <1>9 DEF D, C

(* One copy of each of several elements, of which one is of the set. *)
LEMMA CopiesPlusSet ==
    ASSUME NEW B, NEW X, NEW x, NEW S, IsABag(B), X \cap S \subseteq {x},
           IsFiniteSet(Copies(B, S))
    PROVE  /\ IsFiniteSet(Copies(B (+) SetToBag(X), S))
           /\ Cardinality(Copies(B (+) SetToBag(X), S)) <= Cardinality(Copies(B, S)) + 1
           /\ X \cap S = {} => Cardinality(Copies(B (+) SetToBag(X), S))
                                 <= Cardinality(Copies(B, S))
  <1> DEFINE D == B (+) SetToBag(X)
             E == B (+) One(x)
  <1>1. /\ BagToSet(D) = BagToSet(B) \union X
        /\ \A y \in BagToSet(B) : y \notin X => D[y] = B[y]
        /\ \A y \in X : BagIn(y, B) => D[y] = B[y] + 1
        /\ \A y \in X : ~BagIn(y, B) => D[y] = 1
    BY BagPlusSet
  <1>2. /\ BagToSet(E) = BagToSet(B) \union {x}
        /\ \A y \in BagToSet(B) : y # x => E[y] = B[y]
        /\ BagIn(x, B) => E[x] = B[x] + 1
        /\ ~BagIn(x, B) => E[x] = 1
    BY BagPlus
  <1>3. \A y \in BagToSet(B) : B[y] \in Nat
    BY DEF IsABag, BagToSet
  <1> HIDE DEF D, E
  <1>4. Copies(D, S) \subseteq Copies(E, S)
    <2> SUFFICES ASSUME NEW c \in Copies(D, S) PROVE c \in Copies(E, S)
      OBVIOUS
    <2>0. PICK y \in BagToSet(D) \cap S : \E k \in 1..D[y] : c = <<y, k>>
      BY CopiesHas
    <2>1. PICK k \in 1..D[y] : c = <<y, k>>
      BY <2>0
    <2>2. y \in BagToSet(E) /\ k \in 1..E[y]
      BY <1>1, <1>2, <1>3, <2>1 DEF BagIn
    <2> QED
      BY <2>1, <2>2, CopiesHas
  <1>5. X \cap S = {} => Copies(D, S) \subseteq Copies(B, S)
    <2> SUFFICES ASSUME X \cap S = {}, NEW c \in Copies(D, S) PROVE c \in Copies(B, S)
      OBVIOUS
    <2>0. PICK y \in BagToSet(D) \cap S : \E k \in 1..D[y] : c = <<y, k>>
      BY CopiesHas
    <2>1. PICK k \in 1..D[y] : c = <<y, k>>
      BY <2>0
    <2>2. y \in BagToSet(B) /\ k \in 1..B[y]
      BY <1>1, <2>1
    <2> QED
      BY <2>1, <2>2, CopiesHas
  <1>6. /\ IsFiniteSet(Copies(E, S)) /\ Cardinality(Copies(B, S)) \in Nat
        /\ Cardinality(Copies(E, S))
             <= Cardinality(Copies(B, S)) + (IF x \in S THEN 1 ELSE 0)
    BY CopiesPlus, FS_CardinalityType DEF E
  <1>7. /\ IsFiniteSet(Copies(D, S))
        /\ Cardinality(Copies(D, S)) <= Cardinality(Copies(E, S))
        /\ Cardinality(Copies(D, S)) \in Nat /\ Cardinality(Copies(E, S)) \in Nat
    BY <1>4, <1>6, FS_Subset, FS_CardinalityType
  <1>8. X \cap S = {} => Cardinality(Copies(D, S)) <= Cardinality(Copies(B, S))
    BY <1>5, FS_Subset
  <1>9. /\ IsFiniteSet(Copies(D, S))
        /\ Cardinality(Copies(D, S)) <= Cardinality(Copies(B, S)) + 1
        /\ X \cap S = {} => Cardinality(Copies(D, S)) <= Cardinality(Copies(B, S))
    BY <1>6, <1>7, <1>8
  <1> QED
    BY <1>9 DEF D


-----------------------------------------------------------------------------
(* Types.                                                                  *)

(* A bag of elements of a set. *)
BagOver(B, S) == IsABag(B) /\ BagToSet(B) \subseteq S

LEMMA BagOverKept ==
    ASSUME NEW B, NEW S, NEW x, BagOver(B, S)
    PROVE  /\ x \in S => BagOver(B (+) One(x), S)
           /\ BagIn(x, B) => BagOver(B (-) One(x), S)
           /\ \A X : X \subseteq S => BagOver(B (+) SetToBag(X), S)
  <1>1. x \in S => BagOver(B (+) One(x), S)
    BY BagPlus DEF BagOver
  <1>2. BagIn(x, B) => BagOver(B (-) One(x), S)
    BY BagMinus DEF BagOver
  <1>3. ASSUME NEW X, X \subseteq S PROVE BagOver(B (+) SetToBag(X), S)
    BY <1>3, BagPlusSet DEF BagOver
  <1> QED
    BY <1>1, <1>2, <1>3

(* The tasks that a task may become. *)
LEMMA JobTypes ==
    ASSUME TypeOK, NEW j \in Job
    PROVE  /\ MayRetry(j) => Retry(j) \in Job
           /\ Follow(j) \in Job
           /\ [j EXCEPT !.at = "failed"] \in Job
           /\ [j EXCEPT !.at = "queued", !.due = clock] \in Job
           /\ DateOf(j) \in Day /\ j.node \in Node
           /\ \A passed \in BOOLEAN :
                 /\ [node |-> j.node, auditDate |-> DateOf(j), stage |-> j.stage,
                     passed |-> passed] \in Row
                 /\ [node |-> j.node, auditDate |-> DateOf(j), auditPass |-> passed]
                      \in Verdict
  <1>1. /\ clock \in 0..MaxClock /\ MaxClock \in Nat
        /\ clock \in 0..(MaxClock + 1) /\ clock + 1 \in 0..(MaxClock + 1)
    BY BoundsAssumption DEF TypeOK
  <1>2. Today \in Day
    BY <1>1, DayType DEF Today
  <1>3. DateOf(j) \in Day /\ j.node \in Node
    BY <1>2 DEF DateOf, Job
  <1>4. MayRetry(j) => j.retryCount + 1 \in 0..Retries
    BY DEF MayRetry, Job, Retries
  <1>5. 0 \in 0..Retries
    BY DEF Retries
  <1> HIDE DEF Today, DateOf, MayRetry, Retries, Day
  <1>6. MayRetry(j) => Retry(j) \in Job
    BY <1>1, <1>3, <1>4 DEF Retry, Job
  <1>7. Follow(j) \in Job
    <2>1. CASE j.stage = "hash_submission"
      BY <1>1, <1>3, <1>5, <2>1 DEF Follow, Job, Stage
    <2>2. CASE j.stage # "hash_submission"
      BY <1>1, <1>3, <1>5, <2>2 DEF Follow, Job, Stage
    <2> QED
      BY <2>1, <2>2
  <1>8. [j EXCEPT !.at = "failed"] \in Job /\ [j EXCEPT !.at = "queued", !.due = clock] \in Job
    BY <1>1 DEF Job
  <1>9. \A passed \in BOOLEAN :
            /\ [node |-> j.node, auditDate |-> DateOf(j), stage |-> j.stage,
                passed |-> passed] \in Row
            /\ [node |-> j.node, auditDate |-> DateOf(j), auditPass |-> passed] \in Verdict
    BY <1>3 DEF Row, Verdict, Job
  <1> QED
    BY <1>3, <1>6, <1>7, <1>8, <1>9

LEMMA FirstTaskType ==
    ASSUME TypeOK, NEW n \in Node
    PROVE  FirstTask(n) \in Job
  <1>1. clock \in 0..(MaxClock + 1)
    BY BoundsAssumption DEF TypeOK
  <1> QED
    BY <1>1 DEF FirstTask, Job, Stage, Retries

LEMMA InitTypeOK == Init => TypeOK
  <1> SUFFICES ASSUME Init PROVE TypeOK
    OBVIOUS
  <1>1. clock \in 0..MaxClock
    BY BoundsAssumption DEF Init
  <1>2. Today \in Day
    BY <1>1, DayType DEF Today
  <1> HIDE DEF Today, Day
  <1> QED
    BY <1>1, <1>2, BagEmpty, BoundsAssumption DEF Init, TypeOK

(* What each step has of a task and of its record. *)
LEMMA RowStep ==
    ASSUME TypeOK, NEW j \in Job, NEW passed \in BOOLEAN, AddE2EAuditToLog(j, passed)
    PROVE  BagOver(log', Row) /\ faults' \in 0..MaxFaults
  <1> DEFINE row == [node |-> j.node, auditDate |-> DateOf(j), stage |-> j.stage,
                     passed |-> passed]
  <1>1. row \in Row
    BY JobTypes
  <1> HIDE DEF row
  <1>2. BagOver(log, Row) /\ faults \in 0..MaxFaults
    BY DEF TypeOK, BagOver
  <1>3. log' = log (+) One(row) \/ log' = log
    BY DEF AddE2EAuditToLog, row
  <1>4. faults' = faults \/ (faults < MaxFaults /\ faults' = faults + 1)
    BY DEF AddE2EAuditToLog, Fault
  <1> QED
    BY <1>1, <1>2, <1>3, <1>4, BagOverKept, BoundsAssumption

LEMMA NextTypeOK == TypeOK /\ [Next]_vars => TypeOK'
  <1> SUFFICES ASSUME TypeOK, [Next]_vars PROVE TypeOK'
    OBVIOUS
  <1>t. /\ BagOver(jobs, Job) /\ BagOver(log, Row) /\ BagOver(verdicts, Verdict)
        /\ clock \in 0..MaxClock /\ Today \in Day /\ faults \in 0..MaxFaults
        /\ MaxClock \in Nat /\ MaxFaults \in Nat
    BY DayType, BoundsAssumption DEF TypeOK, BagOver, Today
  <1>f. Fault => faults' \in 0..MaxFaults
    BY <1>t DEF Fault
  <1>j. \A j \in BagToSet(jobs) : j \in Job /\ j.node \in Node
    BY <1>t, JobTypes DEF BagOver
  <1>k. ASSUME NEW j, BagIn(j, jobs)
        PROVE  /\ BagOver(Done(j), Job)
               /\ BagOver(FailedList(j), Job)
               /\ \A k \in Job : BagOver(Done(j) (+) One(k), Job)
               /\ \A k \in Job : BagOver(FailedList(j) (+) One(k), Job)
    <2>1. j \in Job
      BY <1>j, <1>k DEF BagIn
    <2>2. BagOver(Done(j), Job)
      BY <1>k, <1>t, BagOverKept DEF Done
    <2>3. BagOver(FailedList(j), Job)
      BY <2>1, <2>2, JobTypes, BagOverKept DEF FailedList
    <2> QED
      BY <2>2, <2>3, BagOverKept
  <1> HIDE DEF Today, Day
  <1> USE DEF producer, records
  <1>1. ASSUME NEW p \in Producer, GainLeadership(p) PROVE TypeOK'
    BY <1>1 DEF TypeOK, GainLeadership
  <1>2. ASSUME NEW p \in Producer, LeadershipError(p) PROVE TypeOK'
    BY <1>2 DEF TypeOK, LeadershipError
  <1>3. ASSUME NEW p \in Producer, RestartProducer(p) PROVE TypeOK'
    BY <1>3, <1>f, <1>t DEF TypeOK, RestartProducer
  <1>4. CASE SessionExpires
    BY <1>4, <1>f DEF TypeOK, SessionExpires
  <1>5. CASE Produce
    <2>1. PICK p \in Producer : PerformE2ENodeAudit(p)
      BY <1>5 DEF Produce
    <2>2. PICK N \in SUBSET Node :
             /\ jobs' = jobs (+) SetToBag({FirstTask(n) : n \in N})
             /\ started' = started \union (N \X {Today})
      BY <2>1 DEF PerformE2ENodeAudit
    <2>3. {FirstTask(n) : n \in N} \subseteq Job
      BY <2>2, FirstTaskType
    <2>4. BagOver(jobs', Job)
      BY <1>t, <2>2, <2>3, BagOverKept
    <2>5. rounds' \in [Day -> Nat] /\ currentDay' \in [Producer -> Day]
      BY <1>t, <2>1 DEF TypeOK, PerformE2ENodeAudit, RememberDay
    <2> QED
      BY <1>t, <2>1, <2>2, <2>4, <2>5 DEF TypeOK, PerformE2ENodeAudit, RememberDay, BagOver
  <1>6. ASSUME NEW j \in BagToSet(jobs), PassStage(j) PROVE TypeOK'
    <2>1. BagOver(jobs', Job)
      BY <1>j, <1>k, <1>6, JobTypes DEF PassStage, Runnable
    <2>2. BagOver(log', Row) /\ faults' \in 0..MaxFaults
      BY <1>j, <1>6, RowStep DEF PassStage
    <2> QED
      BY <1>6, <2>1, <2>2 DEF TypeOK, PassStage, BagOver
  <1>7. ASSUME NEW j \in BagToSet(jobs), RetryStage(j) PROVE TypeOK'
    <2>1. BagOver(jobs', Job)
      BY <1>j, <1>k, <1>7, JobTypes DEF RetryStage, Runnable
    <2>2. BagOver(log', Row) /\ faults' \in 0..MaxFaults
      BY <1>j, <1>7, RowStep DEF RetryStage
    <2> QED
      BY <1>7, <2>1, <2>2 DEF TypeOK, RetryStage, BagOver
  <1>8. ASSUME NEW j \in BagToSet(jobs), NEW auditPass \in BOOLEAN,
               GiveVerdict(j, auditPass)
        PROVE  TypeOK'
    <2> DEFINE row == [node |-> j.node, auditDate |-> DateOf(j), stage |-> j.stage,
                       passed |-> auditPass]
               verdict == [node |-> j.node, auditDate |-> DateOf(j),
                           auditPass |-> auditPass]
    <2>1. row \in Row /\ verdict \in Verdict /\ j.node \in Node
      BY <1>j, JobTypes
    <2>2. BagOver(jobs', Job)
      BY <1>k, <1>8 DEF GiveVerdict, Runnable
    <2>3. /\ log' \in {log, log (+) One(row)}
          /\ verdicts' \in {verdicts, verdicts (+) One(verdict)}
          /\ lost' \in {lost, lost \union {j.node}}
          /\ faults' = faults \/ Fault
      BY <1>8 DEF GiveVerdict, UpdateE2EAuditScore
    <2> HIDE DEF row, verdict
    <2>4. BagOver(log', Row) /\ BagOver(verdicts', Verdict)
      BY <1>t, <2>1, <2>3, BagOverKept
    <2>5. faults' \in 0..MaxFaults
      BY <1>t, <1>f, <2>3
    <2> QED
      BY <1>8, <2>1, <2>2, <2>3, <2>4, <2>5 DEF TypeOK, GiveVerdict, BagOver
  <1>9. ASSUME NEW j \in BagToSet(jobs), NEW auditPass \in BOOLEAN,
               VerdictThrows(j, auditPass)
        PROVE  TypeOK'
    <2>1. BagOver(jobs', Job)
      BY <1>j, <1>k, <1>9, JobTypes DEF VerdictThrows, Runnable
    <2>2. faults' \in 0..MaxFaults /\ lost' \subseteq Node
      BY <1>j, <1>t, <1>f, <1>9 DEF VerdictThrows, TypeOK
    <2> QED
      BY <1>9, <2>1, <2>2 DEF TypeOK, VerdictThrows, BagOver
  <1>10. ASSUME NEW j \in BagToSet(jobs), EnqueueFails(j) PROVE TypeOK'
    <2>1. BagOver(jobs', Job)
      BY <1>k, <1>10 DEF EnqueueFails, Runnable
    <2> QED
      BY <1>j, <1>f, <1>10, <2>1 DEF TypeOK, EnqueueFails, BagOver
  <1>11. ASSUME NEW j \in BagToSet(jobs), Interrupted(j) PROVE TypeOK'
    <2>0. /\ BagIn(j, jobs) /\ Fault /\ j \in Job
          /\ UNCHANGED <<clock, producer, amqpChannel, lost, late>>
      BY <1>j, <1>11 DEF Interrupted, Runnable
    <2> DEFINE Done1(passed) == [node |-> j.node, auditDate |-> DateOf(j),
                                 stage |-> j.stage, passed |-> passed]
    <2>1. \A passed \in BOOLEAN : Done1(passed) \in Row
      BY <2>0, JobTypes
    <2>2. BagOver(jobs', Job)
      BY <1>k, <2>0, <1>11, JobTypes DEF Interrupted
    <2>3. \E passed \in BOOLEAN : log' \in {log, log (+) One(Done1(passed))}
      BY <1>11 DEF Interrupted
    <2> HIDE DEF Done1
    <2>4. BagOver(log', Row)
      BY <1>t, <2>1, <2>3, BagOverKept
    <2>5. BagOver(verdicts', Verdict)
      <3> DEFINE verdict(pass) == [node |-> j.node, auditDate |-> DateOf(j),
                                   auditPass |-> pass]
      <3>1. \A pass \in BOOLEAN : verdict(pass) \in Verdict
        BY <2>0, JobTypes
      <3>2. \/ verdicts' = verdicts
            \/ \E pass \in BOOLEAN : verdicts' = verdicts (+) One(verdict(pass))
        BY <1>11 DEF Interrupted
      <3> HIDE DEF verdict
      <3> QED
        BY <1>t, <3>1, <3>2, BagOverKept
    <2> QED
      BY <1>f, <2>0, <2>2, <2>4, <2>5 DEF TypeOK, BagOver
  <1>12. ASSUME NEW j \in BagToSet(jobs), RequeueFailedJob(j) PROVE TypeOK'
    <2>1. BagOver(jobs', Job)
      BY <1>j, <1>k, <1>12, JobTypes DEF RequeueFailedJob
    <2> QED
      BY <1>12, <2>1 DEF TypeOK, RequeueFailedJob, BagOver
  <1>13. CASE LoseChannel
    BY <1>13, <1>f DEF TypeOK, LoseChannel
  <1>14. CASE OpenChannel
    BY <1>14 DEF TypeOK, OpenChannel
  <1>15. CASE Tick
    <2>1. clock' \in 0..MaxClock /\ clock' = clock + 1
      BY <1>t, <1>15 DEF Tick
    <2>2. DayOf(clock + 1) \in Day
      BY <2>1, DayType
    <2>3. late' \subseteq Node \X Day
      BY <1>15, <2>2 DEF Tick, NotBegun, TypeOK
    <2>4. faults' \in 0..MaxFaults
      BY <1>f, <1>t, <1>15 DEF Tick
    <2> QED
      BY <1>15, <2>1, <2>3, <2>4 DEF Tick, TypeOK
  <1>16. CASE UNCHANGED vars
    BY <1>16 DEF TypeOK, vars
  <1> QED
    BY <1>1, <1>2, <1>3, <1>4, <1>5, <1>6, <1>7, <1>8, <1>9, <1>10, <1>11, <1>12, <1>13,
       <1>14, <1>15, <1>16 DEF Next, Attempt

(* Every variable has its type. *)
THEOREM TypeCorrect == Spec => []TypeOK
  BY InitTypeOK, NextTypeOK, PTL DEF Spec


-----------------------------------------------------------------------------
(* Steps of tasks.                                                         *)

(* A verdict counts for its Node and its day. *)
LEMMA GivenStep ==
    ASSUME TypeOK, NEW v \in Verdict, verdicts' = verdicts (+) One(v),
           NEW n, NEW d
    PROVE  /\ Given(n, d) \in Nat
           /\ Given(n, d)' = Given(n, d) + (IF v.node = n /\ v.auditDate = d THEN 1 ELSE 0)
  <1> DEFINE w(pass) == [node |-> n, auditDate |-> d, auditPass |-> pass]
             D == verdicts (+) One(v)
  <1>1. IsABag(verdicts)
    BY DEF TypeOK
  <1>2. \A x \in BagToSet(verdicts) : verdicts[x] \in Nat
    BY <1>1 DEF IsABag, BagToSet
  <1>3. /\ BagToSet(D) = BagToSet(verdicts) \union {v}
        /\ \A y \in BagToSet(verdicts) : y # v => D[y] = verdicts[y]
        /\ BagIn(v, verdicts) => D[v] = verdicts[v] + 1
        /\ ~BagIn(v, verdicts) => D[v] = 1
    BY <1>1, BagPlus
  <1> HIDE DEF D
  <1>4. \A pass \in BOOLEAN :
           /\ VerdictsOn(n, d, pass) = IF w(pass) \in BagToSet(verdicts)
                                       THEN verdicts[w(pass)] ELSE 0
           /\ VerdictsOn(n, d, pass)' = IF w(pass) \in BagToSet(D) THEN D[w(pass)] ELSE 0
    BY DEF VerdictsOn, BagIn, BagToSet, D
  <1>5. \A pass \in BOOLEAN :
           w(pass) = v <=> v.node = n /\ v.auditDate = d /\ v.auditPass = pass
    BY DEF Verdict
  <1>6. v.auditPass \in BOOLEAN /\ w(TRUE) # w(FALSE)
    BY DEF Verdict
  <1> HIDE DEF w
  <1>7. \A pass \in BOOLEAN :
           /\ VerdictsOn(n, d, pass) \in Nat
           /\ VerdictsOn(n, d, pass)'
                = VerdictsOn(n, d, pass) + (IF w(pass) = v THEN 1 ELSE 0)
    BY <1>2, <1>3, <1>4 DEF BagIn
  <1>8. \/ v.node = n /\ v.auditDate = d /\ w(TRUE) = v /\ w(FALSE) # v
        \/ v.node = n /\ v.auditDate = d /\ w(TRUE) # v /\ w(FALSE) = v
        \/ ~(v.node = n /\ v.auditDate = d) /\ w(TRUE) # v /\ w(FALSE) # v
    BY <1>5, <1>6
  <1>9. /\ VerdictsOn(n, d, TRUE) \in Nat /\ VerdictsOn(n, d, FALSE) \in Nat
        /\ VerdictsOn(n, d, TRUE)'
             = VerdictsOn(n, d, TRUE) + (IF w(TRUE) = v THEN 1 ELSE 0)
        /\ VerdictsOn(n, d, FALSE)'
             = VerdictsOn(n, d, FALSE) + (IF w(FALSE) = v THEN 1 ELSE 0)
    BY <1>7
  <1> DEFINE a == VerdictsOn(n, d, TRUE)
             b == VerdictsOn(n, d, FALSE)
             wt == w(TRUE)
             wf == w(FALSE)
             one == v.node = n /\ v.auditDate = d
  <1>10. Given(n, d) = a + b /\ Given(n, d)' = a' + b'
    BY Zenon DEF Given
  <1>12. \/ one /\ wt = v /\ wf # v
         \/ one /\ wt # v /\ wf = v
         \/ ~one /\ wt # v /\ wf # v
    BY <1>8, Zenon
  <1>11. /\ a \in Nat /\ b \in Nat
         /\ a' = a + (IF wt = v THEN 1 ELSE 0)
         /\ b' = b + (IF wf = v THEN 1 ELSE 0)
    BY <1>9, Zenon
  <1> HIDE DEF a, b, wt, wf, one
  <1>13. /\ Given(n, d) \in Nat
         /\ Given(n, d)' = Given(n, d) + (IF one THEN 1 ELSE 0)
    BY <1>10, <1>11, <1>12
  <1> QED
    BY <1>13 DEF one

LEMMA GivenType ==
    ASSUME NEW n, NEW d
    PROVE  /\ TypeOK => Given(n, d) \in Nat
           /\ TypeOK' => Given(n, d)' \in Nat
  <1> DEFINE a == VerdictsOn(n, d, TRUE)
             b == VerdictsOn(n, d, FALSE)
  <1>1. TypeOK => \A x \in BagToSet(verdicts) : verdicts[x] \in Nat
    BY DEF TypeOK, IsABag, BagToSet
  <1>2. TypeOK' => \A x \in BagToSet(verdicts') : verdicts'[x] \in Nat
    BY DEF TypeOK, IsABag, BagToSet
  <1>3. (TypeOK => a \in Nat /\ b \in Nat) /\ (TypeOK' => a' \in Nat /\ b' \in Nat)
    BY <1>1, <1>2 DEF VerdictsOn, BagIn
  <1>4. Given(n, d) = a + b /\ Given(n, d)' = a' + b'
    BY Zenon DEF Given
  <1> HIDE DEF a, b
  <1> QED
    BY <1>3, <1>4

(* A step that adds at most a fault's worth to what is bounded. *)
LEMMA StepBound ==
    ASSUME TypeOK, DateInv, RoundInv, LoadInv, TypeOK',
           UNCHANGED <<clock, producer, late>>,
           NEW gain \in {0, 1}, faults' = faults + gain,
           \A n \in Node :
              /\ IsFiniteSet(Copies(jobs', Stopped(n)))
              /\ Cardinality(Copies(jobs', Stopped(n)))
                   <= Cardinality(Copies(jobs, Stopped(n))) + gain
              /\ \A d \in Day :
                    /\ IsFiniteSet(Copies(jobs', Of(n, d)))
                    /\ Given(n, d)' + Cardinality(Copies(jobs', Of(n, d)))
                         <= Given(n, d) + Cardinality(Copies(jobs, Of(n, d))) + gain
    PROVE  RoundInv' /\ LoadInv'
  <1>1. /\ Today' = Today /\ Pending' = Pending /\ Leaders' = Leaders /\ Vacancy' = Vacancy
        /\ \A n, d : Of(n, d)' = Of(n, d)
        /\ rounds' = rounds /\ late' = late
    BY DEF producer, Today, Pending, Leaders, Vacancy, Of, DateOf
  <1>2. Vacancy \in Nat /\ faults \in Nat
    BY DEF TypeOK, Vacancy
  <1>3. IsFiniteSet(Leaders) /\ Cardinality(Leaders) \in Nat
    BY FS_CardinalityType DEF RoundInv
  <1>4. IsFiniteSet(Pending) /\ Cardinality(Pending) \in Nat
    BY <1>3, FS_Subset, FS_CardinalityType DEF Pending
  <1>5. Today \in Day /\ \A d \in Day : rounds[d] \in Nat
    BY DayType DEF TypeOK, Today
  <1> HIDE DEF Today, Pending, Leaders, Vacancy, Of, Day
  <1>6. RoundInv'
    BY <1>1, <1>2, <1>3, <1>4, <1>5 DEF RoundInv
  <1>7. ASSUME NEW n \in Node
        PROVE  /\ IsFiniteSet(Copies(jobs', Stopped(n)))
               /\ Cardinality(Copies(jobs', Stopped(n))) + Cardinality(Leaders) + Vacancy
                    <= 1 + faults'
    <2>1. /\ IsFiniteSet(Copies(jobs, Stopped(n)))
          /\ Cardinality(Copies(jobs, Stopped(n))) + Cardinality(Leaders) + Vacancy
               <= 1 + faults
      BY DEF LoadInv
    <2>2. /\ Cardinality(Copies(jobs, Stopped(n))) \in Nat
          /\ Cardinality(Copies(jobs', Stopped(n))) \in Nat
      BY <2>1, FS_CardinalityType
    <2> QED
      BY <1>2, <1>3, <2>1, <2>2
  <1>8. ASSUME NEW n \in Node, NEW d \in Day, <<n, d>> \notin late
        PROVE  Load(n, d)' <= 1 + faults'
    <2> DEFINE open == IF d = Today THEN Cardinality(Pending) + Vacancy ELSE 0
    <2>1. /\ Load(n, d) = Given(n, d) + Cardinality(Copies(jobs, Of(n, d))) + open
          /\ Load(n, d)' = Given(n, d)' + Cardinality(Copies(jobs', Of(n, d))) + open
      BY <1>1 DEF Load
    <2>2. open \in Nat /\ Given(n, d) \in Nat /\ Given(n, d)' \in Nat
      BY <1>2, <1>4, GivenType
    <2>3. IsFiniteSet(Copies(jobs, Of(n, d))) /\ Load(n, d) <= 1 + faults
      BY <1>8 DEF LoadInv
    <2>4. /\ Cardinality(Copies(jobs, Of(n, d))) \in Nat
          /\ Cardinality(Copies(jobs', Of(n, d))) \in Nat
      BY <2>3, FS_CardinalityType
    <2>5. Given(n, d)' + Cardinality(Copies(jobs', Of(n, d)))
            <= Given(n, d) + Cardinality(Copies(jobs, Of(n, d))) + gain
      OBVIOUS
    <2> HIDE DEF open
    <2> QED
      BY <1>2, <2>1, <2>2, <2>3, <2>4, <2>5
  <1>9. LoadInv'
    BY <1>1, <1>7, <1>8 DEF LoadInv
  <1> QED
    BY <1>6, <1>9


(* The number of a set's elements, after one has gone and one has come.    *)
LEMMA CopiesMove ==
    ASSUME NEW B, NEW j, NEW k, NEW S, IsABag(B), BagIn(j, B), IsFiniteSet(Copies(B, S))
    PROVE  /\ IsABag(B (-) One(j) (+) One(k))
           /\ IsFiniteSet(Copies(B (-) One(j) (+) One(k), S))
           /\ Cardinality(Copies(B (-) One(j) (+) One(k), S))
                <= Cardinality(Copies(B, S)) - (IF j \in S THEN 1 ELSE 0)
                   + (IF k \in S THEN 1 ELSE 0)
  <1> DEFINE D == B (-) One(j)
             E == D (+) One(k)
             bj == IF j \in S THEN 1 ELSE 0
             bk == IF k \in S THEN 1 ELSE 0
  <1>1. IsABag(D) /\ IsABag(E)
    BY BagMinus, BagPlus
  <1>2. /\ IsFiniteSet(Copies(D, S))
        /\ Cardinality(Copies(D, S)) <= Cardinality(Copies(B, S)) - bj
    BY CopiesMinus
  <1>3. /\ IsFiniteSet(Copies(E, S))
        /\ Cardinality(Copies(E, S)) <= Cardinality(Copies(D, S)) + bk
    <2> HIDE DEF D
    <2> QED
      BY <1>1, <1>2, CopiesPlus
  <1>4. bj \in {0, 1} /\ bk \in {0, 1}
    OBVIOUS
  <1> HIDE DEF D, E, bj, bk
  <1>5. /\ Cardinality(Copies(B, S)) \in Nat /\ Cardinality(Copies(D, S)) \in Nat
        /\ Cardinality(Copies(E, S)) \in Nat
    BY <1>2, <1>3, FS_CardinalityType
  <1>6. Cardinality(Copies(E, S)) <= Cardinality(Copies(B, S)) - bj + bk
    BY <1>2, <1>3, <1>4, <1>5
  <1> QED
    BY <1>1, <1>3, <1>6, Zenon DEF D, E, bj, bk

(* A task ends, with a verdict or without one, is put back, or is followed *)
(* by another; it is put back and followed only as a fault.                *)
LEMMA TaskStep ==
    ASSUME TypeOK, DateInv, RoundInv, LoadInv, TypeOK',
           UNCHANGED <<clock, producer, late>>,
           NEW gain \in {0, 1}, faults' = faults + gain,
           NEW j \in Job, BagIn(j, jobs),
           NEW k \in Job, k.node = j.node, DateOf(k) = DateOf(j),
           k \in Stopped(j.node) => gain = 1 \/ j \in Stopped(j.node),
           NEW l \in Job, l.node = j.node, DateOf(l) = DateOf(j), l \notin Stopped(j.node),
           NEW v \in Verdict, v.node = j.node, v.auditDate = DateOf(j),
           \/ /\ jobs' = Done(j)
              /\ verdicts' = verdicts \/ verdicts' = verdicts (+) One(v)
           \/ /\ jobs' = Done(j) (+) One(k)
              /\ verdicts' = verdicts \/ (gain = 1 /\ verdicts' = verdicts (+) One(v))
           \/ /\ jobs' = Done(j) (+) One(k) (+) One(l)
              /\ verdicts' = verdicts /\ gain = 1
    PROVE  RoundInv' /\ LoadInv'
  <1>1. IsABag(jobs)
    BY DEF TypeOK
  <1> SUFFICES ASSUME NEW n \in Node
               PROVE  /\ IsFiniteSet(Copies(jobs', Stopped(n)))
                      /\ Cardinality(Copies(jobs', Stopped(n)))
                           <= Cardinality(Copies(jobs, Stopped(n))) + gain
                      /\ \A d \in Day :
                            /\ IsFiniteSet(Copies(jobs', Of(n, d)))
                            /\ Given(n, d)' + Cardinality(Copies(jobs', Of(n, d)))
                                 <= Given(n, d) + Cardinality(Copies(jobs, Of(n, d))) + gain
    BY StepBound
  <1>m. ASSUME NEW S, IsFiniteSet(Copies(jobs, S))
        PROVE  LET c == Cardinality(Copies(jobs, S))
                   c1 == Cardinality(Copies(jobs', S))
                   bj == IF j \in S THEN 1 ELSE 0
                   bk == IF k \in S THEN 1 ELSE 0
                   bl == IF l \in S THEN 1 ELSE 0
               IN  /\ IsFiniteSet(Copies(jobs', S)) /\ c \in Nat /\ c1 \in Nat
                   /\ jobs' = Done(j) => c1 <= c - bj
                   /\ jobs' = Done(j) (+) One(k) => c1 <= c - bj + bk
                   /\ jobs' = Done(j) (+) One(k) (+) One(l) => c1 <= c - bj + bk + bl
    <2> DEFINE c == Cardinality(Copies(jobs, S))
               c1 == Cardinality(Copies(jobs', S))
               bj == IF j \in S THEN 1 ELSE 0
               bk == IF k \in S THEN 1 ELSE 0
               bl == IF l \in S THEN 1 ELSE 0
               E == jobs (-) One(j) (+) One(k)
    <2>1. jobs' = Done(j) => IsFiniteSet(Copies(jobs', S)) /\ c1 <= c - bj
      BY <1>1, <1>m, CopiesMinus DEF Done
    <2>2. /\ IsABag(E) /\ IsFiniteSet(Copies(E, S))
          /\ Cardinality(Copies(E, S)) <= c - bj + bk
      BY <1>1, <1>m, CopiesMove, Zenon
    <2>3. jobs' = Done(j) (+) One(k) => jobs' = E
      BY Zenon DEF Done
    <2>4. jobs' = Done(j) (+) One(k) (+) One(l) => jobs' = E (+) One(l)
      BY Zenon DEF Done
    <2> HIDE DEF E
    <2>5. /\ IsFiniteSet(Copies(E (+) One(l), S))
          /\ Cardinality(Copies(E (+) One(l), S)) <= Cardinality(Copies(E, S)) + bl
      BY <2>2, CopiesPlus
    <2>6. IsFiniteSet(Copies(jobs', S))
      BY <2>1, <2>2, <2>3, <2>4, <2>5
    <2>7. c \in Nat /\ c1 \in Nat /\ Cardinality(Copies(E, S)) \in Nat
      BY <1>m, <2>2, <2>6, FS_CardinalityType
    <2>8. Cardinality(Copies(E (+) One(l), S)) \in Nat
      BY <2>5, FS_CardinalityType
    <2>9. bj \in {0, 1} /\ bk \in {0, 1} /\ bl \in {0, 1}
      OBVIOUS
    <2> HIDE DEF bj, bk, bl
    <2>10. Cardinality(Copies(E (+) One(l), S)) <= c - bj + bk + bl
      BY <2>2, <2>5, <2>7, <2>8, <2>9
    <2>11. jobs' = Done(j) (+) One(k) => c1 <= c - bj + bk
      BY <2>2, <2>3
    <2>12. jobs' = Done(j) (+) One(k) (+) One(l) => c1 <= c - bj + bk + bl
      BY <2>4, <2>10
    <2> QED
      BY <2>1, <2>6, <2>7, <2>11, <2>12, Zenon DEF bj, bk, bl
  <1>2. /\ IsFiniteSet(Copies(jobs', Stopped(n)))
        /\ Cardinality(Copies(jobs', Stopped(n)))
             <= Cardinality(Copies(jobs, Stopped(n))) + gain
    <2> DEFINE S == Stopped(n)
               c == Cardinality(Copies(jobs, S))
               c1 == Cardinality(Copies(jobs', S))
               bj == IF j \in S THEN 1 ELSE 0
               bk == IF k \in S THEN 1 ELSE 0
               bl == IF l \in S THEN 1 ELSE 0
    <2>1. IsFiniteSet(Copies(jobs, S))
      BY DEF LoadInv
    <2>2. l \notin S /\ (k \in S => gain = 1 \/ j \in S)
      BY DEF Stopped
    <2> HIDE DEF S
    <2>3. /\ IsFiniteSet(Copies(jobs', S)) /\ c \in Nat /\ c1 \in Nat
          /\ \/ c1 <= c - bj
             \/ c1 <= c - bj + bk
             \/ c1 <= c - bj + bk + bl
      BY <1>m, <2>1
    <2> HIDE DEF c, c1
    <2>4. c1 <= c + gain
      BY <2>2, <2>3
    <2> QED
      BY <2>3, <2>4 DEF c, c1, S
  <1>3. ASSUME NEW d \in Day
        PROVE  /\ IsFiniteSet(Copies(jobs', Of(n, d)))
               /\ Given(n, d)' + Cardinality(Copies(jobs', Of(n, d)))
                    <= Given(n, d) + Cardinality(Copies(jobs, Of(n, d))) + gain
    <2> DEFINE S == Of(n, d)
               c == Cardinality(Copies(jobs, S))
               c1 == Cardinality(Copies(jobs', S))
               bj == IF j \in S THEN 1 ELSE 0
               bk == IF k \in S THEN 1 ELSE 0
               bl == IF l \in S THEN 1 ELSE 0
               g == Given(n, d)
    <2>1. IsFiniteSet(Copies(jobs, S))
      BY DEF LoadInv
    <2>2. /\ k \in S <=> j \in S
          /\ l \in S <=> j \in S
          /\ v.node = n /\ v.auditDate = d <=> j \in S
      BY DEF Of
    <2>3. g \in Nat /\ g' \in Nat
      BY GivenType
    <2>4. verdicts' = verdicts => g' = g
      BY DEF Given, VerdictsOn
    <2>5. verdicts' = verdicts (+) One(v) => g' = g + bj
      BY <2>2, GivenStep
    <2> HIDE DEF S, g
    <2>6. /\ IsFiniteSet(Copies(jobs', S)) /\ c \in Nat /\ c1 \in Nat
          /\ jobs' = Done(j) => c1 <= c - bj
          /\ jobs' = Done(j) (+) One(k) => c1 <= c - bj + bk
          /\ jobs' = Done(j) (+) One(k) (+) One(l) => c1 <= c - bj + bk + bl
      BY <1>m, <2>1
    <2>7. bk = bj /\ bl = bj /\ bj \in {0, 1}
      BY <2>2
    <2> HIDE DEF c, c1, bj, bk, bl
    <2> DEFINE g1 == g'
    <2>8. /\ g \in Nat /\ g1 \in Nat /\ c \in Nat /\ c1 \in Nat /\ gain \in {0, 1}
          /\ \/ c1 <= c - bj /\ (g1 = g \/ g1 = g + bj)
             \/ c1 <= c - bj + bk /\ (g1 = g \/ (gain = 1 /\ g1 = g + bj))
             \/ c1 <= c - bj + bk + bl /\ g1 = g /\ gain = 1
      <3>1. CASE /\ jobs' = Done(j)
                 /\ verdicts' = verdicts \/ verdicts' = verdicts (+) One(v)
        BY <2>3, <2>4, <2>5, <2>6, <3>1
      <3>2. CASE /\ jobs' = Done(j) (+) One(k)
                 /\ verdicts' = verdicts \/ (gain = 1 /\ verdicts' = verdicts (+) One(v))
        BY <2>3, <2>4, <2>5, <2>6, <3>2
      <3>3. CASE /\ jobs' = Done(j) (+) One(k) (+) One(l)
                 /\ verdicts' = verdicts /\ gain = 1
        BY <2>3, <2>4, <2>6, <3>3
      <3> QED
        BY <3>1, <3>2, <3>3, Zenon
    <2> HIDE DEF g1
    <2>9. g1 + c1 <= g + c + gain
      BY <2>7, <2>8
    <2> QED
      BY <2>6, <2>9 DEF c, c1, S, g, g1
  <1> QED
    BY <1>2, <1>3


-----------------------------------------------------------------------------
(* Steps of producers, and of time.                                        *)

(* What the numbers are. *)
LEMMA Numbers ==
    ASSUME TypeOK, RoundInv
    PROVE  /\ Today \in Day /\ faults \in Nat /\ Vacancy \in {0, 1}
           /\ IsFiniteSet(Pending)
           /\ Cardinality(Leaders) \in Nat /\ Cardinality(Pending) \in Nat
           /\ \A d \in Day : rounds[d] \in Nat
  <1>1. Today \in Day /\ faults \in Nat /\ Vacancy \in {0, 1} /\ \A d \in Day : rounds[d] \in Nat
    BY DayType DEF TypeOK, Today, Vacancy
  <1>2. IsFiniteSet(Leaders) /\ Cardinality(Leaders) \in Nat
    BY FS_CardinalityType DEF RoundInv
  <1>3. IsFiniteSet(Pending) /\ Cardinality(Pending) \in Nat
    BY <1>2, FS_Subset, FS_CardinalityType DEF Pending
  <1> QED
    BY <1>1, <1>2, <1>3

(* A leader that comes takes a seat, one that goes as a fault may leave one. *)
LEMMA SeatStep ==
    ASSUME TypeOK, RoundInv, LoadInv, TypeOK',
           UNCHANGED <<clock, jobs, verdicts, rounds, late>>,
           NEW gain \in {0, 1}, faults' = faults + gain,
           IsFiniteSet(Leaders'),
           Cardinality(Leaders') + Vacancy' <= Cardinality(Leaders) + Vacancy + gain,
           Cardinality(Pending') + Vacancy' <= Cardinality(Pending) + Vacancy + gain
    PROVE  RoundInv' /\ LoadInv'
  <1>1. /\ Today' = Today /\ \A n, d : Of(n, d)' = Of(n, d) /\ Given(n, d)' = Given(n, d)
        /\ rounds' = rounds /\ late' = late /\ jobs' = jobs
    BY DEF Today, Of, DateOf, Given, VerdictsOn
  <1>2. /\ Today \in Day /\ faults \in Nat /\ Vacancy \in {0, 1}
        /\ Cardinality(Leaders) \in Nat /\ Cardinality(Pending) \in Nat
        /\ \A d \in Day : rounds[d] \in Nat
    BY Numbers
  <1>3. IsFiniteSet(Pending')
    BY FS_Subset DEF Pending
  <1>4. /\ Cardinality(Leaders') \in Nat /\ Cardinality(Pending') \in Nat
        /\ Vacancy' \in {0, 1}
    BY <1>3, FS_CardinalityType DEF Vacancy
  <1> HIDE DEF Today, Leaders, Pending, Vacancy, Day, Of, Given
  <1>5. RoundInv'
    BY <1>1, <1>2, <1>4 DEF RoundInv
  <1>6. ASSUME NEW n \in Node
        PROVE  /\ IsFiniteSet(Copies(jobs, Stopped(n)))
               /\ Cardinality(Copies(jobs, Stopped(n))) + Cardinality(Leaders') + Vacancy'
                    <= 1 + faults'
    <2>1. /\ IsFiniteSet(Copies(jobs, Stopped(n)))
          /\ Cardinality(Copies(jobs, Stopped(n))) + Cardinality(Leaders) + Vacancy
               <= 1 + faults
      BY DEF LoadInv
    <2>2. Cardinality(Copies(jobs, Stopped(n))) \in Nat
      BY <2>1, FS_CardinalityType
    <2> QED
      BY <1>2, <1>4, <2>1, <2>2
  <1>7. ASSUME NEW n \in Node, NEW d \in Day
        PROVE  /\ IsFiniteSet(Copies(jobs, Of(n, d)))
               /\ <<n, d>> \notin late => Load(n, d)' <= 1 + faults'
    <2>1. /\ IsFiniteSet(Copies(jobs, Of(n, d)))
          /\ <<n, d>> \notin late => Load(n, d) <= 1 + faults
      BY DEF LoadInv
    <2>2. Cardinality(Copies(jobs, Of(n, d))) \in Nat /\ Given(n, d) \in Nat
      BY <2>1, FS_CardinalityType, GivenType
    <2> DEFINE c == Cardinality(Copies(jobs, Of(n, d)))
               open == IF d = Today THEN Cardinality(Pending) + Vacancy ELSE 0
               open1 == IF d = Today THEN Cardinality(Pending') + Vacancy' ELSE 0
    <2>3. Load(n, d) = Given(n, d) + c + open /\ Load(n, d)' = Given(n, d) + c + open1
      BY <1>1 DEF Load
    <2>4. open \in Nat /\ open1 \in Nat /\ open1 <= open + gain /\ c \in Nat
      BY <1>2, <1>4, <2>2
    <2> HIDE DEF c, open, open1
    <2> QED
      BY <1>2, <2>1, <2>2, <2>3, <2>4
  <1>8. LoadInv'
    BY <1>1, <1>6, <1>7 DEF LoadInv
  <1> QED
    BY <1>5, <1>8

(* The instances that lead, after a change of one. *)
LEMMA LeadersStep ==
    ASSUME TypeOK, TypeOK', RoundInv, NEW p \in Producer,
           UNCHANGED clock,
           \A q \in Producer \ {p} : IS_LEADER'[q] = IS_LEADER[q]
                                     /\ currentDay'[q] = currentDay[q]
    PROVE  /\ IsFiniteSet(Leaders')
           /\ Cardinality(Leaders') <= Cardinality(Leaders) + 1
           /\ Cardinality(Pending') <= Cardinality(Pending) + 1
           /\ ~IS_LEADER'[p] => /\ Cardinality(Leaders') <= Cardinality(Leaders)
                                /\ Cardinality(Pending') <= Cardinality(Pending)
           /\ p \in Pending /\ currentDay'[p] = Today =>
                 Cardinality(Pending') = Cardinality(Pending) - 1
  <1>1. IsFiniteSet(Leaders) /\ IsFiniteSet(Pending)
    BY Numbers DEF RoundInv
  <1>2. Leaders' \subseteq Leaders \union {p} /\ Pending' \subseteq Pending \union {p}
    BY DEF Leaders, Pending, Today
  <1>3. ~IS_LEADER'[p] => Leaders' \subseteq Leaders /\ Pending' \subseteq Pending
    BY DEF Leaders, Pending, Today
  <1>4. p \in Pending /\ currentDay'[p] = Today => Pending' = Pending \ {p}
    BY DEF Leaders, Pending, Today
  <1> DEFINE L == Leaders
             P == Pending
  <1> HIDE DEF Today
  <1>5. /\ IsFiniteSet(L \union {p}) /\ IsFiniteSet(P \union {p})
        /\ Cardinality(L \union {p}) <= Cardinality(L) + 1
        /\ Cardinality(P \union {p}) <= Cardinality(P) + 1
        /\ p \in P => Cardinality(P \ {p}) = Cardinality(P) - 1
    <2> HIDE DEF L, P
    <2>1. /\ IsFiniteSet(L) /\ IsFiniteSet(P)
          /\ Cardinality(L) \in Nat /\ Cardinality(P) \in Nat
      BY <1>1, FS_CardinalityType DEF L, P
    <2>2. /\ IsFiniteSet(L \union {p})
          /\ Cardinality(L \union {p}) = IF p \in L THEN Cardinality(L) ELSE Cardinality(L) + 1
      BY <2>1, FS_AddElement
    <2>3. /\ IsFiniteSet(P \union {p})
          /\ Cardinality(P \union {p}) = IF p \in P THEN Cardinality(P) ELSE Cardinality(P) + 1
      BY <2>1, FS_AddElement
    <2>4. Cardinality(P \ {p}) = IF p \in P THEN Cardinality(P) - 1 ELSE Cardinality(P)
      BY <2>1, FS_RemoveElement
    <2> QED
      BY <2>1, <2>2, <2>3, <2>4
  <1>6. /\ IsFiniteSet(L') /\ IsFiniteSet(P')
        /\ Cardinality(L') <= Cardinality(L \union {p})
        /\ Cardinality(P') <= Cardinality(P \union {p})
        /\ ~IS_LEADER'[p] => Cardinality(L') <= Cardinality(L)
        /\ ~IS_LEADER'[p] => Cardinality(P') <= Cardinality(P)
    <2>1. /\ L' \in SUBSET (L \union {p}) /\ P' \in SUBSET (P \union {p})
          /\ ~IS_LEADER'[p] => L' \in SUBSET L /\ P' \in SUBSET P
      BY <1>2, <1>3
    <2>2. IsFiniteSet(L) /\ IsFiniteSet(P)
      BY <1>1
    <2> HIDE DEF L, P
    <2> QED
      BY <1>5, <2>1, <2>2, FS_Subset
  <1>7. /\ Cardinality(L) \in Nat /\ Cardinality(P) \in Nat
        /\ Cardinality(L') \in Nat /\ Cardinality(P') \in Nat
        /\ Cardinality(L \union {p}) \in Nat /\ Cardinality(P \union {p}) \in Nat
    BY <1>1, <1>5, <1>6, FS_CardinalityType
  <1>8. p \in P /\ currentDay'[p] = Today => Cardinality(P') = Cardinality(P) - 1
    BY <1>4, <1>5
  <1> HIDE DEF L, P
  <1>9. /\ Cardinality(L') <= Cardinality(L) + 1
        /\ Cardinality(P') <= Cardinality(P) + 1
    BY <1>5, <1>6, <1>7
  <1> QED
    BY <1>6, <1>8, <1>9 DEF L, P


(* A round adds a task to some Nodes, for its leader. *)
LEMMA RoundStep ==
    ASSUME TypeOK, DateInv, RoundInv, LoadInv, TypeOK', NEW p \in Producer,
           PerformE2ENodeAudit(p)
    PROVE  RoundInv' /\ LoadInv'
  <1>1. /\ UNCHANGED <<clock, holder, IS_LEADER, amqpChannel, records, lost, late, faults>>
        /\ IS_LEADER[p] /\ currentDay[p] # Today
        /\ currentDay' = [currentDay EXCEPT ![p] = Today]
        /\ rounds' = [rounds EXCEPT ![Today] = @ + 1]
    BY DEF PerformE2ENodeAudit, RememberDay
  <1>2. PICK N \in SUBSET Node : jobs' = jobs (+) SetToBag({FirstTask(n) : n \in N})
    BY DEF PerformE2ENodeAudit
  <1>3. /\ Today' = Today /\ Leaders' = Leaders /\ Vacancy' = Vacancy
        /\ \A n, d : Of(n, d)' = Of(n, d) /\ Given(n, d)' = Given(n, d)
        /\ late' = late /\ faults' = faults
    BY <1>1 DEF records, Today, Leaders, Vacancy, Of, DateOf, Given, VerdictsOn
  <1>4. Cardinality(Pending') = Cardinality(Pending) - 1
    <2>1. p \in Pending
      BY <1>1 DEF Pending, Leaders
    <2>2. /\ currentDay'[p] = Today
          /\ \A q \in Producer \ {p} : IS_LEADER'[q] = IS_LEADER[q]
                                       /\ currentDay'[q] = currentDay[q]
      BY <1>1 DEF TypeOK
    <2> QED
      BY <1>1, <2>1, <2>2, LeadersStep
  <1>5. /\ Today \in Day /\ faults \in Nat /\ Vacancy \in {0, 1}
        /\ Cardinality(Leaders) \in Nat /\ Cardinality(Pending) \in Nat
        /\ \A d \in Day : rounds[d] \in Nat
    BY Numbers
  <1>6. \A d \in Day : rounds'[d] = IF d = Today THEN rounds[d] + 1 ELSE rounds[d]
    BY <1>1, <1>5 DEF TypeOK
  <1>7. RoundInv'
    <2>1. Cardinality(Pending') \in Nat
      BY <1>1, <1>3, Numbers, FS_Subset, FS_CardinalityType DEF Pending, RoundInv
    <2> HIDE DEF Today, Leaders, Pending, Vacancy, Day
    <2> QED
      BY <2>1, <1>3, <1>4, <1>5, <1>6 DEF RoundInv
  <1>8. IsABag(jobs)
    BY DEF TypeOK
  <1> DEFINE X == {FirstTask(n) : n \in N}
  <1>9. \A n : /\ X \cap Stopped(n) = {}
               /\ \A d : /\ X \cap Of(n, d) \subseteq {FirstTask(n)}
                         /\ d # Today => X \cap Of(n, d) = {}
    BY DEF FirstTask, Stopped, Of, DateOf
  <1>10. jobs' = jobs (+) SetToBag(X)
    BY <1>2
  <1> HIDE DEF X, Today, Leaders, Pending, Vacancy, Day, Of, Given, Stopped
  <1>11. ASSUME NEW n \in Node
         PROVE  /\ IsFiniteSet(Copies(jobs', Stopped(n)))
                /\ Cardinality(Copies(jobs', Stopped(n))) + Cardinality(Leaders) + Vacancy
                     <= 1 + faults
    <2>1. /\ IsFiniteSet(Copies(jobs, Stopped(n)))
          /\ Cardinality(Copies(jobs, Stopped(n))) + Cardinality(Leaders) + Vacancy
               <= 1 + faults
      BY DEF LoadInv
    <2>2. X \cap Stopped(n) \subseteq {FirstTask(n)} /\ X \cap Stopped(n) = {}
      BY <1>9
    <2>3. /\ IsFiniteSet(Copies(jobs', Stopped(n)))
          /\ Cardinality(Copies(jobs', Stopped(n))) <= Cardinality(Copies(jobs, Stopped(n)))
      BY <1>8, <1>10, <2>1, <2>2, CopiesPlusSet
    <2>4. /\ Cardinality(Copies(jobs, Stopped(n))) \in Nat
          /\ Cardinality(Copies(jobs', Stopped(n))) \in Nat
      BY <2>1, <2>3, FS_CardinalityType
    <2> QED
      BY <1>5, <2>1, <2>3, <2>4
  <1>12. ASSUME NEW n \in Node, NEW d \in Day
         PROVE  /\ IsFiniteSet(Copies(jobs', Of(n, d)))
                /\ <<n, d>> \notin late => Load(n, d)' <= 1 + faults
    <2>1. /\ IsFiniteSet(Copies(jobs, Of(n, d)))
          /\ <<n, d>> \notin late => Load(n, d) <= 1 + faults
      BY DEF LoadInv
    <2>2. /\ X \cap Of(n, d) \subseteq {FirstTask(n)}
          /\ d # Today => X \cap Of(n, d) = {}
      BY <1>9
    <2>3. /\ IsFiniteSet(Copies(jobs', Of(n, d)))
          /\ Cardinality(Copies(jobs', Of(n, d))) <= Cardinality(Copies(jobs, Of(n, d))) + 1
          /\ d # Today => Cardinality(Copies(jobs', Of(n, d)))
                            <= Cardinality(Copies(jobs, Of(n, d)))
      BY <1>8, <1>10, <2>1, <2>2, CopiesPlusSet
    <2> DEFINE c == Cardinality(Copies(jobs, Of(n, d)))
               c1 == Cardinality(Copies(jobs', Of(n, d)))
               open == IF d = Today THEN Cardinality(Pending) + Vacancy ELSE 0
               open1 == IF d = Today THEN Cardinality(Pending') + Vacancy ELSE 0
    <2>4. c \in Nat /\ c1 \in Nat /\ Given(n, d) \in Nat
      BY <2>1, <2>3, FS_CardinalityType, GivenType
    <2>5. Load(n, d) = Given(n, d) + c + open /\ Load(n, d)' = Given(n, d) + c1 + open1
      BY <1>3 DEF Load
    <2>6. c1 + open1 <= c + open /\ open \in Nat /\ open1 \in Int
      BY <1>4, <1>5, <2>3, <2>4
    <2> HIDE DEF c, c1, open, open1
    <2>7. Load(n, d)' <= Load(n, d) /\ Load(n, d) \in Nat /\ Load(n, d)' \in Int
      BY <2>4, <2>5, <2>6
    <2> QED
      BY <1>5, <2>1, <2>3, <2>7
  <1>13. LoadInv'
    BY <1>3, <1>11, <1>12 DEF LoadInv
  <1> QED
    BY <1>7, <1>13

(* A new day begins with the instances that lead and with what has not     *)
(* been dated.                                                             *)
LEMMA TickStep ==
    ASSUME TypeOK, DateInv, RoundInv, LoadInv, TypeOK', Tick
    PROVE  RoundInv' /\ LoadInv'
  <1>1. /\ clock' = clock + 1 /\ clock \in Nat
        /\ UNCHANGED <<producer, jobs, verdicts>>
        /\ faults' \in {faults, faults + 1}
    BY DEF TypeOK, Tick, records, Fault
  <1>2. /\ Leaders' = Leaders /\ Vacancy' = Vacancy
        /\ \A n, d : Given(n, d)' = Given(n, d)
        /\ rounds' = rounds /\ jobs' = jobs
    BY <1>1 DEF producer, Leaders, Vacancy, Given, VerdictsOn
  <1>3. CASE DayOf(clock + 1) = Today
    <2>1. Today' = Today /\ late' = late
      BY <1>1, <1>3 DEF Tick, Today
    <2>2. /\ Pending' = Pending
          /\ \A n, d : Of(n, d)' = Of(n, d)
      BY <1>1, <2>1 DEF Pending, Leaders, Of, DateOf, producer
    <2>3. \A n, d : Load(n, d)' = Load(n, d)
      BY <1>2, <2>1, <2>2 DEF Load
    <2>4. /\ Today \in Day /\ faults \in Nat /\ Vacancy \in {0, 1}
          /\ Cardinality(Leaders) \in Nat /\ Cardinality(Pending) \in Nat
          /\ \A d \in Day : rounds[d] \in Nat
      BY Numbers
    <2> HIDE DEF Today, Leaders, Pending, Vacancy, Day, Of, Given
    <2>5. RoundInv'
      BY <1>1, <1>2, <2>1, <2>2, <2>4 DEF RoundInv
    <2>6. ASSUME NEW n \in Node
          PROVE  /\ IsFiniteSet(Copies(jobs, Stopped(n)))
                 /\ Cardinality(Copies(jobs, Stopped(n))) + Cardinality(Leaders) + Vacancy
                      <= 1 + faults'
      <3>1. /\ IsFiniteSet(Copies(jobs, Stopped(n)))
            /\ Cardinality(Copies(jobs, Stopped(n))) + Cardinality(Leaders) + Vacancy
                 <= 1 + faults
        BY DEF LoadInv
      <3>2. Cardinality(Copies(jobs, Stopped(n))) \in Nat
        BY <3>1, FS_CardinalityType
      <3> QED
        BY <1>1, <2>4, <3>1, <3>2
    <2>7. ASSUME NEW n \in Node, NEW d \in Day
          PROVE  /\ IsFiniteSet(Copies(jobs, Of(n, d)))
                 /\ <<n, d>> \notin late => Load(n, d) <= 1 + faults'
      <3>1. /\ IsFiniteSet(Copies(jobs, Of(n, d)))
            /\ <<n, d>> \notin late => Load(n, d) <= 1 + faults
        BY DEF LoadInv
      <3>2. Cardinality(Copies(jobs, Of(n, d))) \in Nat /\ Given(n, d) \in Nat
        BY <3>1, FS_CardinalityType, GivenType
      <3>3. Load(n, d) \in Nat
        BY <2>4, <3>2 DEF Load
      <3> QED
        BY <1>1, <2>4, <3>1, <3>3
    <2>8. LoadInv'
      BY <1>2, <2>1, <2>2, <2>3, <2>6, <2>7 DEF LoadInv
    <2> QED
      BY <2>5, <2>8
  <1>4. CASE DayOf(clock + 1) # Today
    <2>0. PICK day \in Day : day = DayOf(clock + 1)
      BY <1>1, DayType DEF TypeOK
    <2>1. /\ Today' = day /\ day > Today /\ day \in Day /\ Today \in Day
      <3>1. Today' = day
        BY <1>1, <2>0 DEF Today
      <3>2. day > Today
        BY <1>1, <1>4, <2>0, NewDay DEF Today
      <3>3. day \in Day /\ Today \in Day
        BY <1>1, DayType DEF TypeOK, Today
      <3> QED
        BY <3>1, <3>2, <3>3
    <2>2. late' = late \union (NotBegun \X {day})
      BY <1>4, <2>0 DEF Tick
    <2>3. Pending' \subseteq Leaders
      BY <1>2 DEF Pending
    <2>4. rounds[day] = 0
      BY <2>1 DEF DateInv
    <2>5. /\ faults \in Nat /\ Vacancy \in {0, 1}
          /\ Cardinality(Leaders) \in Nat /\ Cardinality(Pending) \in Nat
          /\ \A d \in Day : rounds[d] \in Nat
      BY Numbers
    <2>6. IsFiniteSet(Pending') /\ Cardinality(Pending') <= Cardinality(Leaders)
      BY <2>3, FS_Subset DEF RoundInv
    <2>7. Cardinality(Pending') \in Nat
      BY <2>6, FS_CardinalityType
    <2>8. RoundInv'
      <3> HIDE DEF Today, Leaders, Pending, Vacancy, Day, Of, Given
      <3> QED
        BY <1>1, <1>2, <2>1, <2>4, <2>5, <2>6, <2>7 DEF RoundInv
    <2>9. ASSUME NEW n \in Node
          PROVE  /\ IsFiniteSet(Copies(jobs, Stopped(n)))
                 /\ Cardinality(Copies(jobs, Stopped(n))) \in Nat
                 /\ Cardinality(Copies(jobs, Stopped(n))) + Cardinality(Leaders) + Vacancy
                      <= 1 + faults'
      <3>1. /\ IsFiniteSet(Copies(jobs, Stopped(n)))
            /\ Cardinality(Copies(jobs, Stopped(n))) + Cardinality(Leaders) + Vacancy
                 <= 1 + faults
        BY DEF LoadInv
      <3>2. Cardinality(Copies(jobs, Stopped(n))) \in Nat
        BY <3>1, FS_CardinalityType
      <3> QED
        BY <1>1, <2>5, <3>1, <3>2
    <2>10. ASSUME NEW n \in Node, NEW d \in Day, d # day
           PROVE  /\ IsFiniteSet(Copies(jobs, Of(n, d)'))
                  /\ <<n, d>> \notin late' => Load(n, d)' <= 1 + faults'
      <3>1. Of(n, d)' \subseteq Of(n, d)
        BY <2>1, <2>10 DEF Of, DateOf
      <3>2. Copies(jobs, Of(n, d)') \subseteq Copies(jobs, Of(n, d))
        BY <3>1 DEF Copies
      <3>3. /\ IsFiniteSet(Copies(jobs, Of(n, d)))
            /\ <<n, d>> \notin late => Load(n, d) <= 1 + faults
        BY DEF LoadInv
      <3> DEFINE c == Cardinality(Copies(jobs, Of(n, d)))
                 c1 == Cardinality(Copies(jobs, Of(n, d)'))
                 open == IF d = Today THEN Cardinality(Pending) + Vacancy ELSE 0
      <3>4. IsFiniteSet(Copies(jobs, Of(n, d)')) /\ c1 <= c /\ c \in Nat /\ c1 \in Nat
        BY <3>2, <3>3, FS_Subset, FS_CardinalityType
      <3>5. Given(n, d) \in Nat /\ open \in Nat
        BY <2>5, GivenType
      <3>6. Load(n, d) = Given(n, d) + c + open
        BY DEF Load
      <3>7. Load(n, d)' = Given(n, d) + c1 + 0
        BY <1>2, <2>1, <2>10 DEF Load
      <3>8. <<n, d>> \notin late' => <<n, d>> \notin late
        BY <2>2
      <3> HIDE DEF c, c1, open
      <3>9. Load(n, d)' <= Load(n, d) /\ Load(n, d) \in Nat /\ Load(n, d)' \in Nat
        BY <3>4, <3>5, <3>6, <3>7
      <3> QED
        BY <1>1, <2>5, <3>3, <3>4, <3>8, <3>9
    <2>11. ASSUME NEW n \in Node
           PROVE  /\ IsFiniteSet(Copies(jobs, Of(n, day)'))
                  /\ <<n, day>> \notin late' => Load(n, day)' <= 1 + faults'
      <3>1. \A j \in BagToSet(jobs) : j \in Of(n, day)' =>
               j \in Job /\ j.node = n /\ j.auditDate = NoDate
        <4> SUFFICES ASSUME NEW j \in BagToSet(jobs), j \in Of(n, day)'
                     PROVE  j \in Job /\ j.node = n /\ j.auditDate = NoDate
          OBVIOUS
        <4>1. j \in Job /\ j.node = n /\ DateOf(j)' = day
          BY DEF Of
        <4>2. j.auditDate <= Today
          BY DEF DateInv
        <4> QED
          BY <2>1, <4>1, <4>2 DEF DateOf, Day
      <3>2. Copies(jobs, Of(n, day)') \subseteq Copies(jobs, Of(n, Today))
        <4>1. \A j \in BagToSet(jobs) : j \in Of(n, day)' => j \in Of(n, Today)
          BY <3>1 DEF Of, DateOf
        <4> QED
          BY <4>1 DEF Copies
      <3>3. IsFiniteSet(Copies(jobs, Of(n, day)'))
        <4>1. IsFiniteSet(Copies(jobs, Of(n, Today)))
          BY <2>1 DEF LoadInv
        <4> QED
          BY <3>2, <4>1, FS_Subset
      <3>4. ASSUME <<n, day>> \notin late' PROVE Load(n, day)' <= 1 + faults'
        <4>1. \A j \in BagToSet(jobs) : j \in Of(n, day)' => j \in Stopped(n)
          <5>1. n \notin NotBegun
            BY <2>2, <3>4
          <5>2. \A j \in BagToSet(jobs) :
                   j \in Job /\ j.node = n /\ j.auditDate = NoDate => j.at = "failed"
            BY <5>1 DEF NotBegun, Job
          <5> QED
            BY <3>1, <5>2 DEF Stopped
        <4>2. Copies(jobs, Of(n, day)') \subseteq Copies(jobs, Stopped(n))
          BY <4>1 DEF Copies
        <4>3. Given(n, day) = 0
          <5>1. \A v \in BagToSet(verdicts) : v.auditDate # day
            BY <2>1 DEF DateInv, Day
          <5>2. VerdictsOn(n, day, TRUE) = 0 /\ VerdictsOn(n, day, FALSE) = 0
            BY <5>1 DEF VerdictsOn, BagIn
          <5> DEFINE a == VerdictsOn(n, day, TRUE)
                     b == VerdictsOn(n, day, FALSE)
          <5>3. Given(n, day) = a + b /\ a = 0 /\ b = 0
            BY <5>2, Zenon DEF Given
          <5> HIDE DEF a, b
          <5> QED
            BY <5>3
        <4> DEFINE c == Cardinality(Copies(jobs, Stopped(n)))
                   c1 == Cardinality(Copies(jobs, Of(n, day)'))
        <4>4. c1 <= c /\ c \in Nat /\ c1 \in Nat
          BY <2>9, <3>3, <4>2, FS_Subset, FS_CardinalityType
        <4>5. c + Cardinality(Leaders) + Vacancy <= 1 + faults'
          BY <2>9
        <4>6. Load(n, day)' = 0 + c1 + (Cardinality(Pending') + Vacancy)
          BY <1>2, <2>1, <4>3 DEF Load
        <4> HIDE DEF c, c1
        <4> QED
          BY <1>1, <2>5, <2>6, <2>7, <4>4, <4>5, <4>6
      <3> QED
        BY <3>3, <3>4
    <2>12. LoadInv'
      <3>1. \A n \in Node : \A d \in Day :
               /\ IsFiniteSet(Copies(jobs', Of(n, d)'))
               /\ <<n, d>> \notin late' => Load(n, d)' <= 1 + faults'
        BY <1>2, <2>10, <2>11
      <3>2. \A n \in Node :
               /\ IsFiniteSet(Copies(jobs', Stopped(n)))
               /\ Cardinality(Copies(jobs', Stopped(n))) + Cardinality(Leaders') + Vacancy'
                    <= 1 + faults'
        BY <1>2, <2>9
      <3> QED
        BY <3>1, <3>2 DEF LoadInv
    <2> QED
      BY <2>8, <2>12
  <1> QED
    BY <1>3, <1>4


-----------------------------------------------------------------------------
(* The bounds hold.                                                        *)

(* A task with a date that has come, or one that has yet to run. *)
Dated(j) ==
    /\ j.auditDate <= Today
    /\ j.auditDate = NoDate => j.stage = "hash_submission" /\ j.retryCount = 0

(* What a task is put back as, and what follows it, are of its audit. *)
LEMMA Successors ==
    ASSUME TypeOK, DateInv, NEW j \in BagToSet(jobs)
    PROVE  /\ j \in Job /\ j.node \in Node /\ DateOf(j) \in Day /\ DateOf(j) <= Today
           /\ \A k \in {Follow(j), Retry(j)} :
                 /\ k.node = j.node /\ DateOf(k) = DateOf(j) /\ Dated(k)
                 /\ k \notin Stopped(j.node)
           /\ \A k \in {[j EXCEPT !.at = "failed"],
                        [j EXCEPT !.at = "queued", !.due = clock]} :
                 k.node = j.node /\ DateOf(k) = DateOf(j) /\ Dated(k)
           /\ [j EXCEPT !.at = "queued", !.due = clock] \notin Stopped(j.node)
           /\ j.auditDate # NoDate => [j EXCEPT !.at = "failed"] \notin Stopped(j.node)
  <1>1. j \in Job /\ Today \in Day
    BY DayType DEF TypeOK, Today
  <1>2. j.auditDate <= Today /\ (j.auditDate = NoDate =>
                                    j.stage = "hash_submission" /\ j.retryCount = 0)
    BY DEF DateInv
  <1>3. j.node \in Node /\ DateOf(j) \in Day /\ DateOf(j) <= Today
    BY <1>1, <1>2 DEF Job, DateOf, Day
  <1>4. DateOf(j) # NoDate
    BY <1>3 DEF Day, NoDate
  <1> HIDE DEF Today, Day, NoDate
  <1>5. /\ Follow(j).node = j.node /\ Follow(j).auditDate = DateOf(j)
        /\ Retry(j).node = j.node /\ Retry(j).auditDate = DateOf(j)
    BY <1>1 DEF Follow, Retry, Job
  <1>6. ASSUME NEW k \in {Follow(j), Retry(j)}
        PROVE  /\ k.node = j.node /\ DateOf(k) = DateOf(j) /\ Dated(k)
               /\ k \notin Stopped(j.node)
    <2>1. k.node = j.node /\ k.auditDate = DateOf(j)
      BY <1>5
    <2> HIDE DEF DateOf
    <2>2. Dated(k) /\ k \notin Stopped(j.node)
      BY <1>3, <1>4, <2>1 DEF Dated, Stopped
    <2>3. DateOf(k) = k.auditDate
      BY <1>4, <2>1 DEF DateOf
    <2> QED
      BY <2>1, <2>2, <2>3
  <1>7. ASSUME NEW k \in {[j EXCEPT !.at = "failed"],
                          [j EXCEPT !.at = "queued", !.due = clock]}
        PROVE  k.node = j.node /\ DateOf(k) = DateOf(j) /\ Dated(k)
    <2>1. k.node = j.node /\ k.auditDate = j.auditDate /\ k.stage = j.stage
          /\ k.retryCount = j.retryCount
      BY <1>1 DEF Job
    <2> QED
      BY <1>2, <2>1 DEF DateOf, Dated
  <1>8. [j EXCEPT !.at = "queued", !.due = clock] \notin Stopped(j.node)
    BY <1>1 DEF Job, Stopped
  <1>9. j.auditDate # NoDate => [j EXCEPT !.at = "failed"] \notin Stopped(j.node)
    BY <1>1 DEF Job, Stopped
  <1> QED
    BY <1>1, <1>3, <1>6, <1>7, <1>8, <1>9

(* TaskStep, with the dates. *)
LEMMA TaskBound ==
    ASSUME BoundInv, TypeOK', UNCHANGED <<clock, producer, late>>,
           NEW gain \in {0, 1}, faults' = faults + gain,
           NEW j \in BagToSet(jobs),
           NEW k \in Job, k.node = j.node, DateOf(k) = DateOf(j), Dated(k),
           k \in Stopped(j.node) => gain = 1 \/ j \in Stopped(j.node),
           NEW l \in Job, l.node = j.node, DateOf(l) = DateOf(j), Dated(l),
           l \notin Stopped(j.node),
           NEW v \in Verdict, v.node = j.node, v.auditDate = DateOf(j),
           \/ /\ jobs' = Done(j)
              /\ verdicts' = verdicts \/ verdicts' = verdicts (+) One(v)
           \/ /\ jobs' = Done(j) (+) One(k)
              /\ verdicts' = verdicts \/ (gain = 1 /\ verdicts' = verdicts (+) One(v))
           \/ /\ jobs' = Done(j) (+) One(k) (+) One(l)
              /\ verdicts' = verdicts /\ gain = 1
    PROVE  BoundInv'
  <1>1. j \in Job /\ BagIn(j, jobs) /\ DateOf(j) <= Today
    BY Successors DEF BoundInv, BagIn
  <1>2. RoundInv' /\ LoadInv'
    BY <1>1, TaskStep DEF BoundInv
  <1>3. DateInv'
    <2>1. IsABag(jobs) /\ IsABag(verdicts)
      BY DEF BoundInv, TypeOK
    <2>2. IsABag(Done(j)) /\ BagToSet(Done(j)) \subseteq BagToSet(jobs)
      BY <1>1, <2>1, BagMinus DEF Done
    <2>3. /\ IsABag(Done(j) (+) One(k))
          /\ BagToSet(Done(j) (+) One(k)) \subseteq BagToSet(jobs) \union {k}
      BY <2>2, BagPlus
    <2>4. BagToSet(Done(j) (+) One(k) (+) One(l)) \subseteq BagToSet(jobs) \union {k, l}
      BY <2>3, BagPlus
    <2>5. BagToSet(jobs') \subseteq BagToSet(jobs) \union {k, l}
      BY <2>2, <2>3, <2>4
    <2>6. BagToSet(verdicts') \subseteq BagToSet(verdicts) \union {v}
      BY <2>1, BagPlus
    <2>7. Today' = Today /\ rounds' = rounds
      BY DEF producer, Today
    <2> HIDE DEF Today
    <2>8. \A x \in BagToSet(jobs') : Dated(x)
      BY <2>5 DEF BoundInv, DateInv, Dated
    <2>9. \A x \in BagToSet(verdicts') : x.auditDate <= Today
      BY <1>1, <2>6 DEF BoundInv, DateInv
    <2> QED
      BY <2>7, <2>8, <2>9 DEF BoundInv, DateInv, Dated
  <1> QED
    BY <1>2, <1>3 DEF BoundInv


LEMMA InitBound == Init => BoundInv
  <1> SUFFICES ASSUME Init PROVE BoundInv
    OBVIOUS
  <1>1. TypeOK
    BY InitTypeOK
  <1>2. Today \in Day /\ faults = 0 /\ Vacancy = 1
    BY <1>1, DayType DEF Init, TypeOK, Today, Vacancy
  <1>3. /\ BagToSet(jobs) = {} /\ BagToSet(verdicts) = {}
        /\ \A d \in Day : rounds[d] = 0
    BY BagEmpty DEF Init
  <1>4. Leaders = {} /\ Pending = {}
    BY DEF Init, Leaders, Pending
  <1>5. Cardinality(Leaders) = 0 /\ Cardinality(Pending) = 0 /\ IsFiniteSet(Leaders)
    BY <1>4, FS_EmptySet
  <1>6. \A S : Copies(jobs, S) = {}
    BY <1>3 DEF Copies
  <1>7. \A S : Cardinality(Copies(jobs, S)) = 0 /\ IsFiniteSet(Copies(jobs, S))
    BY <1>6, FS_EmptySet
  <1>8. ASSUME NEW n, NEW d PROVE Given(n, d) = 0
    <2> DEFINE a == VerdictsOn(n, d, TRUE)
               b == VerdictsOn(n, d, FALSE)
    <2>1. a = 0 /\ b = 0
      BY <1>3 DEF VerdictsOn, BagIn
    <2>2. Given(n, d) = a + b
      BY Zenon DEF Given
    <2> HIDE DEF a, b
    <2> QED
      BY <2>1, <2>2
  <1> HIDE DEF Today, Leaders, Pending, Vacancy, Day, Of, Given
  <1>9. DateInv
    BY <1>3 DEF DateInv
  <1>10. RoundInv
    BY <1>2, <1>3, <1>5 DEF RoundInv
  <1>11. LoadInv
    BY <1>2, <1>5, <1>7, <1>8 DEF LoadInv, Load
  <1> QED
    BY <1>1, <1>9, <1>10, <1>11 DEF BoundInv

LEMMA NextBound == BoundInv /\ [Next]_vars => BoundInv'
  <1> SUFFICES ASSUME BoundInv, [Next]_vars PROVE BoundInv'
    OBVIOUS
  <1>t. TypeOK /\ DateInv /\ RoundInv /\ LoadInv /\ TypeOK'
    BY NextTypeOK DEF BoundInv
  <1>n. /\ Cardinality(Leaders) \in Nat /\ Cardinality(Pending) \in Nat
        /\ Vacancy \in {0, 1} /\ faults \in Nat
    BY <1>t, Numbers
  <1>f. Fault => faults' = faults + 1
    BY DEF Fault
  <1>d. ASSUME UNCHANGED <<clock, jobs, verdicts, rounds>> PROVE DateInv'
    BY <1>t, <1>d DEF DateInv, Today
  <1>1. ASSUME NEW p \in Producer, GainLeadership(p) PROVE BoundInv'
    <2>1. /\ UNCHANGED <<clock, jobs, verdicts, rounds, late>>
          /\ faults' = faults + 0
          /\ \A q \in Producer \ {p} : IS_LEADER'[q] = IS_LEADER[q]
                                       /\ currentDay'[q] = currentDay[q]
          /\ Vacancy = 1 /\ Vacancy' = 0
      BY <1>1, <1>t, NoProducerAssumption DEF GainLeadership, records, TypeOK, Vacancy
    <2>2. /\ IsFiniteSet(Leaders')
          /\ Cardinality(Leaders') <= Cardinality(Leaders) + 1
          /\ Cardinality(Pending') <= Cardinality(Pending) + 1
      BY <1>t, <2>1, LeadersStep
    <2>3. Cardinality(Leaders') \in Nat /\ Cardinality(Pending') \in Nat
      BY <2>2, FS_Subset, FS_CardinalityType DEF Pending
    <2> HIDE DEF Leaders, Pending, Vacancy
    <2>4. /\ Cardinality(Leaders') + Vacancy' <= Cardinality(Leaders) + Vacancy + 0
          /\ Cardinality(Pending') + Vacancy' <= Cardinality(Pending) + Vacancy + 0
      BY <1>n, <2>1, <2>2, <2>3
    <2>5. RoundInv' /\ LoadInv'
      BY <1>t, <2>1, <2>2, <2>4, SeatStep
    <2> QED
      BY <1>d, <1>t, <2>1, <2>5 DEF BoundInv
  <1>2. ASSUME NEW p \in Producer, LeadershipError(p) PROVE BoundInv'
    <2>1. /\ UNCHANGED <<clock, jobs, verdicts, rounds, late>>
          /\ faults' = faults + 0
          /\ ~IS_LEADER'[p]
          /\ \A q \in Producer \ {p} : IS_LEADER'[q] = IS_LEADER[q]
                                       /\ currentDay'[q] = currentDay[q]
          /\ Vacancy' = Vacancy
      BY <1>2, <1>t DEF LeadershipError, records, TypeOK, Vacancy
    <2>2. /\ IsFiniteSet(Leaders')
          /\ Cardinality(Leaders') <= Cardinality(Leaders)
          /\ Cardinality(Pending') <= Cardinality(Pending)
      BY <1>t, <2>1, LeadersStep
    <2>3. Cardinality(Leaders') \in Nat /\ Cardinality(Pending') \in Nat
      BY <2>2, FS_Subset, FS_CardinalityType DEF Pending
    <2> HIDE DEF Leaders, Pending, Vacancy
    <2>4. /\ Cardinality(Leaders') + Vacancy' <= Cardinality(Leaders) + Vacancy + 0
          /\ Cardinality(Pending') + Vacancy' <= Cardinality(Pending) + Vacancy + 0
      BY <1>n, <2>1, <2>2, <2>3
    <2>5. RoundInv' /\ LoadInv'
      BY <1>t, <2>1, <2>2, <2>4, SeatStep
    <2> QED
      BY <1>d, <1>t, <2>1, <2>5 DEF BoundInv
  <1>3. ASSUME NEW p \in Producer, RestartProducer(p) PROVE BoundInv'
    <2>1. /\ UNCHANGED <<clock, jobs, verdicts, rounds, late>>
          /\ faults' = faults + 1
          /\ ~IS_LEADER'[p]
          /\ \A q \in Producer \ {p} : IS_LEADER'[q] = IS_LEADER[q]
                                       /\ currentDay'[q] = currentDay[q]
          /\ Vacancy' \in {Vacancy, Vacancy + 1}
      BY <1>3, <1>t, <1>f DEF RestartProducer, records, TypeOK, Vacancy
    <2>2. /\ IsFiniteSet(Leaders')
          /\ Cardinality(Leaders') <= Cardinality(Leaders)
          /\ Cardinality(Pending') <= Cardinality(Pending)
      BY <1>t, <2>1, LeadersStep
    <2>3. Cardinality(Leaders') \in Nat /\ Cardinality(Pending') \in Nat
      BY <2>2, FS_Subset, FS_CardinalityType DEF Pending
    <2> HIDE DEF Leaders, Pending, Vacancy
    <2>4. /\ Cardinality(Leaders') + Vacancy' <= Cardinality(Leaders) + Vacancy + 1
          /\ Cardinality(Pending') + Vacancy' <= Cardinality(Pending) + Vacancy + 1
      BY <1>n, <2>1, <2>2, <2>3
    <2>5. RoundInv' /\ LoadInv'
      BY <1>t, <2>1, <2>2, <2>4, SeatStep
    <2> QED
      BY <1>d, <1>t, <2>1, <2>5 DEF BoundInv
  <1>4. CASE SessionExpires
    <2>1. /\ UNCHANGED <<clock, jobs, verdicts, rounds, late>>
          /\ faults' = faults + 1
          /\ Leaders' = Leaders /\ Pending' = Pending
          /\ Vacancy' \in {Vacancy, Vacancy + 1}
      BY <1>4, <1>f DEF SessionExpires, records, Leaders, Pending, Today, Vacancy
    <2>2. IsFiniteSet(Leaders)
      BY <1>t DEF RoundInv
    <2> HIDE DEF Leaders, Pending, Vacancy
    <2>4. /\ Cardinality(Leaders') + Vacancy' <= Cardinality(Leaders) + Vacancy + 1
          /\ Cardinality(Pending') + Vacancy' <= Cardinality(Pending) + Vacancy + 1
      BY <1>n, <2>1
    <2>5. RoundInv' /\ LoadInv'
      BY <1>t, <2>1, <2>2, <2>4, SeatStep
    <2> QED
      BY <1>d, <1>t, <2>1, <2>5 DEF BoundInv
  <1>5. CASE Produce
    <2>1. PICK p \in Producer : PerformE2ENodeAudit(p)
      BY <1>5 DEF Produce
    <2>2. RoundInv' /\ LoadInv'
      BY <1>t, <2>1, RoundStep
    <2>3. PICK N \in SUBSET Node : jobs' = jobs (+) SetToBag({FirstTask(n) : n \in N})
      BY <2>1 DEF PerformE2ENodeAudit
    <2>4. BagToSet(jobs') = BagToSet(jobs) \union {FirstTask(n) : n \in N}
      BY <1>t, <2>3, BagPlusSet DEF TypeOK
    <2>5. Today' = Today /\ verdicts' = verdicts /\ Today \in Day
      BY <1>t, <2>1, DayType DEF PerformE2ENodeAudit, records, Today, TypeOK
    <2>6. \A n \in N : Dated(FirstTask(n))
      BY <2>5 DEF Dated, FirstTask, NoDate, Day
    <2>7. \A j \in BagToSet(jobs) : Dated(j)
      BY <1>t DEF DateInv, Dated
    <2>8. \A d \in Day : d > Today => rounds'[d] = 0
      BY <1>t, <2>1, <2>5 DEF PerformE2ENodeAudit, DateInv, TypeOK, Day
    <2> HIDE DEF Today
    <2>9. \A j \in BagToSet(jobs') : Dated(j)
      BY <2>4, <2>6, <2>7
    <2>10. DateInv'
      BY <1>t, <2>5, <2>8, <2>9 DEF DateInv, Dated
    <2> QED
      BY <1>t, <2>2, <2>10 DEF BoundInv
  <1>j. ASSUME NEW j \in BagToSet(jobs)
        PROVE  /\ j \in Job /\ BagIn(j, jobs)
               /\ \A auditPass \in BOOLEAN :
                     [node |-> j.node, auditDate |-> DateOf(j), auditPass |-> auditPass]
                       \in Verdict
    BY <1>t, Successors, JobTypes DEF BagIn
  <1> DEFINE failed(j) == [j EXCEPT !.at = "failed"]
             again(j) == [j EXCEPT !.at = "queued", !.due = clock]
             verdict(j, pass) == [node |-> j.node, auditDate |-> DateOf(j),
                                  auditPass |-> pass]
  <1>s. \A j \in BagToSet(jobs) :
           /\ Follow(j) \in Job /\ failed(j) \in Job /\ again(j) \in Job
           /\ MayRetry(j) => Retry(j) \in Job
    BY <1>t, <1>j, JobTypes
  (* A task ends. *)
  <1>a. ASSUME NEW j \in BagToSet(jobs), NEW gain \in {0, 1}, faults' = faults + gain,
               UNCHANGED <<clock, producer, late>>, jobs' = Done(j), NEW pass \in BOOLEAN,
               verdicts' = verdicts \/ verdicts' = verdicts (+) One(verdict(j, pass))
        PROVE  BoundInv'
    <2> DEFINE v == verdict(j, pass)
               k == Follow(j)
    <2>1. /\ k.node = j.node /\ DateOf(k) = DateOf(j) /\ Dated(k)
          /\ k \in Job /\ k \notin Stopped(j.node)
      BY <1>t, <1>s, Successors
    <2>2. v \in Verdict /\ v.node = j.node /\ v.auditDate = DateOf(j)
      BY <1>j
    <2>3. verdicts' = verdicts \/ verdicts' = verdicts (+) One(v)
      BY <1>a
    <2> HIDE DEF v, k, verdict, failed, again
    <2> QED
      BY <1>a, <1>t, <2>1, <2>2, <2>3, TaskBound
  (* A task is put back, or another follows. *)
  <1>b. ASSUME NEW j \in BagToSet(jobs), NEW gain \in {0, 1}, faults' = faults + gain,
               UNCHANGED <<clock, producer, late>>, NEW k \in Job,
               \/ k \in {Follow(j), Retry(j), again(j)}
               \/ k = failed(j) /\ (gain = 1 \/ j.auditDate # NoDate),
               jobs' = Done(j) (+) One(k), NEW pass \in BOOLEAN,
               \/ verdicts' = verdicts
               \/ gain = 1 /\ verdicts' = verdicts (+) One(verdict(j, pass))
        PROVE  BoundInv'
    <2> DEFINE v == verdict(j, pass)
               l == Follow(j)
    <2>1. /\ l.node = j.node /\ DateOf(l) = DateOf(j) /\ Dated(l)
          /\ l \in Job /\ l \notin Stopped(j.node)
      BY <1>t, <1>s, Successors
    <2>2. v \in Verdict /\ v.node = j.node /\ v.auditDate = DateOf(j)
      BY <1>j
    <2>3. verdicts' = verdicts \/ (gain = 1 /\ verdicts' = verdicts (+) One(v))
      BY <1>b
    <2>4. /\ k.node = j.node /\ DateOf(k) = DateOf(j) /\ Dated(k)
          /\ k \in Stopped(j.node) => gain = 1
      <3>1. CASE k = Follow(j) \/ k = Retry(j)
        BY <1>t, <3>1, Successors
      <3>2. CASE k = again(j)
        BY <1>t, <3>2, Successors
      <3>3. CASE k = failed(j) /\ (gain = 1 \/ j.auditDate # NoDate)
        BY <1>t, <3>3, Successors
      <3> QED
        BY <1>b, <3>1, <3>2, <3>3
    <2> HIDE DEF v, l, verdict, failed, again
    <2> QED
      BY <1>b, <1>t, <2>1, <2>2, <2>3, <2>4, TaskBound
  (* A task is put back, and another follows. *)
  <1>c. ASSUME NEW j \in BagToSet(jobs), faults' = faults + 1,
               UNCHANGED <<clock, producer, verdicts, late>>,
               NEW l \in Job, l \in {Follow(j), Retry(j)},
               jobs' = Done(j) (+) One(failed(j)) (+) One(l)
        PROVE  BoundInv'
    <2> DEFINE v == verdict(j, TRUE)
               k == failed(j)
               gain == 1
    <2>1. /\ l.node = j.node /\ DateOf(l) = DateOf(j) /\ Dated(l)
          /\ l \notin Stopped(j.node)
      BY <1>c, <1>t, Successors
    <2>2. v \in Verdict /\ v.node = j.node /\ v.auditDate = DateOf(j)
      BY <1>j
    <2>3. /\ k.node = j.node /\ DateOf(k) = DateOf(j) /\ Dated(k) /\ k \in Job
      BY <1>s, <1>t, Successors
    <2>4. /\ gain \in {0, 1} /\ gain = 1 /\ faults' = faults + gain
          /\ jobs' = Done(j) (+) One(k) (+) One(l)
      BY <1>c
    <2> HIDE DEF v, k, gain, verdict, failed, again
    <2> QED
      BY <1>c, <1>t, <2>1, <2>2, <2>3, <2>4, TaskBound
  <1> HIDE DEF failed, again, verdict
  <1>6. ASSUME NEW j \in BagToSet(jobs), PassStage(j) PROVE BoundInv'
    <2>1. /\ jobs' = Done(j) (+) One(Follow(j)) /\ verdicts' = verdicts
          /\ UNCHANGED <<clock, producer, late>>
      BY <1>6 DEF PassStage
    <2>2. faults' = faults + 0 \/ faults' = faults + 1
      BY <1>6, <1>n, <1>f DEF PassStage, AddE2EAuditToLog
    <2>3. Follow(j) \in Job
      BY <1>s
    <2> QED
      BY <1>b, <2>1, <2>2, <2>3
  <1>7. ASSUME NEW j \in BagToSet(jobs), RetryStage(j) PROVE BoundInv'
    <2>1. /\ jobs' = Done(j) (+) One(Retry(j)) /\ verdicts' = verdicts
          /\ UNCHANGED <<clock, producer, late>>
      BY <1>7 DEF RetryStage
    <2>2. faults' = faults + 0 \/ faults' = faults + 1
      BY <1>7, <1>n, <1>f DEF RetryStage, AddE2EAuditToLog
    <2>3. Retry(j) \in Job
      BY <1>s, <1>7 DEF RetryStage
    <2> QED
      BY <1>b, <2>1, <2>2, <2>3
  <1>8. ASSUME NEW j \in BagToSet(jobs), NEW auditPass \in BOOLEAN,
               GiveVerdict(j, auditPass)
        PROVE  BoundInv'
    <2>1. /\ jobs' = Done(j) /\ UNCHANGED <<clock, producer, late>>
          /\ verdicts' = verdicts \/ verdicts' = verdicts (+) One(verdict(j, auditPass))
          /\ faults' = faults + 0 \/ faults' = faults + 1
      BY <1>8, <1>n, <1>f DEF GiveVerdict, UpdateE2EAuditScore, verdict
    <2> QED
      BY <1>a, <2>1
  <1>9. ASSUME NEW j \in BagToSet(jobs), NEW auditPass \in BOOLEAN,
               VerdictThrows(j, auditPass)
        PROVE  BoundInv'
    <2>1. UNCHANGED <<clock, producer, late>> /\ verdicts' = verdicts
      BY <1>9 DEF VerdictThrows, records
    <2>2. j.auditDate # NoDate
      <3>1. j.auditDate = NoDate => j.stage = "hash_submission" /\ j.retryCount = 0
        BY <1>t DEF DateInv
      <3> QED
        BY <1>9, <3>1 DEF VerdictThrows, Final, MayRetry, Retries
    <2>3. CASE jobs' = Done(j) (+) One(Retry(j)) /\ MayRetry(j) /\ faults' = faults
      <3>1. Retry(j) \in Job /\ faults' = faults + 0
        BY <1>s, <1>n, <2>3
      <3> QED
        BY <1>b, <2>1, <2>3, <3>1
    <2>4. CASE jobs' = Done(j) /\ Fault
      BY <1>a, <1>f, <2>1, <2>4
    <2>5. CASE jobs' = FailedList(j) /\ faults' = faults
      <3>1. failed(j) \in Job /\ faults' = faults + 0 /\ jobs' = Done(j) (+) One(failed(j))
        BY <1>s, <1>n, <2>5 DEF FailedList, failed
      <3> QED
        BY <1>b, <2>1, <2>2, <3>1
    <2> QED
      BY <1>9, <2>3, <2>4, <2>5 DEF VerdictThrows
  <1>10. ASSUME NEW j \in BagToSet(jobs), EnqueueFails(j) PROVE BoundInv'
    <2>1. /\ jobs' = Done(j) /\ UNCHANGED <<clock, producer, late>>
          /\ verdicts' = verdicts /\ faults' = faults + 1
      BY <1>10, <1>f DEF EnqueueFails, records
    <2> QED
      BY <1>a, <2>1
  <1>11. ASSUME NEW j \in BagToSet(jobs), Interrupted(j) PROVE BoundInv'
    <2>1. /\ UNCHANGED <<clock, producer, late>> /\ faults' = faults + 1
          /\ failed(j) \in Job /\ Follow(j) \in Job /\ FailedList(j) = Done(j) (+) One(failed(j))
      BY <1>11, <1>f, <1>s DEF Interrupted, FailedList, failed
    <2>2. \/ jobs' = FailedList(j) /\ verdicts' = verdicts
          \/ jobs' = FailedList(j) (+) One(Follow(j)) /\ verdicts' = verdicts
          \/ MayRetry(j) /\ jobs' = FailedList(j) (+) One(Retry(j)) /\ verdicts' = verdicts
          \/ \E pass \in BOOLEAN : /\ jobs' = FailedList(j)
                                    /\ verdicts' = verdicts (+) One(verdict(j, pass))
      BY <1>11 DEF Interrupted, records, verdict
    <2>3. CASE jobs' = FailedList(j) /\ verdicts' = verdicts
      BY <1>b, <2>1, <2>3
    <2>4. CASE jobs' = FailedList(j) (+) One(Follow(j)) /\ verdicts' = verdicts
      BY <1>c, <2>1, <2>4
    <2>5. CASE MayRetry(j) /\ jobs' = FailedList(j) (+) One(Retry(j)) /\ verdicts' = verdicts
      BY <1>c, <1>s, <2>1, <2>5
    <2>6. CASE \E pass \in BOOLEAN : /\ jobs' = FailedList(j)
                                     /\ verdicts' = verdicts (+) One(verdict(j, pass))
      BY <1>b, <2>1, <2>6
    <2> QED
      BY <2>2, <2>3, <2>4, <2>5, <2>6
  <1>12. ASSUME NEW j \in BagToSet(jobs), RequeueFailedJob(j) PROVE BoundInv'
    <2>1. /\ UNCHANGED <<clock, producer, late>> /\ verdicts' = verdicts
          /\ faults' = faults + 0
      BY <1>12, <1>n DEF RequeueFailedJob, records
    <2>2. jobs' = Done(j) (+) One(again(j))
      BY <1>12, Zenon DEF RequeueFailedJob, again
    <2>3. again(j) \in Job
      BY <1>s
    <2> QED
      BY <1>b, <2>1, <2>2, <2>3
  <1>13. ASSUME UNCHANGED <<clock, jobs, verdicts, producer, late>>,
                faults' \in {faults, faults + 1}
         PROVE  BoundInv'
    <2>1. /\ Leaders' = Leaders /\ Pending' = Pending /\ Vacancy' = Vacancy
          /\ rounds' = rounds
      BY <1>13 DEF producer, Leaders, Pending, Vacancy, Today
    <2>2. PICK gain \in {0, 1} : faults' = faults + gain
      BY <1>13, <1>n
    <2>3. IsFiniteSet(Leaders)
      BY <1>t DEF RoundInv
    <2> HIDE DEF Leaders, Pending, Vacancy
    <2>4. /\ Cardinality(Leaders') + Vacancy' <= Cardinality(Leaders) + Vacancy + gain
          /\ Cardinality(Pending') + Vacancy' <= Cardinality(Pending) + Vacancy + gain
      BY <1>n, <2>1
    <2>5. RoundInv' /\ LoadInv'
      BY <1>13, <1>t, <2>1, <2>2, <2>3, <2>4, SeatStep
    <2> QED
      BY <1>13, <1>d, <1>t, <2>1, <2>5 DEF BoundInv
  <1>14. CASE LoseChannel \/ OpenChannel
    BY <1>13, <1>14, <1>f DEF LoseChannel, OpenChannel, records
  <1>15. CASE Tick
    <2>1. RoundInv' /\ LoadInv'
      BY <1>t, <1>15, TickStep
    <2>2. Today' >= Today /\ Today \in Day /\ Today' \in Day
      <3>1. clock' = clock + 1 /\ clock \in Nat
        BY <1>15, <1>t DEF Tick, TypeOK
      <3> QED
        BY <1>t, <3>1, DaysGrow, DayType DEF Today, TypeOK
    <2>3. jobs' = jobs /\ verdicts' = verdicts /\ rounds' = rounds
      BY <1>15 DEF Tick, records, producer
    <2>4. /\ \A j \in BagToSet(jobs) : j.auditDate \in Int
          /\ \A v \in BagToSet(verdicts) : v.auditDate \in Int
          /\ \A d \in Day : d \in Int
      BY <1>t DEF TypeOK, Job, Verdict, Day, NoDate
    <2>5. DateInv'
      <3>1. Today \in Int /\ Today' \in Int
        BY <2>2 DEF Day
      <3> HIDE DEF Today, Day
      <3> QED
        BY <1>t, <2>2, <2>3, <2>4, <3>1 DEF DateInv
    <2> QED
      BY <1>t, <2>1, <2>5 DEF BoundInv
  <1>16. CASE UNCHANGED vars
    BY <1>13, <1>16 DEF vars, records
  <1> QED
    BY <1>1, <1>2, <1>3, <1>4, <1>5, <1>6, <1>7, <1>8, <1>9, <1>10, <1>11, <1>12,
       <1>14, <1>15, <1>16 DEF Next, Attempt

(* A day has one round, and a Node one verdict, for each fault one more:   *)
(* leaders change, tasks are run again or dated late, and nothing          *)
(* multiplies them.                                                        *)
THEOREM VerdictsBoundedByFaults == Spec => []OneVerdictPerFault
  <1>1. BoundInv => OneVerdictPerFault
    <2> SUFFICES ASSUME BoundInv PROVE OneVerdictPerFault
      OBVIOUS
    <2>1. \A d \in Day : rounds[d] <= 1 + faults
      BY DEF BoundInv, RoundInv
    <2>2. ASSUME NEW n \in Node, NEW d \in Day, <<n, d>> \notin late
          PROVE  VerdictsOn(n, d, TRUE) + VerdictsOn(n, d, FALSE) <= 1 + faults
      <3>1. /\ IsFiniteSet(Copies(jobs, Of(n, d))) /\ Load(n, d) <= 1 + faults
        BY <2>2 DEF BoundInv, LoadInv
      <3>2. /\ Cardinality(Copies(jobs, Of(n, d))) \in Nat /\ Given(n, d) \in Nat
            /\ Cardinality(Pending) \in Nat /\ Vacancy \in {0, 1} /\ faults \in Nat
        BY <3>1, FS_CardinalityType, GivenType, Numbers DEF BoundInv
      <3> HIDE DEF Pending, Vacancy, Of, Given
      <3>3. Given(n, d) <= 1 + faults
        BY <3>1, <3>2 DEF Load
      <3> QED
        BY <3>3, Zenon DEF Given
    <2> QED
      BY <2>1, <2>2 DEF OneVerdictPerFault
  <1> QED
    BY <1>1, InitBound, NextBound, PTL DEF Spec


-----------------------------------------------------------------------------
(* While nothing has failed.                                               *)

(* A verdict of the table is counted. *)
LEMMA VerdictCounts ==
    ASSUME TypeOK, NEW v \in BagToSet(verdicts)
    PROVE  /\ VerdictsOn(v.node, v.auditDate, v.auditPass) >= 1
           /\ Given(v.node, v.auditDate) >= 1
  <1>1. v \in Verdict /\ verdicts[v] \in Nat /\ verdicts[v] >= 1
    BY DEF TypeOK, IsABag, BagToSet
  <1>2. v = [node |-> v.node, auditDate |-> v.auditDate, auditPass |-> v.auditPass]
    BY <1>1 DEF Verdict
  <1>3. VerdictsOn(v.node, v.auditDate, v.auditPass) = verdicts[v]
    BY <1>2, Zenon DEF VerdictsOn, BagIn
  <1> DEFINE a == VerdictsOn(v.node, v.auditDate, TRUE)
             b == VerdictsOn(v.node, v.auditDate, FALSE)
  <1>4. \A x \in BagToSet(verdicts) : verdicts[x] \in Nat
    BY DEF TypeOK, IsABag, BagToSet
  <1>5. a \in Nat /\ b \in Nat
    BY <1>4 DEF VerdictsOn, BagIn
  <1>6. Given(v.node, v.auditDate) = a + b
    BY Zenon DEF Given
  <1>7. v.auditPass = TRUE \/ v.auditPass = FALSE
    BY <1>1 DEF Verdict
  <1>8. verdicts[v] = a \/ verdicts[v] = b
    BY <1>3, <1>7, Zenon
  <1> HIDE DEF a, b
  <1>9. Given(v.node, v.auditDate) >= 1
    BY <1>1, <1>5, <1>6, <1>8
  <1> QED
    BY <1>1, <1>3, <1>9

(* A Node has one task of a day, or one verdict, or neither. *)
LEMMA Alone ==
    ASSUME BoundInv, faults = 0, late = {}, NEW n \in Node, NEW d \in Day
    PROVE  /\ Given(n, d) <= 1
           /\ \A v, w \in BagToSet(verdicts) :
                 /\ v.node = n /\ v.auditDate = d /\ w.node = n /\ w.auditDate = d
                 => v = w
           /\ \A j \in BagToSet(jobs) : j \in Of(n, d) =>
                 /\ \A k \in BagToSet(jobs) : k \in Of(n, d) => k = j
                 /\ \A v \in BagToSet(verdicts) : ~(v.node = n /\ v.auditDate = d)
                 /\ BagToSet(Done(j)) = BagToSet(jobs) \ {j}
           /\ d = Today /\ Pending # {} =>
                 /\ \A j \in BagToSet(jobs) : j \notin Of(n, d)
                 /\ \A v \in BagToSet(verdicts) : ~(v.node = n /\ v.auditDate = d)
  <1> DEFINE C == Copies(jobs, Of(n, d))
             open == IF d = Today THEN Cardinality(Pending) + Vacancy ELSE 0
  <1>1. TypeOK /\ IsABag(jobs)
    BY DEF BoundInv, TypeOK
  <1>2. IsFiniteSet(C) /\ Given(n, d) + Cardinality(C) + open <= 1
    BY DEF BoundInv, LoadInv, Load
  <1>3. /\ Cardinality(C) \in Nat /\ Given(n, d) \in Nat
        /\ IsFiniteSet(Pending) /\ Cardinality(Pending) \in Nat /\ Vacancy \in {0, 1}
    BY <1>1, <1>2, FS_CardinalityType, GivenType, Numbers DEF BoundInv
  <1>4. open \in Nat
    BY <1>3
  <1>5. \A j \in BagToSet(jobs) : j \in Of(n, d) => <<j, jobs[j]>> \in C
    BY <1>1, CopyIn
  <1>6. ASSUME NEW x \in C PROVE Cardinality(C) = 1 /\ C = {x} /\ Given(n, d) = 0 /\ open = 0
    <2> HIDE DEF C, open
    <2>1. Cardinality({x}) = 1 /\ IsFiniteSet({x})
      BY FS_Singleton
    <2>2. {x} \in SUBSET C
      OBVIOUS
    <2>3. Cardinality({x}) <= Cardinality(C)
          /\ (Cardinality(C) = Cardinality({x}) => C = {x})
      BY <1>2, <2>2, FS_Subset
    <2> QED
      BY <1>2, <1>3, <1>4, <2>1, <2>3
  <1>7. Given(n, d) <= 1
    <2> HIDE DEF C, open
    <2> QED
      BY <1>2, <1>3, <1>4
  <1>8. ASSUME NEW v \in BagToSet(verdicts), NEW w \in BagToSet(verdicts),
               v.node = n, v.auditDate = d, w.node = n, w.auditDate = d
        PROVE  v = w
    <2>1. v \in Verdict /\ w \in Verdict
      BY <1>1 DEF TypeOK
    <2>2. VerdictsOn(n, d, v.auditPass) >= 1 /\ VerdictsOn(n, d, w.auditPass) >= 1
      BY <1>1, <1>8, VerdictCounts
    <2> DEFINE a == VerdictsOn(n, d, TRUE)
               b == VerdictsOn(n, d, FALSE)
    <2>3. Given(n, d) = a + b
      BY Zenon DEF Given
    <2>4. \A x \in BagToSet(verdicts) : verdicts[x] \in Nat
      BY <1>1 DEF TypeOK, IsABag, BagToSet
    <2>5. a \in Nat /\ b \in Nat
      BY <2>4 DEF VerdictsOn, BagIn
    <2>6. /\ v.auditPass = TRUE \/ v.auditPass = FALSE
          /\ w.auditPass = TRUE \/ w.auditPass = FALSE
      BY <2>1 DEF Verdict
    <2>7. v.auditPass # w.auditPass => a >= 1 /\ b >= 1
      <3>1. CASE v.auditPass = TRUE /\ w.auditPass = FALSE
        BY <2>2, <3>1, Zenon
      <3>2. CASE v.auditPass = FALSE /\ w.auditPass = TRUE
        BY <2>2, <3>2, Zenon
      <3> QED
        <4> SUFFICES ASSUME v.auditPass # w.auditPass PROVE a >= 1 /\ b >= 1
          OBVIOUS
        <4> DEFINE x == v.auditPass
                   y == w.auditPass
        <4>1. \/ x = TRUE /\ y = FALSE
              \/ x = FALSE /\ y = TRUE
          <5>1. /\ x = TRUE \/ x = FALSE
                /\ y = TRUE \/ y = FALSE
                /\ x # y
            BY <2>6
          <5> HIDE DEF x, y
          <5> QED
            BY <5>1
        <4> QED
          BY <4>1, <3>1, <3>2, Zenon
    <2> HIDE DEF a, b
    <2>8. v.auditPass = w.auditPass
      BY <1>7, <2>3, <2>5, <2>7
    <2> QED
      BY <1>8, <2>1, <2>8 DEF Verdict
  <1>9. ASSUME NEW j \in BagToSet(jobs), j \in Of(n, d)
        PROVE  /\ \A k \in BagToSet(jobs) : k \in Of(n, d) => k = j
               /\ \A v \in BagToSet(verdicts) : ~(v.node = n /\ v.auditDate = d)
               /\ BagToSet(Done(j)) = BagToSet(jobs) \ {j}
    <2>1. C = {<<j, jobs[j]>>} /\ Given(n, d) = 0
      <3>1. <<j, jobs[j]>> \in C
        BY <1>5, <1>9
      <3> QED
        BY <1>6, <3>1
    <2>2. ASSUME NEW k \in BagToSet(jobs), k \in Of(n, d) PROVE k = j
      BY <1>5, <2>1, <2>2
    <2>3. ASSUME NEW v \in BagToSet(verdicts), v.node = n, v.auditDate = d PROVE FALSE
      BY <1>1, <2>1, <2>3, VerdictCounts
    <2>4. jobs[j] = 1
      <3>1. jobs[j] \in Nat /\ jobs[j] >= 1
        BY <1>1 DEF IsABag, BagToSet
      <3>2. 1 \in 1..jobs[j]
        BY <3>1
      <3>3. <<j, 1>> \in C
        BY <1>9, <3>2, CopiesHas
      <3> QED
        BY <2>1, <3>3
    <2>5. BagToSet(Done(j)) = BagToSet(jobs) \ {j}
      BY <1>1, <2>4, BagMinus DEF Done, BagIn
    <2> QED
      BY <2>2, <2>3, <2>5
  <1>10. ASSUME d = Today, Pending # {}
         PROVE  /\ \A j \in BagToSet(jobs) : j \notin Of(n, d)
                /\ \A v \in BagToSet(verdicts) : ~(v.node = n /\ v.auditDate = d)
    <2>1. Cardinality(Pending) # 0
      BY <1>3, <1>10, FS_EmptySet
    <2>2. open >= 1
      BY <1>3, <1>10, <2>1
    <2>3. Cardinality(C) = 0 /\ Given(n, d) = 0
      <3> HIDE DEF C, open
      <3> QED
        BY <1>2, <1>3, <1>4, <2>2
    <2>4. ASSUME NEW j \in BagToSet(jobs), j \in Of(n, d) PROVE FALSE
      <3>1. <<j, jobs[j]>> \in C
        BY <1>5, <2>4
      <3>2. Cardinality(C) = 1
        BY <1>6, <3>1
      <3> HIDE DEF C
      <3> QED
        BY <2>3, <3>2
    <2>5. ASSUME NEW v \in BagToSet(verdicts), v.node = n, v.auditDate = d PROVE FALSE
      BY <1>1, <2>3, <2>5, VerdictCounts
    <2> QED
      BY <2>4, <2>5
  <1> QED
    BY <1>7, <1>8, <1>9, <1>10


(* A row is one of its Node and its day. *)
LEMMA RowsGrow ==
    ASSUME IsABag(log), NEW row, log' = log (+) One(row), NEW n, NEW d
    PROVE  /\ BagToSet(log') = BagToSet(log) \union {row}
           /\ RowsOf(n, d)' = RowsOf(n, d) \union
                (IF row.node = n /\ row.auditDate = d THEN {row} ELSE {})
           /\ \A s : Passed(n, d, s) => Passed(n, d, s)'
           /\ row.node = n /\ row.auditDate = d /\ row.passed => Passed(n, d, row.stage)'
  <1>1. BagToSet(log') = BagToSet(log) \union {row}
    BY BagPlus
  <1>2. RowsOf(n, d)' = RowsOf(n, d) \union
          (IF row.node = n /\ row.auditDate = d THEN {row} ELSE {})
    BY <1>1 DEF RowsOf
  <1>3. \A s : Passed(n, d, s) => Passed(n, d, s)'
    BY <1>2 DEF Passed
  <1>4. row.node = n /\ row.auditDate = d /\ row.passed => Passed(n, d, row.stage)'
    BY <1>2 DEF Passed
  <1> QED
    BY <1>1, <1>2, <1>3, <1>4

(* An attempt that is followed by another task. *)
LEMMA FollowOutcome ==
    ASSUME BoundInv, faults = 0, late = {}, OutcomeInv,
           NEW j \in BagToSet(jobs), NEW k \in Job, NEW passed \in BOOLEAN,
           k.node = j.node, DateOf(k) = DateOf(j),
           UNCHANGED <<clock, verdicts>>, jobs' = Done(j) (+) One(k),
           log' = log (+) One([node |-> j.node, auditDate |-> DateOf(j), stage |-> j.stage,
                               passed |-> passed]),
           passed => \/ j.stage = "hash_submission" /\ k.stage = "proof_retrieval"
                     \/ j.stage = "proof_retrieval" /\ k.stage = "proof_verification",
           ~passed => k.stage = j.stage
    PROVE  OutcomeInv'
  <1> DEFINE n == j.node
  <1>0. PICK d \in Day : d = DateOf(j)
    BY Successors DEF BoundInv
  <1>l. PICK row : row = [node |-> n, auditDate |-> d, stage |-> j.stage, passed |-> passed]
    OBVIOUS
  <1>1. /\ IsABag(jobs) /\ IsABag(log) /\ j \in Job /\ n \in Node /\ BagIn(j, jobs)
        /\ \A r \in BagToSet(log) : r \in Row
        /\ \A x \in BagToSet(jobs) : x \in Job
    BY Successors DEF BoundInv, TypeOK, BagIn
  <1>2. /\ \A x \in BagToSet(jobs) : x \in Of(n, d) => x = j
        /\ \A v \in BagToSet(verdicts) : ~(v.node = n /\ v.auditDate = d)
        /\ BagToSet(Done(j)) = BagToSet(jobs) \ {j}
    BY <1>0, <1>1, Alone DEF Of
  <1>3. BagToSet(jobs') = (BagToSet(jobs) \ {j}) \union {k}
    BY <1>1, <1>2, BagMinus, BagPlus DEF Done
  <1>4. \A m, e : Of(m, e)' = Of(m, e)
    BY DEF Of, DateOf, Today
  <1>5. \A m, e : k \in Of(m, e) <=> m = n /\ e = d
    BY <1>0 DEF Of
  <1>6. \A m, e : j \in Of(m, e) <=> m = n /\ e = d
    BY <1>0, <1>1 DEF Of
  <1>r. row.node = n /\ row.auditDate = d /\ row.stage = j.stage /\ row.passed = passed
    BY <1>l
  <1>7. /\ BagToSet(log') = BagToSet(log) \union {row}
        /\ \A m, e : RowsOf(m, e)' = RowsOf(m, e) \union
                       (IF m = n /\ e = d THEN {row} ELSE {})
        /\ \A m, e, s : Passed(m, e, s) => Passed(m, e, s)'
        /\ passed => Passed(n, d, j.stage)'
    <2>1. log' = log (+) One(row)
      BY <1>0, <1>l
    <2>2. BagToSet(log') = BagToSet(log) \union {row}
      BY <1>1, <2>1, RowsGrow
    <2>3. ASSUME NEW m, NEW e
          PROVE  /\ RowsOf(m, e)' = RowsOf(m, e) \union
                       (IF row.node = m /\ row.auditDate = e THEN {row} ELSE {})
                 /\ \A s : Passed(m, e, s) => Passed(m, e, s)'
                 /\ row.node = m /\ row.auditDate = e /\ row.passed
                       => Passed(m, e, row.stage)'
      <3>1. IsABag(log)
        BY <1>1
      <3> HIDE DEF n
      <3>2. RowsOf(m, e)' = RowsOf(m, e) \union
                       (IF row.node = m /\ row.auditDate = e THEN {row} ELSE {})
        BY <2>2 DEF RowsOf
      <3>3. \A s : Passed(m, e, s) => Passed(m, e, s)'
        BY <3>1, <2>1, RowsGrow, Zenon
      <3>4. row.node = m /\ row.auditDate = e /\ row.passed
                       => Passed(m, e, row.stage)'
        BY <3>1, <2>1, RowsGrow, Zenon
      <3> QED
        BY <3>2, <3>3, <3>4, Zenon
    <2> HIDE DEF n
    <2> QED
      BY <1>r, <2>2, <2>3
  <1>8. ASSUME NEW r \in BagToSet(log')
        PROVE  \/ \E x \in BagToSet(jobs') : x \in Of(r.node, r.auditDate)'
               \/ \E v \in BagToSet(verdicts') : v.node = r.node /\ v.auditDate = r.auditDate
    <2>1. CASE r.node = n /\ r.auditDate = d
      BY <1>3, <1>4, <1>5, <2>1
    <2>2. CASE ~(r.node = n /\ r.auditDate = d)
      <3>1. r \in BagToSet(log)
        BY <1>7, <1>r, <2>2
      <3> HIDE DEF n
      <3>2. \/ \E x \in BagToSet(jobs) : x \in Of(r.node, r.auditDate)
            \/ \E v \in BagToSet(verdicts) : v.node = r.node /\ v.auditDate = r.auditDate
        BY <3>1 DEF OutcomeInv
      <3> QED
        BY <1>3, <1>4, <1>6, <2>2, <3>2
    <2> QED
      BY <2>1, <2>2
  <1>9. ASSUME NEW x \in BagToSet(jobs'), NEW r \in BagToSet(log'),
               x \in Of(r.node, r.auditDate)'
        PROVE  IF r.stage = x.stage THEN ~r.passed
               ELSE /\ Passed(r.node, r.auditDate, r.stage)'
                    /\ r.stage = "hash_submission" \/ x.stage = "proof_verification"
    <2>1. CASE ~(r.node = n /\ r.auditDate = d)
      <3>1. r \in BagToSet(log) /\ x \in BagToSet(jobs) /\ x \in Of(r.node, r.auditDate)
        BY <1>3, <1>4, <1>5, <1>7, <1>9, <1>r, <2>1
      <3>2. IF r.stage = x.stage THEN ~r.passed
            ELSE /\ Passed(r.node, r.auditDate, r.stage)
                 /\ r.stage = "hash_submission" \/ x.stage = "proof_verification"
        BY <3>1 DEF OutcomeInv
      <3> QED
        BY <1>7, <3>2
    <2>2. CASE r.node = n /\ r.auditDate = d
      <3>1. x = k
        BY <1>2, <1>3, <1>4, <1>9, <2>2
      <3>2. CASE r \in BagToSet(log)
        <4>1. j \in Of(r.node, r.auditDate)
          BY <1>6, <2>2
        <4>2. IF r.stage = j.stage THEN ~r.passed
              ELSE /\ Passed(r.node, r.auditDate, r.stage)
                   /\ r.stage = "hash_submission" \/ j.stage = "proof_verification"
          BY <3>2, <4>1 DEF OutcomeInv
        <4>3. r.stage # j.stage => Passed(r.node, r.auditDate, r.stage)'
          BY <1>7, <4>2
        <4>4. passed /\ r.stage = j.stage => Passed(r.node, r.auditDate, r.stage)'
          BY <1>7, <2>2
        <4> QED
          BY <3>1, <4>2, <4>3, <4>4
      <3>3. CASE r = row
        <4>1. r.stage = j.stage /\ r.passed = passed
          BY <1>r, <3>3
        <4>2. passed => Passed(r.node, r.auditDate, r.stage)'
          BY <1>7, <2>2, <4>1
        <4> QED
          BY <3>1, <4>1, <4>2
      <3> QED
        BY <1>7, <3>2, <3>3
    <2> QED
      BY <2>1, <2>2
  <1>10. ASSUME NEW v \in BagToSet(verdicts')
         PROVE  /\ RowsOf(v.node, v.auditDate)' # {}
                /\ v.auditPass <=> \A r \in RowsOf(v.node, v.auditDate)' :
                                       Passed(v.node, v.auditDate, r.stage)'
    <2>1. v \in BagToSet(verdicts) /\ ~(v.node = n /\ v.auditDate = d)
      BY <1>2
    <2>2. RowsOf(v.node, v.auditDate)' = RowsOf(v.node, v.auditDate)
      BY <1>7, <2>1
    <2>3. \A s : Passed(v.node, v.auditDate, s)' <=> Passed(v.node, v.auditDate, s)
      BY <2>2 DEF Passed
    <2>4. /\ RowsOf(v.node, v.auditDate) # {}
          /\ v.auditPass <=> \A r \in RowsOf(v.node, v.auditDate) :
                                 Passed(v.node, v.auditDate, r.stage)
      BY <2>1 DEF OutcomeInv
    <2> QED
      BY <2>2, <2>3, <2>4
  <1> QED
    BY <1>8, <1>9, <1>10 DEF OutcomeInv

(* The last attempt of an audit: its verdict says what the rows tell. *)
LEMMA VerdictOutcome ==
    ASSUME BoundInv, faults = 0, late = {}, OutcomeInv,
           NEW j \in BagToSet(jobs), NEW auditPass \in BOOLEAN,
           UNCHANGED clock, jobs' = Done(j),
           log' = log (+) One([node |-> j.node, auditDate |-> DateOf(j), stage |-> j.stage,
                               passed |-> auditPass]),
           verdicts' = verdicts (+) One([node |-> j.node, auditDate |-> DateOf(j),
                                         auditPass |-> auditPass]),
           auditPass => j.stage = "proof_verification"
    PROVE  OutcomeInv'
  <1> DEFINE n == j.node
  <1>0. PICK d \in Day : d = DateOf(j)
    BY Successors DEF BoundInv
  <1>l. PICK row : row = [node |-> n, auditDate |-> d, stage |-> j.stage,
                          passed |-> auditPass]
    OBVIOUS
  <1>v. PICK verdict : verdict = [node |-> n, auditDate |-> d, auditPass |-> auditPass]
    OBVIOUS
  <1>1. /\ IsABag(log) /\ IsABag(verdicts) /\ j \in Job /\ n \in Node
        /\ \A r \in BagToSet(log) : r \in Row
    BY Successors DEF BoundInv, TypeOK
  <1>2. /\ \A x \in BagToSet(jobs) : x \in Of(n, d) => x = j
        /\ \A w \in BagToSet(verdicts) : ~(w.node = n /\ w.auditDate = d)
        /\ BagToSet(jobs') = BagToSet(jobs) \ {j}
    BY <1>0, <1>1, Alone DEF Of
  <1>3. BagToSet(verdicts') = BagToSet(verdicts) \union {verdict}
    BY <1>0, <1>1, <1>v, BagPlus
  <1>4. \A m, e : Of(m, e)' = Of(m, e)
    BY DEF Of, DateOf, Today
  <1>6. \A m, e : j \in Of(m, e) <=> m = n /\ e = d
    BY <1>0, <1>1 DEF Of
  <1>r. /\ row.node = n /\ row.auditDate = d /\ row.stage = j.stage
        /\ row.passed = auditPass
        /\ verdict.node = n /\ verdict.auditDate = d /\ verdict.auditPass = auditPass
    BY <1>l, <1>v
  <1>p. log' = log (+) One(row)
    BY <1>0, <1>l
  <1>b. BagToSet(log') = BagToSet(log) \union {row}
    BY <1>1, <1>p, RowsGrow
  <1>7. ASSUME NEW m, NEW e
        PROVE  /\ RowsOf(m, e)' = RowsOf(m, e) \union
                     (IF m = n /\ e = d THEN {row} ELSE {})
               /\ \A s : Passed(m, e, s) => Passed(m, e, s)'
    <2>1. RowsOf(m, e)' = RowsOf(m, e) \union (IF m = n /\ e = d THEN {row} ELSE {})
      BY <1>b, <1>r DEF RowsOf
    <2>2. \A s : Passed(m, e, s) => Passed(m, e, s)'
      BY <2>1 DEF Passed
    <2> QED
      BY <2>1, <2>2
  <1>8. ASSUME NEW r \in BagToSet(log')
        PROVE  \/ \E x \in BagToSet(jobs') : x \in Of(r.node, r.auditDate)'
               \/ \E w \in BagToSet(verdicts') : w.node = r.node /\ w.auditDate = r.auditDate
    <2>1. CASE r.node = n /\ r.auditDate = d
      BY <1>3, <1>r, <2>1
    <2>2. CASE ~(r.node = n /\ r.auditDate = d)
      <3>1. r \in BagToSet(log)
        BY <1>b, <1>r, <2>2
      <3> HIDE DEF n
      <3>2. \/ \E x \in BagToSet(jobs) : x \in Of(r.node, r.auditDate)
            \/ \E w \in BagToSet(verdicts) : w.node = r.node /\ w.auditDate = r.auditDate
        BY <3>1 DEF OutcomeInv
      <3> QED
        BY <1>2, <1>3, <1>4, <1>6, <2>2, <3>2
    <2> QED
      BY <2>1, <2>2
  <1>9. ASSUME NEW x \in BagToSet(jobs'), NEW r \in BagToSet(log'),
               x \in Of(r.node, r.auditDate)'
        PROVE  IF r.stage = x.stage THEN ~r.passed
               ELSE /\ Passed(r.node, r.auditDate, r.stage)'
                    /\ r.stage = "hash_submission" \/ x.stage = "proof_verification"
    <2>1. x \in BagToSet(jobs) /\ x # j /\ x \in Of(r.node, r.auditDate)
      BY <1>2, <1>4, <1>9
    <2>2. ~(r.node = n /\ r.auditDate = d)
      BY <1>2, <2>1
    <2>3. r \in BagToSet(log)
      BY <1>b, <1>r, <2>2
    <2>4. IF r.stage = x.stage THEN ~r.passed
          ELSE /\ Passed(r.node, r.auditDate, r.stage)
               /\ r.stage = "hash_submission" \/ x.stage = "proof_verification"
      BY <2>1, <2>3 DEF OutcomeInv
    <2> QED
      BY <1>7, <2>4
  <1>10. ASSUME NEW w \in BagToSet(verdicts')
         PROVE  /\ RowsOf(w.node, w.auditDate)' # {}
                /\ w.auditPass <=> \A r \in RowsOf(w.node, w.auditDate)' :
                                       Passed(w.node, w.auditDate, r.stage)'
    <2>1. CASE w \in BagToSet(verdicts)
      <3>1. ~(w.node = n /\ w.auditDate = d)
        BY <1>2, <2>1
      <3>2. RowsOf(w.node, w.auditDate)' = RowsOf(w.node, w.auditDate)
        BY <1>7, <3>1
      <3>3. \A s : Passed(w.node, w.auditDate, s)' <=> Passed(w.node, w.auditDate, s)
        BY <3>2 DEF Passed
      <3>4. /\ RowsOf(w.node, w.auditDate) # {}
            /\ w.auditPass <=> \A r \in RowsOf(w.node, w.auditDate) :
                                   Passed(w.node, w.auditDate, r.stage)
        BY <2>1 DEF OutcomeInv
      <3> QED
        BY <3>2, <3>3, <3>4
    <2>2. CASE w = verdict
      <3>1. RowsOf(n, d)' = RowsOf(n, d) \union {row}
        BY <1>7
      <3>2. ASSUME NEW r \in RowsOf(n, d)
            PROVE  IF r.stage = j.stage THEN ~r.passed ELSE Passed(n, d, r.stage)
        <4>1. r \in BagToSet(log) /\ r.node = n /\ r.auditDate = d
          BY DEF RowsOf
        <4>2. j \in Of(r.node, r.auditDate)
          BY <1>6, <4>1
        <4>3. IF r.stage = j.stage THEN ~r.passed ELSE Passed(r.node, r.auditDate, r.stage)
          BY <4>1, <4>2 DEF OutcomeInv
        <4> QED
          BY <4>1, <4>3
      <3>3. auditPass => \A r \in RowsOf(n, d)' : Passed(n, d, r.stage)'
        <4> SUFFICES ASSUME auditPass, NEW r \in RowsOf(n, d)' PROVE Passed(n, d, r.stage)'
          OBVIOUS
        <4>1. Passed(n, d, j.stage)'
          BY <1>r, <3>1 DEF Passed
        <4>2. \A s : Passed(n, d, s) => Passed(n, d, s)'
          BY <1>7
        <4>3. r.stage = j.stage \/ Passed(n, d, r.stage)
          BY <1>r, <3>1, <3>2
        <4> QED
          BY <4>1, <4>2, <4>3
      <3>4. ~auditPass => ~Passed(n, d, j.stage)'
        BY <1>r, <3>1, <3>2 DEF Passed
      <3>5. RowsOf(n, d)' # {} /\ row \in RowsOf(n, d)' /\ row.stage = j.stage
        BY <1>r, <3>1
      <3>6. auditPass <=> \A r \in RowsOf(n, d)' : Passed(n, d, r.stage)'
        BY <3>3, <3>4, <3>5
      <3> QED
        BY <1>r, <2>2, <3>5, <3>6
    <2> QED
      BY <1>3, <2>1, <2>2
  <1> QED
    BY <1>8, <1>9, <1>10 DEF OutcomeInv

(* A step is a fault or it counts none. *)
LEMMA FaultsStep == [Next]_vars => UNCHANGED faults \/ Fault
  <1> SUFFICES ASSUME [Next]_vars PROVE UNCHANGED faults \/ Fault
    OBVIOUS
  <1>1. ASSUME NEW p \in Producer,
               GainLeadership(p) \/ LeadershipError(p) \/ RestartProducer(p)
        PROVE  UNCHANGED faults \/ Fault
    BY <1>1 DEF GainLeadership, LeadershipError, RestartProducer
  <1>2. CASE SessionExpires \/ LoseChannel \/ OpenChannel \/ UNCHANGED vars
    BY <1>2 DEF SessionExpires, LoseChannel, OpenChannel, vars
  <1>3. CASE Produce
    BY <1>3 DEF Produce, PerformE2ENodeAudit
  <1>4. ASSUME NEW j, PassStage(j) \/ RetryStage(j)
        PROVE  UNCHANGED faults \/ Fault
    BY <1>4 DEF PassStage, RetryStage, AddE2EAuditToLog
  <1>5. ASSUME NEW j, NEW auditPass, GiveVerdict(j, auditPass) \/ VerdictThrows(j, auditPass)
        PROVE  UNCHANGED faults \/ Fault
    BY <1>5 DEF GiveVerdict, VerdictThrows, UpdateE2EAuditScore
  <1>6. ASSUME NEW j, EnqueueFails(j) \/ Interrupted(j) \/ RequeueFailedJob(j)
        PROVE  UNCHANGED faults \/ Fault
    BY <1>6 DEF EnqueueFails, Interrupted, RequeueFailedJob
  <1>7. CASE Tick
    BY <1>7 DEF Tick
  <1> QED
    BY <1>1, <1>2, <1>3, <1>4, <1>5, <1>6, <1>7 DEF Next, Attempt

(* Rows, tasks and verdicts that do not change keep their relation. *)
LEMMA OutcomeKept ==
    ASSUME OutcomeInv, UNCHANGED <<clock, jobs, records>>
    PROVE  OutcomeInv'
  <1>1. \A m, e : Of(m, e)' = Of(m, e)
    BY DEF Of, DateOf, Today
  <1>2. \A m, e : RowsOf(m, e)' = RowsOf(m, e)
    BY DEF RowsOf, records
  <1>3. \A m, e, s : Passed(m, e, s)' <=> Passed(m, e, s)
    BY <1>2 DEF Passed
  <1> QED
    BY <1>1, <1>2, <1>3 DEF OutcomeInv, records

(* A round: its Nodes have neither rows nor tasks of the day. *)
LEMMA RoundOutcome ==
    ASSUME BoundInv, faults = 0, late = {}, OutcomeInv, Pending # {},
           NEW N \in SUBSET Node, UNCHANGED <<clock, records>>,
           jobs' = jobs (+) SetToBag({FirstTask(n) : n \in N})
    PROVE  OutcomeInv'
  <1>1. /\ Today \in Day /\ IsABag(jobs)
        /\ \A n \in Node : FirstTask(n) \in Job
    BY DayType, FirstTaskType DEF BoundInv, TypeOK, Today
  <1>2. \A n \in Node : /\ \A j \in BagToSet(jobs) : j \notin Of(n, Today)
                        /\ \A v \in BagToSet(verdicts) :
                              ~(v.node = n /\ v.auditDate = Today)
    BY <1>1, Alone
  <1>3. \A r \in BagToSet(log) : r.node \in Node /\ r.auditDate # Today
    <2> SUFFICES ASSUME NEW r \in BagToSet(log)
                 PROVE  r.node \in Node /\ r.auditDate # Today
      OBVIOUS
    <2>1. r.node \in Node
      BY DEF BoundInv, TypeOK, Row
    <2> QED
      BY <1>2, <2>1 DEF OutcomeInv
  <1>4. BagToSet(jobs') = BagToSet(jobs) \union {FirstTask(n) : n \in N}
    BY <1>1, BagPlusSet
  <1>5. \A m, e : Of(m, e)' = Of(m, e)
    BY DEF Of, DateOf, Today
  <1>6. \A m, e : RowsOf(m, e)' = RowsOf(m, e)
    BY DEF RowsOf, records
  <1>7. \A m, e, s : Passed(m, e, s)' <=> Passed(m, e, s)
    BY <1>6 DEF Passed
  <1>8. \A n \in N : \A m, e : FirstTask(n) \in Of(m, e) => e = Today
    BY DEF Of, FirstTask, DateOf
  <1>9. ASSUME NEW r \in BagToSet(log')
        PROVE  \/ \E x \in BagToSet(jobs') : x \in Of(r.node, r.auditDate)'
               \/ \E v \in BagToSet(verdicts') : v.node = r.node /\ v.auditDate = r.auditDate
    BY <1>4, <1>5 DEF OutcomeInv, records
  <1>10. ASSUME NEW x \in BagToSet(jobs'), NEW r \in BagToSet(log'),
                x \in Of(r.node, r.auditDate)'
         PROVE  IF r.stage = x.stage THEN ~r.passed
                ELSE /\ Passed(r.node, r.auditDate, r.stage)'
                     /\ r.stage = "hash_submission" \/ x.stage = "proof_verification"
    <2>1. r \in BagToSet(log) /\ x \in Of(r.node, r.auditDate)
      BY <1>5, <1>10 DEF records
    <2>2. x \in BagToSet(jobs)
      BY <1>3, <1>4, <1>8, <2>1
    <2> QED
      BY <1>7, <2>1, <2>2 DEF OutcomeInv
  <1>11. ASSUME NEW v \in BagToSet(verdicts')
         PROVE  /\ RowsOf(v.node, v.auditDate)' # {}
                /\ v.auditPass <=> \A r \in RowsOf(v.node, v.auditDate)' :
                                       Passed(v.node, v.auditDate, r.stage)'
    BY <1>6, <1>7 DEF OutcomeInv, records
  <1> QED
    BY <1>9, <1>10, <1>11 DEF OutcomeInv

(* Time passes when all that is due is done: a day ends without tasks. *)
LEMMA TickCalm ==
    ASSUME BoundInv, CalmInv, OutcomeInv, Tick, ~Behind
    PROVE  CalmInv' /\ OutcomeInv'
  <1>1. /\ clock \in 0..MaxClock /\ clock \in Nat /\ clock' = clock + 1
        /\ UNCHANGED <<producer, jobs, amqpChannel, records, lost>>
        /\ IsABag(jobs) /\ \A j \in BagToSet(jobs) : j \in Job
    BY BoundsAssumption DEF BoundInv, TypeOK, Tick
  <1>2. ASSUME NEW j \in BagToSet(jobs)
        PROVE  /\ j.at = "queued" /\ DateOf(j) = Today
               /\ clock + 1 <= j.due /\ j.due <= Today * SlotsPerDay + LastSlot(j)
               /\ LastSlot(j) \in 0..7 /\ j.due \in Nat
    <2>1. j.due \in Nat /\ j.retryCount \in 0..2
      BY <1>1, BoundsAssumption DEF Job, Retries
    <2>2. LastSlot(j) \in 0..7
      BY <2>1 DEF LastSlot
    <2>3. ~(j.due <= clock)
      BY DEF Behind, Runnable, CalmInv, BagToSet, BagIn
    <2>4. clock + 1 <= j.due
      BY <1>1, <2>1, <2>3
    <2> QED
      BY <2>1, <2>2, <2>4 DEF CalmInv
  <1>3. \A p \in Producer : IS_LEADER[p] => currentDay[p] = Today
    BY DEF Behind
  <1>4. holder # NoProducer
    BY DEF Behind
  <1>5. Today' = DayOf(clock + 1)
    BY <1>1 DEF Today, DayOf
  <1>6. \A m, e : RowsOf(m, e)' = RowsOf(m, e)
    BY <1>1 DEF RowsOf, records
  <1>7. \A m, e, s : Passed(m, e, s)' <=> Passed(m, e, s)
    BY <1>6 DEF Passed
  <1>8. CASE Today' = Today
    <2>1. late' = late
      BY <1>5, <1>8 DEF Tick
    <2>2. \A j : DateOf(j)' = DateOf(j)
      BY <1>8 DEF DateOf
    <2>3. \A j : LastSlot(j)' = LastSlot(j)
      BY DEF LastSlot
    <2>4. ASSUME NEW j \in BagToSet(jobs')
          PROVE  /\ j.at = "queued" /\ DateOf(j)' = Today'
                 /\ clock' <= j.due /\ j.due <= Today' * SlotsPerDay + LastSlot(j)'
      BY <1>1, <1>2, <1>8, <2>2, <2>3
    <2>5. CalmInv'
      <3> HIDE DEF Today
      <3> QED
        BY <1>1, <1>3, <1>4, <1>8, <2>1, <2>4 DEF CalmInv, producer
    <2>6. \A m, e : Of(m, e)' = Of(m, e)
      BY <2>2 DEF Of
    <2>7. OutcomeInv'
      BY <1>1, <1>6, <1>7, <2>6 DEF OutcomeInv, records
    <2> QED
      BY <2>5, <2>7
  <1>9. CASE Today' # Today
    <2>1. /\ DayOf(clock + 1) > Today /\ clock + 1 = DayOf(clock + 1) * SlotsPerDay
          /\ Today \in Nat /\ DayOf(clock + 1) \in Nat
      BY <1>1, <1>5, <1>9, NewDay, DaySlots DEF Today
    <2>2. BagToSet(jobs) = {}
      <3> SUFFICES ASSUME NEW j \in BagToSet(jobs) PROVE FALSE
        OBVIOUS
      <3> DEFINE x == Today
                 y == DayOf(clock + 1)
      <3>1. /\ y >= x + 1 /\ x \in Nat /\ y \in Nat /\ j.due \in Nat
            /\ y * SlotsPerDay <= j.due /\ j.due <= x * SlotsPerDay + 7
        <4> DEFINE z == Today * SlotsPerDay
        <4>1. /\ j.due \in Nat /\ LastSlot(j) \in 0..7 /\ clock + 1 <= j.due
              /\ j.due <= z + LastSlot(j)
          BY <1>2
        <4>2. z \in Nat
          BY <2>1, BoundsAssumption, Z3
        <4>3. y >= x + 1
          BY <2>1
        <4> HIDE DEF x, y
        <4>4. j.due <= z + 7
          <5> HIDE DEF z
          <5> QED
            BY <4>1, <4>2
        <4> QED
          BY <2>1, <4>1, <4>3, <4>4 DEF x, y
      <3> HIDE DEF x, y
      <3>2. y * SlotsPerDay >= (x + 1) * SlotsPerDay
        BY <3>1, BoundsAssumption, Z3
      <3>3. (x + 1) * SlotsPerDay = x * SlotsPerDay + SlotsPerDay
        BY <3>1, BoundsAssumption, Z3
      <3>4. x * SlotsPerDay \in Nat /\ y * SlotsPerDay \in Nat
        BY <3>1, BoundsAssumption, Z3
      <3> QED
        BY <3>1, <3>2, <3>3, <3>4, BoundsAssumption, DayAssumption
    <2>3. late' = late
      <3>1. NotBegun = {}
        BY <2>2 DEF NotBegun
      <3> QED
        BY <3>1 DEF Tick
    <2>4. clock' = Today' * SlotsPerDay
      BY <1>1, <1>5, <2>1
    <2>5. CalmInv'
      <3> HIDE DEF Today
      <3> QED
        BY <1>1, <1>4, <2>2, <2>3, <2>4 DEF CalmInv, producer
    <2>6. OutcomeInv'
      BY <1>1, <1>6, <1>7, <2>2 DEF OutcomeInv, records
    <2> QED
      BY <2>5, <2>6
  <1> QED
    BY <1>8, <1>9

(* What is asked next of a Node has its slots. *)
LEMMA TaskCalm ==
    ASSUME BoundInv, CalmInv, NEW j \in BagToSet(jobs), Runnable(j),
           NEW k, UNCHANGED <<clock, producer, amqpChannel, late>>,
           BagToSet(jobs') \subseteq BagToSet(jobs) \union {k},
           \/ k = j
           \/ k = Follow(j) /\ j.stage # "proof_verification"
           \/ k = Retry(j) /\ MayRetry(j)
    PROVE  CalmInv'
  <1>1. /\ j \in Job /\ clock \in Nat /\ Today \in Nat /\ j.due = clock
        /\ j.due <= Today * SlotsPerDay + LastSlot(j) /\ j.at = "queued"
        /\ DateOf(j) = Today
    <2>1. j \in Job /\ clock \in Nat /\ Today \in Nat
      BY DaySlots, BoundsAssumption DEF BoundInv, TypeOK, Today
    <2>2. j.due \in Nat
      BY <2>1, BoundsAssumption DEF Job
    <2>3. /\ j.due <= Today * SlotsPerDay + LastSlot(j) /\ j.at = "queued"
          /\ DateOf(j) = Today /\ clock <= j.due
      BY DEF CalmInv
    <2>4. j.due <= clock
      BY DEF Runnable
    <2> QED
      BY <2>1, <2>2, <2>3, <2>4
  <1> DEFINE z == Today * SlotsPerDay
  <1>2. z \in Nat
    BY <1>1, BoundsAssumption, Z3
  <1>3. ASSUME \/ k = Follow(j) /\ j.stage # "proof_verification"
               \/ k = Retry(j) /\ MayRetry(j)
        PROVE  /\ k.at = "queued" /\ DateOf(k) = Today
               /\ clock <= k.due /\ k.due <= z + LastSlot(k)
    <2>1. DateOf(k) = Today
      BY <1>1, <1>3, Successors DEF BoundInv
    <2>2. clock <= z + LastSlot(j)
      BY <1>1
    <2> HIDE DEF z
    <2>3. CASE k = Follow(j) /\ j.stage = "hash_submission"
      <3>1. /\ k.at = "queued" /\ k.due = clock + 1 /\ k.stage = "proof_retrieval"
            /\ k.retryCount = 0
        BY <1>1, <2>3 DEF Follow, Job
      <3>2. j.retryCount \in 0..2 /\ LastSlot(j) = j.retryCount /\ LastSlot(k) = 3
        BY <1>1, <2>3, <3>1 DEF LastSlot, Job, Retries
      <3> QED
        BY <1>1, <1>2, <2>1, <2>2, <3>1, <3>2
    <2>4. CASE k = Follow(j) /\ j.stage = "proof_retrieval"
      <3>1. /\ k.at = "queued" /\ k.due = clock /\ k.stage = "proof_verification"
            /\ k.retryCount = 0
        BY <1>1, <2>4 DEF Follow, Job
      <3>2. j.retryCount \in 0..2 /\ LastSlot(j) = 3 + j.retryCount /\ LastSlot(k) = 5
        BY <1>1, <2>4, <3>1 DEF LastSlot, Job, Retries
      <3> QED
        BY <1>1, <1>2, <2>1, <2>2, <3>1, <3>2
    <2>5. CASE k = Retry(j)
      <3>1. /\ k.at = "queued" /\ k.due = clock + 1 /\ k.stage = j.stage
            /\ k.retryCount = j.retryCount + 1 /\ j.retryCount \in Nat
        BY <1>1, <2>5 DEF Retry, Job, Retries
      <3>2. LastSlot(k) = LastSlot(j) + 1 /\ LastSlot(j) \in Nat
        BY <3>1 DEF LastSlot
      <3> QED
        BY <1>1, <1>2, <2>1, <2>2, <3>1, <3>2
    <2>6. j.stage \in Stage
      BY <1>1 DEF Job
    <2> QED
      BY <1>3, <2>3, <2>4, <2>5, <2>6 DEF Stage
  <1>4. /\ Today' = Today /\ \A x : DateOf(x)' = DateOf(x)
        /\ \A x : LastSlot(x)' = LastSlot(x)
    BY DEF Today, DateOf, LastSlot
  <1>5. ASSUME NEW x \in BagToSet(jobs')
        PROVE  /\ x.at = "queued" /\ DateOf(x) = Today
               /\ clock <= x.due /\ x.due <= z + LastSlot(x)
    <2>1. CASE x \in BagToSet(jobs)
      BY <2>1 DEF CalmInv
    <2>2. CASE x \notin BagToSet(jobs)
      <3>1. /\ x = k
            /\ \/ k = Follow(j) /\ j.stage # "proof_verification"
               \/ k = Retry(j) /\ MayRetry(j)
        BY <2>2
      <3> HIDE DEF z
      <3> QED
        BY <1>3, <3>1
    <2> QED
      BY <2>1, <2>2
  <1> HIDE DEF Today
  <1> QED
    BY <1>4, <1>5 DEF CalmInv, producer

LEMMA NextReport == BoundInv /\ ReportInv /\ [Next]_vars => ReportInv'
  <1> SUFFICES ASSUME BoundInv, ReportInv, [Next]_vars, faults' = 0
               PROVE  CalmInv' /\ OutcomeInv'
    BY DEF ReportInv
  <1>f. faults = 0 /\ UNCHANGED faults /\ ~Fault
    <2>1. faults \in Nat
      BY DEF BoundInv, TypeOK
    <2> QED
      BY <2>1, FaultsStep DEF Fault
  <1>c. CalmInv /\ OutcomeInv /\ amqpChannel = "open" /\ late = {}
    BY <1>f DEF ReportInv, CalmInv
  <1>t. IsABag(jobs) /\ \A j \in BagToSet(jobs) : j \in Job /\ BagIn(j, jobs) /\ j.at = "queued"
    BY <1>c DEF BoundInv, TypeOK, CalmInv, BagToSet, BagIn
  <1>d. UNCHANGED clock => /\ Today' = Today /\ \A j : DateOf(j)' = DateOf(j)
                           /\ \A j : LastSlot(j)' = LastSlot(j)
    BY DEF Today, DateOf, LastSlot
  <1>e. ASSUME UNCHANGED <<clock, jobs, amqpChannel, records, late>>,
               holder' = NoProducer => holder = NoProducer,
               currentDay' = currentDay,
               \A p \in Producer : IS_LEADER'[p] => IS_LEADER[p] \/ currentDay[p] = Today
        PROVE  CalmInv' /\ OutcomeInv'
    <2>1. OutcomeInv'
      BY <1>c, <1>e, OutcomeKept
    <2>2. CalmInv'
      <3> HIDE DEF Today
      <3> QED
        BY <1>c, <1>d, <1>e DEF CalmInv
    <2> QED
      BY <2>1, <2>2
  <1>1. ASSUME NEW p \in Producer, GainLeadership(p) PROVE CalmInv' /\ OutcomeInv'
    <2>1. currentDay[p] = Today
      BY <1>1, <1>c DEF GainLeadership, CalmInv
    <2>2. \A q \in Producer : IS_LEADER'[q] => IS_LEADER[q] \/ currentDay[q] = Today
      BY <1>1, <2>1 DEF GainLeadership, BoundInv, TypeOK
    <2>3. holder' # NoProducer
      BY <1>1, NoProducerAssumption DEF GainLeadership
    <2> QED
      BY <1>1, <1>e, <2>2, <2>3 DEF GainLeadership
  <1>2. ASSUME NEW p \in Producer, LeadershipError(p) PROVE CalmInv' /\ OutcomeInv'
    <2>1. \A q \in Producer : IS_LEADER'[q] => IS_LEADER[q]
      BY <1>2 DEF LeadershipError, BoundInv, TypeOK
    <2> QED
      BY <1>2, <1>e, <2>1 DEF LeadershipError
  <1>3. CASE \E p \in Producer : RestartProducer(p)
    BY <1>3, <1>f DEF RestartProducer
  <1>4. CASE SessionExpires \/ LoseChannel \/ OpenChannel
    BY <1>4, <1>f, <1>c DEF SessionExpires, LoseChannel, OpenChannel
  <1>5. CASE Produce
    <2>1. PICK p \in Producer : PerformE2ENodeAudit(p)
      BY <1>5 DEF Produce
    <2>2. PICK N \in SUBSET Node : jobs' = jobs (+) SetToBag({FirstTask(n) : n \in N})
      BY <2>1 DEF PerformE2ENodeAudit
    <2>3. /\ IS_LEADER[p] /\ currentDay[p] # Today
          /\ UNCHANGED <<clock, holder, IS_LEADER, amqpChannel, records, late>>
          /\ currentDay' = [currentDay EXCEPT ![p] = Today]
      BY <2>1 DEF PerformE2ENodeAudit, RememberDay
    <2>4. Pending # {}
      BY <2>3 DEF Pending, Leaders
    <2>5. OutcomeInv'
      BY <1>f, <1>c, <2>2, <2>3, <2>4, RoundOutcome
    <2>6. clock = Today * SlotsPerDay /\ clock \in Nat
      BY <1>c, <2>3, BoundsAssumption DEF CalmInv, BoundInv, TypeOK
    <2>7. BagToSet(jobs') = BagToSet(jobs) \union {FirstTask(n) : n \in N}
      BY <1>t, <2>2, BagPlusSet
    <2>8. \A n \in N : /\ FirstTask(n).at = "queued" /\ DateOf(FirstTask(n)) = Today
                       /\ FirstTask(n).due = clock /\ LastSlot(FirstTask(n)) = 0
      BY DEF FirstTask, DateOf, LastSlot
    <2>9. ASSUME NEW j \in BagToSet(jobs')
          PROVE  /\ j.at = "queued" /\ DateOf(j)' = Today'
                 /\ clock' <= j.due /\ j.due <= Today' * SlotsPerDay + LastSlot(j)'
      <3>1. CASE j \in BagToSet(jobs)
        BY <1>c, <1>d, <2>3, <3>1 DEF CalmInv
      <3>2. CASE j \notin BagToSet(jobs)
        <4>1. PICK n \in N : j = FirstTask(n)
          BY <2>7, <3>2
        <4>2. /\ j.at = "queued" /\ DateOf(j) = Today /\ j.due = clock /\ LastSlot(j) = 0
          BY <2>8, <4>1
        <4> DEFINE z == Today * SlotsPerDay
        <4>3. clock = z
          BY <2>6
        <4> HIDE DEF z
        <4>4. clock <= j.due /\ j.due <= z + LastSlot(j)
          BY <2>6, <4>2, <4>3
        <4> QED
          BY <1>d, <2>3, <4>2, <4>4 DEF z
      <3> QED
        BY <3>1, <3>2
    <2>10. currentDay \in [Producer -> Day]
      BY DEF BoundInv, TypeOK
    <2>11. CalmInv'
      <3> HIDE DEF Today, Day
      <3> QED
        BY <1>c, <1>d, <2>3, <2>9, <2>10 DEF CalmInv
    <2> QED
      BY <2>5, <2>11
  <1>6. ASSUME NEW j \in BagToSet(jobs), NEW k \in Job, NEW passed \in BOOLEAN,
               Runnable(j), UNCHANGED <<clock, producer, amqpChannel, verdicts, late>>,
               jobs' = Done(j) (+) One(k), AddE2EAuditToLog(j, passed),
               \/ passed /\ j.stage # "proof_verification" /\ k = Follow(j)
               \/ ~passed /\ MayRetry(j) /\ k = Retry(j)
        PROVE  CalmInv' /\ OutcomeInv'
    <2>1. log' = log (+) One([node |-> j.node, auditDate |-> DateOf(j), stage |-> j.stage,
                              passed |-> passed])
      BY <1>f, <1>c, <1>6 DEF AddE2EAuditToLog
    <2>2. k.node = j.node /\ DateOf(k) = DateOf(j)
      BY <1>6, Successors DEF BoundInv
    <2>3. /\ passed => \/ j.stage = "hash_submission" /\ k.stage = "proof_retrieval"
                       \/ j.stage = "proof_retrieval" /\ k.stage = "proof_verification"
          /\ ~passed => k.stage = j.stage
      BY <1>t, <1>6 DEF Follow, Retry, Job, Stage
    <2>4. OutcomeInv'
      BY <1>f, <1>c, <1>6, <2>1, <2>2, <2>3, FollowOutcome
    <2>5. BagToSet(jobs') \subseteq BagToSet(jobs) \union {k}
      BY <1>t, <1>6, BagMinus, BagPlus DEF Done
    <2>6. CalmInv'
      BY <1>c, <1>6, <2>5, TaskCalm
    <2> QED
      BY <2>4, <2>6
  <1>7. ASSUME NEW j \in BagToSet(jobs), PassStage(j) PROVE CalmInv' /\ OutcomeInv'
    <2>1. Follow(j) \in Job
      BY <1>t, JobTypes DEF BoundInv
    <2> QED
      BY <1>6, <1>7, <2>1 DEF PassStage
  <1>8. ASSUME NEW j \in BagToSet(jobs), RetryStage(j) PROVE CalmInv' /\ OutcomeInv'
    <2>1. Retry(j) \in Job
      BY <1>t, <1>8, JobTypes DEF BoundInv, RetryStage
    <2> QED
      BY <1>6, <1>8, <2>1 DEF RetryStage
  <1>9. ASSUME NEW j \in BagToSet(jobs), NEW auditPass \in BOOLEAN, GiveVerdict(j, auditPass)
        PROVE  CalmInv' /\ OutcomeInv'
    <2>1. /\ log' = log (+) One([node |-> j.node, auditDate |-> DateOf(j), stage |-> j.stage,
                                 passed |-> auditPass])
          /\ verdicts' = verdicts (+) One([node |-> j.node, auditDate |-> DateOf(j),
                                           auditPass |-> auditPass])
          /\ UNCHANGED <<clock, producer, amqpChannel, late>> /\ jobs' = Done(j) /\ Runnable(j)
      BY <1>f, <1>9 DEF GiveVerdict, UpdateE2EAuditScore
    <2>2. auditPass => j.stage = "proof_verification"
      BY <1>9 DEF GiveVerdict, Final
    <2>3. OutcomeInv'
      BY <1>f, <1>c, <2>1, <2>2, VerdictOutcome
    <2>4. BagToSet(jobs') \subseteq BagToSet(jobs) \union {j}
      BY <1>t, <2>1, BagMinus DEF Done
    <2>5. CalmInv'
      BY <1>c, <2>1, <2>4, TaskCalm
    <2> QED
      BY <2>3, <2>5
  <1>10. ASSUME NEW j, NEW auditPass, VerdictThrows(j, auditPass) PROVE FALSE
    BY <1>c, <1>10 DEF VerdictThrows
  <1>11. ASSUME NEW j \in BagToSet(jobs),
                EnqueueFails(j) \/ Interrupted(j) \/ RequeueFailedJob(j)
         PROVE  FALSE
    BY <1>f, <1>t, <1>11 DEF EnqueueFails, Interrupted, RequeueFailedJob
  <1>12. CASE Tick
    <2>1. ~Behind
      BY <1>f, <1>12 DEF Tick
    <2> QED
      BY <1>c, <1>12, <2>1, TickCalm
  <1>13. CASE UNCHANGED vars
    BY <1>13, <1>e DEF vars, producer, records
  <1> QED
    BY <1>1, <1>2, <1>3, <1>4, <1>5, <1>7, <1>8, <1>9, <1>10, <1>11, <1>12, <1>13
    DEF Next, Attempt

LEMMA InitReport == Init => ReportInv
  <1> SUFFICES ASSUME Init PROVE CalmInv /\ OutcomeInv
    BY DEF ReportInv
  <1>1. BagToSet(jobs) = {} /\ BagToSet(log) = {} /\ BagToSet(verdicts) = {}
    BY BagEmpty DEF Init
  <1>2. CalmInv
    BY <1>1 DEF Init, CalmInv
  <1>3. OutcomeInv
    BY <1>1 DEF OutcomeInv
  <1> QED
    BY <1>2, <1>3

(* What is reported, in the words of the proof. *)
LEMMA Reported ==
    ASSUME NEW n, NEW d
    PROVE  /\ LastE2EAuditStatus(n, d) = "passed" <=>
                 /\ RowsOf(n, d) # {}
                 /\ \A r \in RowsOf(n, d) : Passed(n, d, r.stage)
           /\ LastE2EAuditStatus(n, d) = "failure" <=>
                 /\ RowsOf(n, d) # {}
                 /\ ~ \A r \in RowsOf(n, d) : Passed(n, d, r.stage)
  BY DEF LastE2EAuditStatus, RowsOf, Passed

(* Without faults, what a day's rows tell the producer of a Node on a      *)
(* later day is the verdict of that day.                                   *)
THEOREM ReportsAreVerdicts == Spec => []ReportIsTheVerdict
  <1>1. BoundInv /\ ReportInv => ReportIsTheVerdict
    <2> SUFFICES ASSUME BoundInv, ReportInv, faults = 0,
                        NEW n \in Node, NEW d \in Day, d < Today
                 PROVE  /\ (VerdictsOn(n, d, TRUE) = 1) <=>
                              (LastE2EAuditStatus(n, d) = "passed")
                        /\ (VerdictsOn(n, d, FALSE) = 1) <=>
                              (LastE2EAuditStatus(n, d) = "failure")
      BY DEF ReportIsTheVerdict
    <2> DEFINE all == \A r \in RowsOf(n, d) : Passed(n, d, r.stage)
    <2>1. CalmInv /\ OutcomeInv /\ late = {} /\ Today \in Nat /\ TypeOK
      BY DayType DEF ReportInv, CalmInv, BoundInv, TypeOK, Today, Day
    <2>2. \A j \in BagToSet(jobs) : j \notin Of(n, d)
      <3>1. \A j \in BagToSet(jobs) : DateOf(j) = Today
        BY <2>1 DEF CalmInv
      <3>2. d # Today
        BY <2>1 DEF Day
      <3> QED
        BY <3>1, <3>2 DEF Of
    <2>3. \A v \in BagToSet(verdicts) :
             v.node = n /\ v.auditDate = d => RowsOf(n, d) # {} /\ (v.auditPass <=> all)
      BY <2>1 DEF OutcomeInv
    <2>4. RowsOf(n, d) # {} =>
             \E v \in BagToSet(verdicts) : v.node = n /\ v.auditDate = d
      <3> SUFFICES ASSUME NEW r \in RowsOf(n, d)
                   PROVE  \E v \in BagToSet(verdicts) : v.node = n /\ v.auditDate = d
        OBVIOUS
      <3>1. r \in BagToSet(log) /\ r.node = n /\ r.auditDate = d
        BY DEF RowsOf
      <3> QED
        BY <2>1, <2>2, <3>1 DEF OutcomeInv
    <2> DEFINE a == VerdictsOn(n, d, TRUE)
               b == VerdictsOn(n, d, FALSE)
    <2>5. /\ a >= 1 => RowsOf(n, d) # {} /\ all
          /\ b >= 1 => RowsOf(n, d) # {} /\ ~all
          /\ a \in Nat /\ b \in Nat
      <3>1. ASSUME NEW pass \in BOOLEAN, VerdictsOn(n, d, pass) >= 1
            PROVE  RowsOf(n, d) # {} /\ (pass <=> all)
        <4> DEFINE v == [node |-> n, auditDate |-> d, auditPass |-> pass]
        <4>1. v \in BagToSet(verdicts)
          BY <3>1 DEF VerdictsOn, BagIn, BagToSet
        <4>2. v.node = n /\ v.auditDate = d /\ v.auditPass = pass
          OBVIOUS
        <4> HIDE DEF v, all
        <4> QED
          BY <2>3, <4>1, <4>2
      <3>2. \A x \in BagToSet(verdicts) : verdicts[x] \in Nat
        BY <2>1 DEF TypeOK, IsABag, BagToSet
      <3>3. a \in Nat /\ b \in Nat
        BY <3>2 DEF VerdictsOn, BagIn
      <3> HIDE DEF all
      <3>4. a >= 1 => RowsOf(n, d) # {} /\ all
        BY <3>1
      <3>5. b >= 1 => RowsOf(n, d) # {} /\ ~all
        BY <3>1
      <3> QED
        BY <3>3, <3>4, <3>5
    <2>6. RowsOf(n, d) # {} => (all => a >= 1) /\ (~all => b >= 1)
      <3> SUFFICES ASSUME RowsOf(n, d) # {} PROVE (all => a >= 1) /\ (~all => b >= 1)
        OBVIOUS
      <3>1. PICK v \in BagToSet(verdicts) : v.node = n /\ v.auditDate = d
        BY <2>4
      <3>2. /\ VerdictsOn(n, d, v.auditPass) >= 1 /\ v \in Verdict
            /\ v.auditPass <=> all
        BY <2>1, <2>3, <3>1, VerdictCounts DEF TypeOK
      <3>3. v.auditPass = TRUE \/ v.auditPass = FALSE
        BY <3>2 DEF Verdict
      <3> HIDE DEF all
      <3>4. CASE v.auditPass = TRUE
        <4>1. a >= 1
          BY <3>2, <3>4, Zenon
        <4> QED
          BY <3>2, <3>4, <4>1
      <3>5. CASE v.auditPass = FALSE
        <4>1. b >= 1
          BY <3>2, <3>5, Zenon
        <4> QED
          BY <3>2, <3>5, <4>1
      <3> QED
        BY <3>3, <3>4, <3>5
    <2>7. a + b <= 1
      <3>1. Given(n, d) <= 1
        BY <2>1, Alone
      <3> QED
        BY <3>1, Zenon DEF Given
    <2>8. /\ a = 1 <=> RowsOf(n, d) # {} /\ all
          /\ b = 1 <=> RowsOf(n, d) # {} /\ ~all
      <3> DEFINE some == RowsOf(n, d) # {}
      <3> HIDE DEF a, b, all, some
      <3>1. /\ a >= 1 => some /\ all
            /\ b >= 1 => some /\ ~all
            /\ some => (all => a >= 1) /\ (~all => b >= 1)
            /\ a \in Nat /\ b \in Nat /\ a + b <= 1
        BY <2>5, <2>6, <2>7 DEF some
      <3>2. (a = 1 <=> some /\ all) /\ (b = 1 <=> some /\ ~all)
        BY <3>1
      <3> QED
        BY <3>2 DEF some
    <2>9. /\ LastE2EAuditStatus(n, d) = "passed" <=> RowsOf(n, d) # {} /\ all
          /\ LastE2EAuditStatus(n, d) = "failure" <=> RowsOf(n, d) # {} /\ ~all
      BY Reported
    <2> HIDE DEF all
    <2> QED
      BY <2>8, <2>9
  <1> QED
    BY <1>1, InitBound, NextBound, InitReport, NextReport, PTL DEF Spec

=============================================================================
