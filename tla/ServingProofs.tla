--------------------------- MODULE ServingProofs ----------------------------
(***************************************************************************)
(* For every workload, policy and configuration: the loop is type correct,  *)
(* no request is passed over more than NumRequests - 1 times in a row, and  *)
(* overdue requests go first.  Waits are accounted for exactly and bounded, *)
(* the previous-route policy never predicts while it selects, a batch is as *)
(* full as the policy allows, and under FIFO a request passed over has seen *)
(* a full batch of requests ahead of it.  The progress that the loop        *)
(* commits step by step is the one that the offline oracle derives from the *)
(* iteration number, the work done follows from it, and the loop implements *)
(* the waiting line.                                                        *)
(***************************************************************************)
EXTENDS ServingProperties, ProofBasics

-----------------------------------------------------------------------------
(* Facts about the configured workload and about the order in which the
   policies look at requests.                                              *)

(* Every set of requests is finite and no larger than the workload. *)
LEMMA RequestsFinite ==
  /\ IsFiniteSet(Request) /\ Cardinality(Request) = NumRequests
  /\ \A S \in SUBSET Request :
       IsFiniteSet(S) /\ Cardinality(S) \in Nat /\ Cardinality(S) <= NumRequests
<1>1. IsFiniteSet(Request) /\ Cardinality(Request) = NumRequests
  <2>1. NumRequests - 1 \in Int /\ ~(0 > NumRequests - 1)
        /\ NumRequests - 1 - 0 + 1 = NumRequests
    BY WorkloadAssumption
  <2>2. /\ IsFiniteSet(0 .. NumRequests - 1)
        /\ Cardinality(0 .. NumRequests - 1)
             = IF 0 > NumRequests - 1 THEN 0 ELSE NumRequests - 1 - 0 + 1
    BY <2>1, FS_Interval
  <2> QED BY <2>1, <2>2 DEF Request
<1> QED BY <1>1, FS_Subset, FS_CardinalityType

(* Arrival times, token counts and widths are natural numbers. *)
LEMMA ArrivalType == \A r \in Request : Arrival(r) \in Nat
BY WorkloadAssumption DEF Request, Arrival

LEMMA RoundedHalfType == \A twice \in Nat : RoundedHalf(twice) \in Nat
BY DEF RoundedHalf

LEMMA QuotientBound ==
  ASSUME NEW k \in Nat, NEW a \in Nat, NEW d \in Nat \ {0}, k * d <= a
  PROVE  k <= a \div d
<1> DEFINE p == a \div d
<1>1. p \in Nat /\ a < d * p + d
  OBVIOUS
<1> HIDE DEF p
<1> SUFFICES ASSUME p + 1 <= k PROVE FALSE
  BY <1>1 DEF p
<1>2. d * (p + 1) <= k * d
  BY <1>1
<1>3. d * (p + 1) = d * p + d
  BY <1>1
<1> QED BY <1>1, <1>2, <1>3

LEMMA OutputType == \A r \in Request : OutputOf(r) \in Nat
<1> SUFFICES ASSUME NEW r \in Request PROVE OutputOf(r) \in Nat
  OBVIOUS
<1> DEFINE fewest == MinOutputTokens \div BlockSize
           most   == OutputTokens \div BlockSize
           late   == r % 3
<1>1. fewest \in Nat /\ most \in Nat /\ fewest <= most
  <2>1. /\ MinOutputTokens \in Nat /\ OutputTokens \in Nat /\ BlockSize \in Nat \ {0}
        /\ MinOutputTokens <= OutputTokens
    BY WorkloadAssumption
  <2>2. fewest \in Nat /\ most \in Nat
    BY <2>1
  <2> QED BY <2>1, <2>2, DivisionMonotone
<1>2. late \in Nat
  BY WorkloadAssumption DEF Request
<1> HIDE DEF fewest, most, late
<1>3. 2 * fewest + (most - fewest) * late \in Nat
  BY <1>1, <1>2
<1>4. RoundedHalf(2 * fewest + (most - fewest) * late) \in Nat
  BY <1>3, RoundedHalfType
<1>5. BlockSize * RoundedHalf(2 * fewest + (most - fewest) * late) \in Nat
  BY <1>4, WorkloadAssumption
<1> QED BY <1>5, WorkloadAssumption DEF OutputOf, fewest, most, late

LEMMA WidthType == \A i \in Nat : WidthAt(i) \in Nat
<1> SUFFICES ASSUME NEW i \in Nat, Mode = "diffusion"
             PROVE Schedule[(i % Len(Schedule)) + 1] \in Nat
  BY DEF WidthAt
<1>1. (i % Len(Schedule)) + 1 \in 1 .. Len(Schedule)
  BY WorkloadAssumption
<1> QED BY <1>1, WorkloadAssumption

(* The loop jumps to the first of the arrivals to come. *)
LEMMA NextArrivalIsFirst ==
  ASSUME Unfinished # {}
  PROVE  /\ NextArrival \in Nat
         /\ \E r \in Unfinished : NextArrival = Arrival(r)
         /\ \A r \in Unfinished : NextArrival <= Arrival(r)
<1> DEFINE arrivals == {Arrival(r) : r \in Unfinished}
<1>1. arrivals \in SUBSET Nat /\ arrivals # {}
  BY ArrivalType DEF Unfinished
<1>2. \E a \in arrivals : \A r \in Unfinished : a <= Arrival(r)
  <2>1. \A r \in Unfinished : Arrival(r) \in arrivals
    OBVIOUS
  <2> HIDE DEF arrivals
  <2>2. PICK a \in arrivals : \A n \in arrivals : a <= n
    BY <1>1, LeastNatural
  <2> QED BY <2>1, <2>2
<1>3. NextArrival \in arrivals /\ \A r \in Unfinished : NextArrival <= Arrival(r)
  BY <1>2 DEF NextArrival
<1> QED BY <1>1, <1>3

(* Nobody is ready before the loop jumps, and somebody is after the jump. *)
LEMMA NextArrivalIsLater ==
  ASSUME NEW t \in Nat, Unfinished # {}, Ready(t) = {}
  PROVE  NextArrival \in Nat /\ NextArrival > t
<1>1. \A r \in Unfinished : Arrival(r) \in Nat /\ ~(Arrival(r) <= t)
  BY ArrivalType DEF Ready, Unfinished
<1> QED BY <1>1, NextArrivalIsFirst

(* The policies order requests totally. *)
LEMMA OlderTotal ==
  ASSUME TypeOKWorkload, NEW r \in Request, NEW s \in Request, r # s
  PROVE  Older(r, s) <=> ~Older(s, r)
BY DEF TypeOKWorkload, Older, Request

LEMMA OlderTransitive ==
  ASSUME TypeOKWorkload, NEW r \in Request, NEW s \in Request, NEW q \in Request,
         Older(r, s), Older(s, q)
  PROVE  Older(r, q)
BY DEF TypeOKWorkload, Older, Request

(* What the oldest k requests of a set are. *)
LEMMA OldestOfSet ==
  ASSUME NEW S \in SUBSET Request, NEW k \in Nat, NEW B \in Oldest(S, k)
  PROVE  /\ B \subseteq S
         /\ Cardinality(B) <= k
         /\ \A r \in B, s \in S \ B : Older(r, s)
         /\ S # {} /\ k > 0 => B # {}
         /\ S \ B # {} => Cardinality(B) = k
<1>1. B \subseteq S /\ Cardinality(B) = Smaller(k, Cardinality(S))
  BY DEF Oldest
<1>2. IsFiniteSet(S) /\ Cardinality(S) \in Nat
  BY RequestsFinite
<1>3. S # {} => Cardinality(S) > 0
  BY <1>2, FS_EmptySet
<1>4. Cardinality(B) = Cardinality(S) => B = S
  BY <1>1, <1>2, FS_Subset
<1>5. S # {} /\ k > 0 => B # {}
  BY <1>1, <1>2, <1>3, FS_EmptySet DEF Smaller
<1> QED BY <1>1, <1>2, <1>4, <1>5 DEF Oldest, Smaller

(* Somebody is the oldest of a nonempty set. *)
LEMMA SomebodyIsOldest ==
  ASSUME TypeOKWorkload, NEW S \in SUBSET Request, S # {}
  PROVE  \E r \in S : {r} \in Oldest(S, 1)
<1> DEFINE waits == {readySince[r] : r \in S}
<1>1. waits \in SUBSET Nat /\ waits # {}
  BY DEF TypeOKWorkload
<1>2. PICK first \in waits : \A w \in waits : first <= w
  BY <1>1, LeastNatural
<1> DEFINE longest == {r \in S : readySince[r] = first}
<1>3. longest \in SUBSET Nat /\ longest # {}
  <2>1. S \subseteq Nat
    BY WorkloadAssumption DEF Request
  <2>2. PICK r \in S : readySince[r] = first
    BY <1>2
  <2> QED BY <2>1, <2>2
<1>4. PICK r \in longest : \A s \in longest : r <= s
  BY <1>3, LeastNatural
<1>5. \A s \in S \ {r} : Older(r, s)
  <2> SUFFICES ASSUME NEW s \in S \ {r} PROVE Older(r, s)
    OBVIOUS
  <2>1. readySince[r] = first /\ first <= readySince[s] /\ first \in Nat
        /\ readySince[s] \in Nat
    BY <1>1, <1>2, <1>4
  <2>2. CASE readySince[s] = first
    <3>1. r <= s /\ r # s /\ r \in Nat /\ s \in Nat
      BY <2>2, <1>3, <1>4 DEF Request
    <3> QED BY <3>1, <2>1, <2>2 DEF Older
  <2>3. CASE readySince[s] # first
    BY <2>1, <2>3 DEF Older
  <2> QED BY <2>2, <2>3
<1>6. Cardinality({r}) = 1 /\ r \in S
  BY FS_Singleton, <1>4
<1>7. Smaller(1, Cardinality(S)) = 1
  <2>1. Cardinality(S) \in Nat /\ Cardinality(S) # 0
    BY RequestsFinite, FS_EmptySet
  <2> QED BY <2>1 DEF Smaller
<1> QED BY <1>5, <1>6, <1>7 DEF Oldest

(* If the oldest of a set is not overdue, nobody in it is. *)
LEMMA OldestDecidesOverdue ==
  ASSUME TypeOKWorkload, NEW S \in SUBSET Request, NEW t \in Nat,
         \A first \in Oldest(S, 1) : \A r \in first : ~Overdue(r, t)
  PROVE  \A r \in S : ~Overdue(r, t)
<1> SUFFICES ASSUME NEW r \in S PROVE ~Overdue(r, t)
  OBVIOUS
<1>1. PICK h \in S : {h} \in Oldest(S, 1)
  BY SomebodyIsOldest
<1>2. ~Overdue(h, t)
  BY <1>1
<1>3. h = r \/ Older(h, r)
  BY <1>1 DEF Oldest
<1>4. readySince[h] <= readySince[r] /\ readySince[h] \in Nat /\ readySince[r] \in Nat
  BY <1>3 DEF Older, TypeOKWorkload
<1> QED BY <1>2, <1>4, SelectionAssumption DEF Overdue

-----------------------------------------------------------------------------
(* The inductive invariant.                                                *)

InBatch == phase \in {"selecting", "selected", "running"}

(* The clock is past every decision, and nobody who has arrived became ready in
   the future. *)
ClockInv ==
  /\ decidedAt <= now
  /\ phase \in {"selecting", "selected"} => decidedAt = now
  /\ \A r \in Request : Arrival(r) <= readySince[r]
  /\ \A r \in Request : readySince[r] <= now \/ readySince[r] = Arrival(r)

(* The batch and the rest partition the requests that were ready, and some member
   of the batch is preferred to everybody left out. *)
SelectionInv ==
  InBatch =>
    /\ readyAt = Ready(decidedAt)
    /\ selected \subseteq readyAt
    /\ remaining = readyAt \ selected
    /\ Cardinality(selected) <= MaxBatchSize
    /\ \E h \in selected : \A s \in remaining : Older(h, s)

(* While a batch is formed, its members are preferred to every overdue request
   left out; once it is formed, it leaves one out only when it is full. *)
OverdueInv ==
  InBatch =>
    \A r \in remaining :
      Overdue(r, decidedAt) =>
        /\ \A s \in selected : Older(s, r)
        /\ phase # "selecting" => Cardinality(selected) = MaxBatchSize

Inductive == TypeOK /\ ClockInv /\ SelectionInv /\ OverdueInv /\ BoundedBypass

-----------------------------------------------------------------------------
(* What a policy may do.                                                   *)

(* Types of the estimates a policy charges. *)
LEMMA PoolType ==
  ASSUME TypeOKWorkload, NEW S \in SUBSET Request, NEW pool \in Pool(S)
  PROVE  pool \subseteq S /\ Cardinality(pool) \in Nat /\ IsFiniteSet(pool)
<1>1. pool \subseteq S
  BY DEF Pool, Oldest
<1> QED BY <1>1, RequestsFinite

LEMMA ProfiledType ==
  ASSUME TypeOKSelection, NEW S
  PROVE  Profiled(S) \in [Request -> ProfileSource]
BY DEF TypeOKSelection, Profiled, ProfileSource

LEMMA OverheadType ==
  ASSUME NEW c \in Nat, NEW p \in Nat
  PROVE  StepOverhead(c, p) \in Nat
<1>1. c * CandidateOverhead \in Nat /\ p * ProxyOverhead \in Nat /\ BaseOverhead \in Nat
  BY SelectionAssumption
<1> QED BY <1>1 DEF StepOverhead

(* A batch the scheduler has begun or formed from the ready requests. *)
Begun(batch, ready) ==
  /\ batch \subseteq ready
  /\ Cardinality(batch) <= MaxBatchSize
  /\ \E h \in batch : \A s \in ready \ batch : Older(h, s)

(* FIFO takes the oldest requests: everybody in the batch is preferred to
   everybody left out, and nobody is left out of a batch with room. *)
LEMMA BeginsFIFO ==
  ASSUME TypeOK, NEW ready \in SUBSET Request, ready # {}, SelectFIFO(ready)
  PROVE  /\ TypeOKSelection'
         /\ Begun(selected', ready) /\ remaining' = ready \ selected'
         /\ \A r \in remaining' : /\ \A s \in selected' : Older(s, r)
                                  /\ Cardinality(selected') = MaxBatchSize
<1>1. selected' \in Oldest(ready, MaxBatchSize) /\ MaxBatchSize \in Nat \ {0}
  BY SelectionAssumption DEF SelectFIFO
<1>2. /\ selected' \subseteq ready /\ selected' # {}
      /\ Cardinality(selected') <= MaxBatchSize
      /\ \A r \in selected', s \in ready \ selected' : Older(r, s)
      /\ ready \ selected' # {} => Cardinality(selected') = MaxBatchSize
  BY <1>1, OldestOfSet
<1>3. remaining' = ready \ selected'
  BY DEF SelectFIFO
<1>4. TypeOKSelection'
  <2>1. StepOverhead(0, 0) \in Nat
    BY OverheadType
  <2> QED BY <1>2, <2>1 DEF TypeOK, TypeOKSelection, SelectFIFO
<1> QED BY <1>2, <1>3, <1>4 DEF Begun

(* The greedy policies start from the one request preferred to all others. *)
LEMMA BeginsGreedy ==
  ASSUME TypeOK, NEW ready \in SUBSET Request, ready # {}, BeginGreedy(ready)
  PROVE  /\ TypeOKSelection'
         /\ Begun(selected', ready) /\ remaining' = ready \ selected'
         /\ \A r \in remaining', s \in selected' : Older(s, r)
<1>1. /\ selected' \subseteq ready /\ selected' # {}
      /\ Cardinality(selected') <= 1
      /\ \A r \in selected', s \in ready \ selected' : Older(r, s)
  BY OldestOfSet DEF BeginGreedy
<1>2. remaining' = ready \ selected'
  BY DEF BeginGreedy
<1>3. Cardinality(selected') <= MaxBatchSize
  <2>1. Cardinality(selected') \in Nat
    BY <1>1, RequestsFinite
  <2> QED BY <1>1, <2>1, SelectionAssumption
<1>4. TypeOKSelection'
  BY <1>1 DEF TypeOK, TypeOKSelection, BeginGreedy
<1> QED BY <1>1, <1>2, <1>3, <1>4 DEF Begun

(* The one-shot policy takes its anchor, then overdue requests from the oldest:
   it has no slot left for the pool when one of them stays behind. *)
LEMMA BeginsOneShot ==
  ASSUME TypeOK, NEW ready \in SUBSET Request, ready # {}, NEW t \in Nat,
         SelectOneShot(ready, t)
  PROVE  /\ TypeOKSelection'
         /\ Begun(selected', ready) /\ remaining' = ready \ selected'
         /\ \A r \in remaining' :
              Overdue(r, t) => /\ \A s \in selected' : Older(s, r)
                               /\ Cardinality(selected') = MaxBatchSize
<1> DEFINE late(anchor) == {r \in ready \ anchor : Overdue(r, t)}
<1>1. PICK anchor \in Oldest(ready, 1) : \E l \in Oldest(late(anchor), MaxBatchSize - 1) :
        LET slots == MaxBatchSize - 1 - Cardinality(l)
            rest  == ready \ (anchor \cup l)
        IN  \E pool \in Pool(rest) : \E fill \in SUBSET pool :
              /\ Cardinality(fill) = Smaller(slots, Cardinality(pool))
              /\ selected' = anchor \cup l \cup fill
              /\ remaining' = ready \ selected'
              /\ IF slots > 0 /\ Cardinality(pool) > slots
                 THEN /\ proxyEvals' = Cardinality(pool)
                      /\ profile' = Profiled(anchor \cup l \cup pool)
                 ELSE proxyEvals' = 0 /\ UNCHANGED profile
  BY DEF SelectOneShot
<1>2. PICK l \in Oldest(late(anchor), MaxBatchSize - 1) :
        LET slots == MaxBatchSize - 1 - Cardinality(l)
            rest  == ready \ (anchor \cup l)
        IN  \E pool \in Pool(rest) : \E fill \in SUBSET pool :
              /\ Cardinality(fill) = Smaller(slots, Cardinality(pool))
              /\ selected' = anchor \cup l \cup fill
              /\ remaining' = ready \ selected'
              /\ IF slots > 0 /\ Cardinality(pool) > slots
                 THEN /\ proxyEvals' = Cardinality(pool)
                      /\ profile' = Profiled(anchor \cup l \cup pool)
                 ELSE proxyEvals' = 0 /\ UNCHANGED profile
  BY <1>1
<1> DEFINE slots == MaxBatchSize - 1 - Cardinality(l)
           rest  == ready \ (anchor \cup l)
<1>3. PICK pool \in Pool(rest) : \E fill \in SUBSET pool :
        /\ Cardinality(fill) = Smaller(slots, Cardinality(pool))
        /\ selected' = anchor \cup l \cup fill
        /\ remaining' = ready \ selected'
        /\ IF slots > 0 /\ Cardinality(pool) > slots
           THEN /\ proxyEvals' = Cardinality(pool)
                /\ profile' = Profiled(anchor \cup l \cup pool)
           ELSE proxyEvals' = 0 /\ UNCHANGED profile
  BY <1>2
<1>4. PICK fill \in SUBSET pool :
        /\ Cardinality(fill) = Smaller(slots, Cardinality(pool))
        /\ selected' = anchor \cup l \cup fill
        /\ remaining' = ready \ selected'
        /\ IF slots > 0 /\ Cardinality(pool) > slots
           THEN /\ proxyEvals' = Cardinality(pool)
                /\ profile' = Profiled(anchor \cup l \cup pool)
           ELSE proxyEvals' = 0 /\ UNCHANGED profile
  BY <1>3
<1>5. /\ anchor \subseteq ready /\ anchor # {} /\ Cardinality(anchor) <= 1
      /\ \A r \in anchor, s \in ready \ anchor : Older(r, s)
  BY OldestOfSet
<1>6. /\ l \subseteq late(anchor) /\ Cardinality(l) <= MaxBatchSize - 1
      /\ \A r \in l, s \in late(anchor) \ l : Older(r, s)
      /\ late(anchor) \ l # {} => Cardinality(l) = MaxBatchSize - 1
  <2>1. late(anchor) \in SUBSET Request /\ MaxBatchSize - 1 \in Nat
    BY SelectionAssumption
  <2> HIDE DEF late
  <2> QED BY <2>1, OldestOfSet
<1>7. pool \subseteq rest /\ Cardinality(pool) \in Nat
  BY PoolType DEF TypeOK
<1>8. /\ selected' \subseteq ready
      /\ Cardinality(anchor) \in Nat /\ Cardinality(l) \in Nat /\ Cardinality(fill) \in Nat
      /\ IsFiniteSet(anchor) /\ IsFiniteSet(l) /\ IsFiniteSet(fill)
  <2>1. selected' \subseteq ready
    BY <1>4, <1>5, <1>6, <1>7
  <2>2. anchor \in SUBSET Request /\ l \in SUBSET Request /\ fill \in SUBSET Request
    BY <1>4, <1>5, <1>6, <1>7
  <2> QED BY <2>1, <2>2, RequestsFinite
<1>9. slots \in Nat /\ Cardinality(fill) <= slots
  BY <1>4, <1>6, <1>7, <1>8, SelectionAssumption DEF Smaller
<1>10. Cardinality(selected') = Cardinality(anchor) + Cardinality(l) + Cardinality(fill)
  <2>1. anchor \cap l = {} /\ (anchor \cup l) \cap fill = {}
    BY <1>4, <1>6, <1>7
  <2>2. /\ IsFiniteSet(anchor \cup l)
        /\ Cardinality(anchor \cup l) = Cardinality(anchor) + Cardinality(l)
    BY <1>8, <2>1, FS_Union, FS_EmptySet
  <2> DEFINE both == anchor \cup l
  <2>3. IsFiniteSet(both) /\ Cardinality(both) \in Nat /\ both \cap fill = {}
    BY <1>8, <2>1, <2>2
  <2>4. selected' = both \cup fill
    BY <1>4
  <2> HIDE DEF both
  <2>5. Cardinality(both \cup fill)
          = Cardinality(both) + Cardinality(fill) - Cardinality(both \cap fill)
    BY <1>8, <2>3, FS_Union
  <2>6. Cardinality(selected') = Cardinality(both) + Cardinality(fill)
    BY <1>8, <2>3, <2>4, <2>5, FS_EmptySet
  <2> QED BY <2>2, <2>6 DEF both
<1>11. Begun(selected', ready)
  <2>1. Cardinality(selected') <= MaxBatchSize
    BY <1>5, <1>8, <1>9, <1>10, SelectionAssumption
  <2>2. \E h \in selected' : \A s \in ready \ selected' : Older(h, s)
    BY <1>4, <1>5
  <2> QED BY <1>8, <2>1, <2>2 DEF Begun
<1>12. ASSUME NEW r \in remaining', Overdue(r, t)
       PROVE  /\ \A s \in selected' : Older(s, r)
              /\ Cardinality(selected') = MaxBatchSize
  <2>1. r \in late(anchor) \ l
    BY <1>4, <1>12
  <2>2. Cardinality(l) = MaxBatchSize - 1
    BY <1>6, <2>1
  <2>3. Cardinality(fill) = 0
    BY <1>8, <1>9, <2>2, SelectionAssumption
  <2>4. fill = {}
    BY <1>8, <2>3, FS_EmptySet
  <2>5. Cardinality(anchor) = 1
    BY <1>5, <1>8, FS_EmptySet
  <2>6. Cardinality(selected') = MaxBatchSize
    BY <1>10, <2>2, <2>3, <2>5, SelectionAssumption
  <2>7. \A s \in selected' : Older(s, r)
    BY <1>4, <1>5, <1>6, <2>1, <2>4
  <2> QED BY <2>6, <2>7
<1>13. TypeOKSelection'
  <2>1. proxyEvals' \in Nat /\ profile' \in [Request -> ProfileSource]
    BY <1>4, <1>7, ProfiledType DEF TypeOK, TypeOKSelection
  <2>2. lastOverhead' \in Nat
    BY <2>1, OverheadType DEF SelectOneShot
  <2>3. candidateEvals' = 0 /\ histogramBuilt' = FALSE /\ remaining' = ready \ selected'
    BY <1>4 DEF SelectOneShot
  <2> QED BY <1>8, <2>1, <2>2, <2>3 DEF TypeOKSelection
<1> QED BY <1>4, <1>11, <1>12, <1>13

(* One round of the greedy loop moves one request into a batch that has room,
   and when an overdue request stays behind, the one moved is preferred to it. *)
LEMMA ExtendsByOne ==
  ASSUME TypeOK, ExtendBatch
  PROVE  /\ TypeOKSelection'
         /\ BatchOpen
         /\ \E r \in remaining :
              /\ selected' = selected \cup {r}
              /\ remaining' = remaining \ {r}
              /\ \A q \in remaining' : Overdue(q, now) => Older(r, q)
<1> DEFINE Moved(r) == selected' = selected \cup {r} /\ remaining' = remaining \ {r}
<1>1. remaining \in SUBSET Request /\ selected \in SUBSET Request /\ now \in Nat
      /\ lastOverhead \in Nat /\ candidateEvals \in Nat /\ proxyEvals \in Nat
      /\ histogramBuilt \in BOOLEAN /\ profile \in [Request -> ProfileSource]
      /\ TypeOKWorkload /\ TypeOKSelection
  BY DEF TypeOK, TypeOKSelection, TypeOKServing
<1>2. NoneOverdue(now) => \A q \in remaining : ~Overdue(q, now)
  BY <1>1, OldestDecidesOverdue DEF NoneOverdue
<1>3. CASE PickOverdue(now)
  <2>1. PICK first \in Oldest(remaining, 1) : \E r \in first :
          /\ Choose(r)
          /\ profile' = IF histogramBuilt THEN Profiled({r}) ELSE profile
    BY <1>3 DEF PickOverdue
  <2>2. PICK r \in first :
          /\ Choose(r)
          /\ profile' = IF histogramBuilt THEN Profiled({r}) ELSE profile
    BY <2>1
  <2>3. first \subseteq remaining /\ Cardinality(first) <= 1
        /\ \A a \in first, b \in remaining \ first : Older(a, b)
    BY <1>1, OldestOfSet
  <2>4. first = {r}
    <3>1. IsFiniteSet(first) /\ Cardinality(first) \in Nat
      BY <1>1, <2>3, RequestsFinite
    <3>2. Cardinality(first) # 0
      BY <3>1, <2>2, FS_EmptySet
    <3>3. Cardinality(first) = 1
      BY <3>1, <3>2, <2>3
    <3> QED BY <3>1, <3>3, <2>2, FS_Singleton
  <2>5. Moved(r) /\ UNCHANGED <<lastOverhead, histogramBuilt, candidateEvals, proxyEvals>>
        /\ BatchOpen
    BY <1>3, <2>2 DEF PickOverdue, Choose
  <2>6. profile' \in [Request -> ProfileSource]
    BY <1>1, <2>2, ProfiledType
  <2>7. TypeOKSelection'
    BY <1>1, <2>3, <2>5, <2>6 DEF TypeOKSelection
  <2> QED BY <2>3, <2>4, <2>5, <2>7
<1>4. CASE PickMostSimilar(now)
  <2>1. PICK pool \in Pool(remaining) : \E r \in pool :
          Choose(r) /\ candidateEvals' = candidateEvals + Cardinality(pool)
    BY <1>4 DEF PickMostSimilar
  <2>2. PICK r \in pool :
          Choose(r) /\ candidateEvals' = candidateEvals + Cardinality(pool)
    BY <2>1
  <2>3. pool \subseteq remaining /\ Cardinality(pool) \in Nat
    BY <1>1, PoolType
  <2>4. Moved(r) /\ UNCHANGED <<lastOverhead, histogramBuilt, proxyEvals, profile>>
        /\ BatchOpen /\ NoneOverdue(now)
    BY <1>4, <2>2 DEF PickMostSimilar, Choose
  <2>5. TypeOKSelection'
    BY <1>1, <2>2, <2>3, <2>4 DEF TypeOKSelection
  <2> QED BY <1>2, <2>3, <2>4, <2>5
<1>5. CASE PickOnly(now)
  <2>1. PICK pool \in Pool(remaining) : \E r \in pool :
          /\ Choose(r)
          /\ profile' = IF histogramBuilt THEN Profiled({r}) ELSE profile
    BY <1>5 DEF PickOnly
  <2>2. PICK r \in pool :
          /\ Choose(r)
          /\ profile' = IF histogramBuilt THEN Profiled({r}) ELSE profile
    BY <2>1
  <2>3. pool \subseteq remaining
    BY <1>1, PoolType
  <2>4. Moved(r) /\ UNCHANGED <<lastOverhead, histogramBuilt, candidateEvals, proxyEvals>>
        /\ BatchOpen /\ NoneOverdue(now)
    BY <1>5, <2>2 DEF PickOnly, Choose
  <2>5. profile' \in [Request -> ProfileSource]
    BY <1>1, <2>2, ProfiledType
  <2>6. TypeOKSelection'
    BY <1>1, <2>3, <2>4, <2>5 DEF TypeOKSelection
  <2> QED BY <1>2, <2>3, <2>4, <2>6
<1>6. CASE PickCheapest(now)
  <2> DEFINE shortened(pool) == ShortlistSize # None /\ ShortlistSize < Cardinality(pool)
             exact(pool) == IF shortened(pool) THEN ShortlistSize ELSE Cardinality(pool)
  <2>1. PICK pool \in Pool(remaining) :
          /\ proxyEvals' = proxyEvals + (IF shortened(pool) THEN Cardinality(pool) ELSE 0)
          /\ candidateEvals' = candidateEvals + (IF exact(pool) = 1 THEN 0 ELSE exact(pool))
          /\ \E r \in pool : Choose(r)
          /\ profile' = Profiled(selected \cup pool)
    BY <1>6 DEF PickCheapest
  <2>2. PICK r \in pool : Choose(r)
    BY <2>1
  <2>3. pool \subseteq remaining /\ Cardinality(pool) \in Nat
    BY <1>1, PoolType
  <2>4. Moved(r) /\ UNCHANGED lastOverhead /\ histogramBuilt' = TRUE
        /\ BatchOpen /\ NoneOverdue(now)
    BY <1>6, <2>2 DEF PickCheapest, Choose
  <2>5. profile' \in [Request -> ProfileSource]
    BY <1>1, <2>1, ProfiledType
  <2>6. proxyEvals' \in Nat /\ candidateEvals' \in Nat
    <3>1. exact(pool) \in Nat
      BY <2>3, SelectionAssumption
    <3> QED BY <1>1, <2>1, <2>3, <3>1
  <2>7. TypeOKSelection'
    BY <1>1, <2>3, <2>4, <2>5, <2>6 DEF TypeOKSelection
  <2> QED BY <1>2, <2>3, <2>4, <2>7
<1> QED BY <1>3, <1>4, <1>5, <1>6 DEF ExtendBatch

-----------------------------------------------------------------------------
(* The steps of the loop.                                                  *)

(* A set of other requests is smaller than the workload. *)
LEMMA OthersBound ==
  ASSUME NEW r \in Request, NEW S \in SUBSET (Request \ {r})
  PROVE  IsFiniteSet(S) /\ Cardinality(S) \in Nat /\ Cardinality(S) < NumRequests
<1>1. IsFiniteSet(Request \ {r}) /\ Cardinality(Request \ {r}) = NumRequests - 1
  BY RequestsFinite, FS_RemoveElement
<1>2. IsFiniteSet(S) /\ Cardinality(S) <= NumRequests - 1
  BY <1>1, FS_Subset
<1> QED BY <1>2, FS_CardinalityType, WorkloadAssumption

(* The initial state satisfies the invariant. *)
LEMMA InitInductive == Init => Inductive
<1> SUFFICES ASSUME Init PROVE Inductive
  OBVIOUS
<1> USE DEF Init, InitWorkload, InitSelection
<1>1. TypeOK
  <2>1. TypeOKWorkload
    BY ArrivalType DEF TypeOKWorkload
  <2>2. TypeOKSelection
    BY DEF TypeOKSelection, ProfileSource
  <2>3. TypeOKServing
    BY DEF TypeOKServing, NoBatch
  <2> QED BY <2>1, <2>2, <2>3 DEF TypeOK
<1>2. ClockInv
  BY ArrivalType DEF ClockInv
<1>3. SelectionInv /\ OverdueInv
  BY DEF SelectionInv, OverdueInv, InBatch
<1>4. BoundedBypass
  <2> SUFFICES ASSUME NEW r \in Unfinished
               PROVE  bypassed[r] + Cardinality(Ahead(r)) < NumRequests
    BY DEF BoundedBypass
  <2>1. r \in Request /\ bypassed[r] = 0
    BY DEF Unfinished
  <2>2. Cardinality(Ahead(r)) \in Nat /\ Cardinality(Ahead(r)) < NumRequests
    BY <2>1, OthersBound DEF Ahead, Unfinished
  <2> QED BY <2>1, <2>2
<1> QED BY <1>1, <1>2, <1>3, <1>4 DEF Inductive

(* What a call of the scheduler leaves: a batch begun from the ready requests. *)
LEMMA CallBegins ==
  ASSUME TypeOK, CallScheduler
  PROVE  /\ TypeOKSelection'
         /\ Begun(selected', Ready(now)) /\ remaining' = Ready(now) \ selected'
         /\ phase' \in {"selecting", "selected"}
         /\ \A r \in remaining' :
              Overdue(r, now) =>
                /\ \A s \in selected' : Older(s, r)
                /\ phase' # "selecting" => Cardinality(selected') = MaxBatchSize
<1>1. Ready(now) \in SUBSET Request /\ Ready(now) # {} /\ now \in Nat
  BY DEF CallScheduler, EnterLoop, Ready, Unfinished, TypeOK, TypeOKServing
<1>2. CASE SelectFIFO(Ready(now)) /\ phase' = "selected"
  BY <1>1, <1>2, BeginsFIFO
<1>3. CASE SelectOneShot(Ready(now), now) /\ phase' = "selected"
  BY <1>1, <1>3, BeginsOneShot
<1>4. CASE BeginGreedy(Ready(now)) /\ phase' = "selecting"
  BY <1>1, <1>4, BeginsGreedy
<1> QED BY <1>2, <1>3, <1>4 DEF CallScheduler

(* Type correctness is preserved, given that whoever is served is unfinished and
   has not become ready in the future. *)
LEMMA StepTypeOK ==
  ASSUME Inductive, [Next]_vars
  PROVE  TypeOK'
<1> USE DEF Inductive, simulatorVars, historyVars, workloadVars, selectionVars
<1>1. CASE AwaitArrival
  <2>1. now' \in Nat
    BY <1>1, NextArrivalIsLater DEF AwaitArrival, EnterLoop, TypeOK, TypeOKServing
  <2> QED BY <1>1, <2>1
    DEF AwaitArrival, EnterLoop, TypeOK, TypeOKWorkload, TypeOKSelection, TypeOKServing
<1>2. CASE CallScheduler
  <2>1. TypeOKSelection' /\ phase' \in {"selecting", "selected"}
    BY <1>2, CallBegins
  <2>2. readyAt' \in SUBSET Request
    BY <1>2 DEF CallScheduler, Ready, Unfinished
  <2> QED BY <1>2, <2>1, <2>2 DEF CallScheduler, EnterLoop, TypeOK, TypeOKWorkload, TypeOKServing
<1>3. CASE ExtendBatch
  <2>1. TypeOKSelection'
    BY <1>3, ExtendsByOne
  <2> QED BY <1>3, <2>1 DEF ExtendBatch, TypeOK, TypeOKWorkload, TypeOKServing
<1>4. CASE CloseBatch
  <2>1. lastOverhead' \in Nat
    BY <1>4, OverheadType DEF CloseBatch, EndGreedy, TypeOK, TypeOKSelection
  <2> QED BY <1>4, <2>1
    DEF CloseBatch, EndGreedy, TypeOK, TypeOKWorkload, TypeOKSelection, TypeOKServing
<1>5. CASE StartBatch
  <2>1. now' \in Nat /\ now <= now'
    BY <1>5 DEF StartBatch, TypeOK, TypeOKSelection, TypeOKServing
  <2>2. \A r \in selected : r \in Request /\ readySince[r] <= now
    <3>1. \A r \in selected : r \in Request /\ Arrival(r) <= decidedAt
      BY <1>5 DEF StartBatch, SelectionInv, InBatch, Ready, Unfinished
    <3> QED BY <3>1, ArrivalType DEF ClockInv, TypeOK, TypeOKServing
  <2>3. queueDelay' \in [Request -> Nat]
    <3>1. \A r \in selected : queueDelay[r] + now' - readySince[r] \in Nat
      BY <2>1, <2>2 DEF TypeOK, TypeOKWorkload, TypeOKServing
    <3> QED BY <1>5, <3>1 DEF StartBatch, TypeOK, TypeOKServing
  <2>4. processed' \in [Request -> Nat]
    <3>1. \A r \in Request : ActivePositions(r) \in Nat
      BY WidthType DEF ActivePositions, TypeOK, TypeOKWorkload
    <3> QED BY <1>5, <3>1 DEF StartBatch, TypeOK, TypeOKServing
  <2>5. lastBatch' \in [id : Int, start : Nat, end : Nat]
    BY <1>5, <2>1 DEF StartBatch, TypeOK, TypeOKServing
  <2> QED BY <1>5, <2>1, <2>3, <2>4, <2>5
    DEF StartBatch, TypeOK, TypeOKWorkload, TypeOKSelection, TypeOKServing
<1>6. CASE ExecuteBatch
  <2>1. PICK elapsed \in BatchTimes :
          /\ now' = now + elapsed
          /\ served' = [r \in Request |-> IF r \in selected THEN served[r] + elapsed
                                                            ELSE served[r]]
    BY <1>6 DEF ExecuteBatch
  <2>2. now' \in Nat /\ served' \in [Request -> Nat]
    BY <2>1, BatchTimesAssumption DEF TypeOK, TypeOKServing
  <2>3. TypeOKWorkload'
    <3>1. Finalize(selected, now')
      BY <1>6 DEF ExecuteBatch
    <3>2. \A r \in selected : r \in Request /\ finalized[r] < OutputOf(r)
      BY <1>6, OutputType
      DEF ExecuteBatch, SelectionInv, InBatch, Ready, Unfinished, Done, TypeOK, TypeOKWorkload
    <3>3. \A r \in selected : FinalizedByStep(r) \in Nat
      BY <3>2, OutputType, WorkloadAssumption
      DEF FinalizedByStep, Smaller, TypeOK, TypeOKWorkload
    <3>4. finalized' \in [Request -> Nat]
      BY <3>1, <3>3 DEF Finalize, TypeOK, TypeOKWorkload
    <3>5. /\ iteration' \in [Request -> Nat]
          /\ readySince' \in [Request -> Nat]
          /\ completedAt' \in [Request -> Nat \cup {Never}]
      BY <2>2, <3>1 DEF Finalize, TypeOK, TypeOKWorkload
    <3> QED BY <3>4, <3>5 DEF TypeOKWorkload
  <2>4. TypeOKSelection'
    <3>1. profile' \in [Request -> ProfileSource]
      BY <1>6 DEF ExecuteBatch, PrepareRequests, TypeOK, TypeOKSelection, ProfileSource
    <3> QED BY <1>6, <3>1 DEF ExecuteBatch, TypeOK, TypeOKSelection
  <2>5. TypeOKServing'
    <3>1. bypassed' \in [Request -> Nat]
      BY <1>6 DEF ExecuteBatch, TypeOK, TypeOKServing
    <3>2. lastBatch' \in [id : Int, start : Nat, end : Nat]
      BY <1>6, <2>2 DEF ExecuteBatch, TypeOK, TypeOKServing
    <3> QED BY <1>6, <2>2, <3>1, <3>2 DEF ExecuteBatch, TypeOK, TypeOKServing
  <2> QED BY <2>3, <2>4, <2>5 DEF TypeOK
<1>7. CASE Finish
  BY <1>7 DEF Finish, TypeOK, TypeOKWorkload, TypeOKSelection, TypeOKServing
<1>8. CASE UNCHANGED vars
  BY <1>8 DEF vars, TypeOK, TypeOKWorkload, TypeOKSelection, TypeOKServing
<1>9. CASE ExceedLimit
  BY <1>9 DEF ExceedLimit, TypeOK, TypeOKWorkload, TypeOKSelection, TypeOKServing
<1> QED BY <1>1, <1>2, <1>3, <1>4, <1>5, <1>6, <1>7, <1>8, <1>9 DEF Next, Finished

(* The clock only moves forward, and a request becomes ready at the clock. *)
LEMMA StepClockInv ==
  ASSUME Inductive, [Next]_vars
  PROVE  ClockInv'
<1> USE DEF Inductive, simulatorVars, historyVars, workloadVars, selectionVars
<1>0. /\ now \in Nat /\ decidedAt \in Nat
      /\ \A r \in Request : readySince[r] \in Nat /\ Arrival(r) \in Nat
  BY ArrivalType DEF TypeOK, TypeOKWorkload, TypeOKServing
<1>1. CASE AwaitArrival
  <2>1. now' \in Nat /\ now < now'
    BY <1>0, <1>1, NextArrivalIsLater DEF AwaitArrival, EnterLoop
  <2> QED BY <1>0, <1>1, <2>1 DEF AwaitArrival, EnterLoop, ClockInv, Arrival
<1>2. CASE CallScheduler
  BY <1>0, <1>2 DEF CallScheduler, ClockInv, Arrival
<1>3. CASE ExtendBatch
  BY <1>0, <1>3 DEF ExtendBatch, ClockInv, Arrival
<1>4. CASE CloseBatch
  BY <1>0, <1>4 DEF CloseBatch, ClockInv, Arrival
<1>5. CASE StartBatch
  <2>1. now' \in Nat /\ now <= now'
    BY <1>0, <1>5 DEF StartBatch, TypeOK, TypeOKSelection
  <2> QED BY <1>0, <1>5, <2>1 DEF StartBatch, ClockInv, Arrival
<1>6. CASE ExecuteBatch
  <2>1. now' \in Nat /\ now < now'
    BY <1>0, <1>6, BatchTimesAssumption DEF ExecuteBatch
  <2>2. \A r \in selected : r \in Request /\ Arrival(r) <= now
    <3>1. \A r \in selected : r \in Request /\ Arrival(r) <= decidedAt
      BY <1>6 DEF ExecuteBatch, SelectionInv, InBatch, Ready, Unfinished
    <3> QED BY <1>0, <3>1 DEF ClockInv
  <2>3. \A r \in Request :
          readySince'[r] = IF r \in selected THEN now' ELSE readySince[r]
    BY <1>6 DEF ExecuteBatch, Finalize
  <2>4. phase' = "loop" /\ decidedAt' = decidedAt
    BY <1>6 DEF ExecuteBatch
  <2>5. \A r \in Request : Arrival(r) <= readySince'[r]
    BY <1>0, <2>1, <2>2, <2>3 DEF ClockInv
  <2>6. \A r \in Request : readySince'[r] <= now' \/ readySince'[r] = Arrival(r)
    BY <1>0, <2>1, <2>3 DEF ClockInv
  <2> QED BY <1>0, <2>1, <2>4, <2>5, <2>6 DEF ClockInv, Arrival
<1>7. CASE Finish
  BY <1>0, <1>7 DEF Finish, ClockInv, Arrival
<1>8. CASE UNCHANGED vars
  BY <1>8 DEF vars, ClockInv, Arrival
<1>9. CASE ExceedLimit
  BY <1>0, <1>9 DEF ExceedLimit, ClockInv, Arrival
<1> QED BY <1>1, <1>2, <1>3, <1>4, <1>5, <1>6, <1>7, <1>8, <1>9 DEF Next, Finished

(* The steps between two batches leave the order of requests alone. *)
LEMMA OrderUnchanged ==
  ASSUME UNCHANGED workloadVars
  PROVE  /\ Unfinished' = Unfinished
         /\ \A t : Ready(t)' = Ready(t)
         /\ \A r, s : Older(r, s)' <=> Older(r, s)
         /\ \A r, t : Overdue(r, t)' <=> Overdue(r, t)
         /\ \A r : Ahead(r)' = Ahead(r)
BY DEF workloadVars, Unfinished, Done, Ready, Older, Overdue, Ahead

(* The batch and the rest stay a partition, and its anchor stays in it. *)
LEMMA StepSelectionInv ==
  ASSUME Inductive, [Next]_vars
  PROVE  SelectionInv'
<1> USE DEF Inductive
<1>1. CASE AwaitArrival
  BY <1>1 DEF AwaitArrival, EnterLoop, SelectionInv, InBatch
<1>2. CASE CallScheduler
  <2>1. /\ Begun(selected', Ready(now)) /\ remaining' = Ready(now) \ selected'
        /\ readyAt' = Ready(now) /\ decidedAt' = now
        /\ UNCHANGED workloadVars
    BY <1>2, CallBegins DEF CallScheduler
  <2>2. readyAt' = Ready(decidedAt)'
    BY <2>1 DEF workloadVars, Ready, Unfinished, Done
  <2>3. \E h \in selected' : \A s \in remaining' : Older(h, s)'
    BY <2>1, OrderUnchanged DEF Begun
  <2> QED BY <2>1, <2>2, <2>3 DEF SelectionInv, Begun
<1>3. CASE ExtendBatch
  <2>1. PICK r \in remaining : selected' = selected \cup {r} /\ remaining' = remaining \ {r}
    BY <1>3, ExtendsByOne
  <2>2. BatchOpen /\ UNCHANGED <<workloadVars, readyAt, decidedAt, phase>> /\ InBatch
    BY <1>3, ExtendsByOne DEF ExtendBatch, historyVars, simulatorVars, InBatch
  <2>3. Cardinality(selected') <= MaxBatchSize
    <3>1. selected \in SUBSET Request /\ IsFiniteSet(selected) /\ Cardinality(selected) \in Nat
      BY RequestsFinite DEF TypeOK, TypeOKSelection
    <3>2. r \notin selected
      BY <2>1, <2>2 DEF SelectionInv
    <3>3. Cardinality(selected') = Cardinality(selected) + 1
      BY <2>1, <3>1, <3>2, FS_AddElement
    <3> QED BY <2>2, <3>1, <3>3, SelectionAssumption DEF BatchOpen
  <2>4. readyAt' = Ready(decidedAt)'
    BY <2>2 DEF SelectionInv, workloadVars, Ready, Unfinished, Done
  <2>5. \E h \in selected' : \A s \in remaining' : Older(h, s)'
    BY <2>1, <2>2, OrderUnchanged DEF SelectionInv
  <2> QED BY <2>1, <2>2, <2>3, <2>4, <2>5 DEF SelectionInv
<1>4. CASE CloseBatch
  BY <1>4 DEF CloseBatch, EndGreedy, SelectionInv, InBatch, historyVars, workloadVars,
              Ready, Unfinished, Done, Older
<1>5. CASE StartBatch
  BY <1>5 DEF StartBatch, SelectionInv, InBatch, historyVars, workloadVars,
              Ready, Unfinished, Done, Older
<1>6. CASE ExecuteBatch
  BY <1>6 DEF ExecuteBatch, SelectionInv, InBatch
<1>7. CASE Finish
  BY <1>7 DEF Finish, SelectionInv, InBatch
<1>8. CASE UNCHANGED vars
  BY <1>8 DEF vars, simulatorVars, historyVars, workloadVars, selectionVars,
              SelectionInv, InBatch, Ready, Unfinished, Done, Older
<1>9. CASE ExceedLimit
  BY <1>9 DEF ExceedLimit, SelectionInv, InBatch
<1> QED BY <1>1, <1>2, <1>3, <1>4, <1>5, <1>6, <1>7, <1>8, <1>9 DEF Next, Finished

(* An overdue request stays behind only behind preferred requests. *)
LEMMA StepOverdueInv ==
  ASSUME Inductive, [Next]_vars
  PROVE  OverdueInv'
<1> USE DEF Inductive
<1>1. CASE AwaitArrival
  BY <1>1 DEF AwaitArrival, EnterLoop, OverdueInv, InBatch
<1>2. CASE CallScheduler
  <2>1. decidedAt' = now /\ UNCHANGED workloadVars
    BY <1>2 DEF CallScheduler
  <2>2. \A r \in remaining' :
          Overdue(r, now) =>
            /\ \A s \in selected' : Older(s, r)
            /\ phase' # "selecting" => Cardinality(selected') = MaxBatchSize
    BY <1>2, CallBegins
  <2> QED BY <2>1, <2>2 DEF OverdueInv, workloadVars, Overdue, Older
<1>3. CASE ExtendBatch
  <2>1. PICK r \in remaining :
          /\ selected' = selected \cup {r}
          /\ remaining' = remaining \ {r}
          /\ \A q \in remaining' : Overdue(q, now) => Older(r, q)
    BY <1>3, ExtendsByOne
  <2>2. /\ UNCHANGED <<workloadVars, decidedAt, phase>>
        /\ InBatch /\ phase = "selecting" /\ decidedAt = now
    BY <1>3 DEF ExtendBatch, historyVars, simulatorVars, InBatch, ClockInv
  <2>3. \A q \in remaining' : Overdue(q, now) => \A s \in selected' : Older(s, q)
    BY <2>1, <2>2 DEF OverdueInv
  <2> QED BY <2>2, <2>3 DEF OverdueInv, workloadVars, Overdue, Older
<1>4. CASE CloseBatch
  <2>1. /\ UNCHANGED <<workloadVars, decidedAt, selected, remaining>>
        /\ InBatch /\ ~BatchOpen
    BY <1>4 DEF CloseBatch, EndGreedy, historyVars, InBatch
  <2>2. Cardinality(selected) \in Nat /\ Cardinality(selected) <= MaxBatchSize
    BY <2>1, RequestsFinite DEF SelectionInv, TypeOK, TypeOKSelection
  <2>3. remaining # {} => Cardinality(selected) = MaxBatchSize
    BY <2>1, <2>2, SelectionAssumption DEF BatchOpen
  <2> QED BY <2>1, <2>3 DEF OverdueInv, workloadVars, Overdue, Older
<1>5. CASE StartBatch
  BY <1>5 DEF StartBatch, OverdueInv, InBatch, historyVars, workloadVars, Overdue, Older
<1>6. CASE ExecuteBatch
  BY <1>6 DEF ExecuteBatch, OverdueInv, InBatch
<1>7. CASE Finish
  BY <1>7 DEF Finish, OverdueInv, InBatch
<1>8. CASE UNCHANGED vars
  BY <1>8 DEF vars, simulatorVars, historyVars, workloadVars, selectionVars,
              OverdueInv, InBatch, Overdue, Older
<1>9. CASE ExceedLimit
  BY <1>9 DEF ExceedLimit, OverdueInv, InBatch
<1> QED BY <1>1, <1>2, <1>3, <1>4, <1>5, <1>6, <1>7, <1>8, <1>9 DEF Next, Finished

(* A batch that leaves r out moves its anchor from ahead of r to behind it, and
   brings nobody from behind r to ahead of it. *)
LEMMA BatchMovesAnchor ==
  ASSUME Inductive, ExecuteBatch, NEW r \in Unfinished, r \notin selected
  PROVE  /\ Ahead(r)' \subseteq Ahead(r)
         /\ r \in readyAt => \E h \in Ahead(r) : h \notin Ahead(r)'
<1> USE DEF Inductive
<1>1. /\ now \in Nat /\ now' \in Nat /\ now < now'
      /\ \A s \in Request : readySince[s] \in Nat /\ finalized[s] \in Nat
      /\ r \in Request
  BY BatchTimesAssumption
  DEF ExecuteBatch, TypeOK, TypeOKWorkload, TypeOKServing, Unfinished
<1>2. \A s \in Request :
        /\ readySince'[s] = IF s \in selected THEN now' ELSE readySince[s]
        /\ finalized'[s] = IF s \in selected THEN finalized[s] + FinalizedByStep(s)
                                             ELSE finalized[s]
  BY DEF ExecuteBatch, Finalize
<1>3. /\ InBatch /\ selected \subseteq readyAt /\ remaining = readyAt \ selected
      /\ readyAt = Ready(decidedAt)
  BY DEF ExecuteBatch, InBatch, SelectionInv
<1>4. \A s \in readyAt : s \in Unfinished /\ readySince[s] <= now
  <2>1. \A s \in readyAt : s \in Unfinished /\ Arrival(s) <= decidedAt
    BY <1>3 DEF Ready
  <2>2. \A s \in Request : Arrival(s) \in Nat
    BY ArrivalType
  <2>3. decidedAt \in Nat
    BY DEF TypeOK, TypeOKServing
  <2> QED BY <1>1, <2>1, <2>2, <2>3 DEF ClockInv, Unfinished
<1>5. \A s \in Unfinished' : s \in Unfinished
  BY <1>2, <1>3, <1>4 DEF Unfinished, Done
<1>6. Ahead(r)' \subseteq Ahead(r)
  <2> SUFFICES ASSUME NEW s \in Ahead(r)' PROVE s \in Ahead(r)
    OBVIOUS
  <2>1. s \in Unfinished /\ s \in Request /\ s # r /\ Older(s, r)'
    BY <1>5 DEF Ahead, Unfinished
  <2>2. Older(s, r)
    BY <1>1, <1>2, <1>3, <1>4, <2>1 DEF Older
  <2> QED BY <2>1, <2>2 DEF Ahead
<1>7. ASSUME r \in readyAt
      PROVE  \E h \in Ahead(r) : h \notin Ahead(r)'
  <2>1. r \in remaining
    BY <1>3, <1>7
  <2>2. PICK h \in selected : Older(h, r)
    BY <1>3, <2>1 DEF SelectionInv
  <2>3. h \in Unfinished /\ h \in Request /\ h # r
    BY <1>3, <1>4 DEF Unfinished
  <2>4. h \in Ahead(r)
    BY <2>2, <2>3 DEF Ahead
  <2>5. ~Older(h, r)'
    BY <1>1, <1>2, <1>4, <1>7, <2>3 DEF Older
  <2> QED BY <2>4, <2>5 DEF Ahead
<1> QED BY <1>6, <1>7

(* So being passed over is paid for by a place in the line. *)
LEMMA StepBoundedBypass ==
  ASSUME Inductive, [Next]_vars
  PROVE  BoundedBypass'
<1> USE DEF Inductive
<1>1. CASE UNCHANGED <<workloadVars, bypassed>>
  BY <1>1, OrderUnchanged DEF BoundedBypass
<1>2. CASE ExecuteBatch
  <2> SUFFICES ASSUME NEW r \in Unfinished'
               PROVE  bypassed'[r] + Cardinality(Ahead(r)') < NumRequests
    BY DEF BoundedBypass
  <2>1. /\ r \in Request
        /\ bypassed'[r] = IF r \in selected THEN 0
                          ELSE IF r \in readyAt THEN bypassed[r] + 1 ELSE bypassed[r]
    BY <1>2 DEF ExecuteBatch, Unfinished
  <2>2. Ahead(r)' \in SUBSET (Request \ {r})
    BY DEF Ahead, Unfinished
  <2>3. Cardinality(Ahead(r)') \in Nat /\ Cardinality(Ahead(r)') < NumRequests
    BY <2>1, <2>2, OthersBound
  <2>4. CASE r \in selected
    BY <2>1, <2>3, <2>4
  <2>5. CASE r \notin selected
    <3>1. r \in Unfinished
      BY <1>2, <2>1, <2>5 DEF ExecuteBatch, Finalize, Unfinished, Done
    <3>2. /\ bypassed[r] \in Nat
          /\ bypassed[r] + Cardinality(Ahead(r)) < NumRequests
      BY <2>1, <3>1 DEF BoundedBypass, TypeOK, TypeOKServing
    <3>3. IsFiniteSet(Ahead(r)) /\ Cardinality(Ahead(r)) \in Nat
      BY <2>1, OthersBound DEF Ahead, Unfinished
    <3>4. Ahead(r)' \subseteq Ahead(r)
      BY <1>2, <2>5, <3>1, BatchMovesAnchor
    <3>5. CASE r \in readyAt
      <4>1. PICK h \in Ahead(r) : h \notin Ahead(r)'
        BY <1>2, <2>5, <3>1, <3>5, BatchMovesAnchor
      <4>2. /\ IsFiniteSet(Ahead(r) \ {h})
            /\ Cardinality(Ahead(r) \ {h}) = Cardinality(Ahead(r)) - 1
        BY <3>3, FS_RemoveElement
      <4>3. Cardinality(Ahead(r)') <= Cardinality(Ahead(r)) - 1
        <5>1. Ahead(r)' \in SUBSET (Ahead(r) \ {h})
          BY <3>4, <4>1
        <5> QED BY <4>2, <5>1, FS_Subset
      <4> QED BY <2>1, <2>3, <2>5, <3>2, <3>3, <3>5, <4>3, WorkloadAssumption
    <3>6. CASE r \notin readyAt
      <4>1. Cardinality(Ahead(r)') <= Cardinality(Ahead(r))
        BY <3>3, <3>4, FS_Subset
      <4> QED BY <2>1, <2>3, <2>5, <3>2, <3>3, <3>6, <4>1, WorkloadAssumption
    <3> QED BY <3>5, <3>6
  <2> QED BY <2>4, <2>5
<1>3. ExceedLimit \/ AwaitArrival \/ CallScheduler \/ ExtendBatch \/ CloseBatch \/ StartBatch
        \/ Finish \/ UNCHANGED vars
      => UNCHANGED <<workloadVars, bypassed>>
  BY DEF ExceedLimit, AwaitArrival, CallScheduler, ExtendBatch, CloseBatch, StartBatch,
         Finish, historyVars, vars
<1> QED BY <1>1, <1>2, <1>3 DEF Next, Finished

-----------------------------------------------------------------------------
(* Results.                                                                *)

(* The invariant holds throughout. *)
THEOREM InductiveInvariant == Spec => []Inductive
<1>1. Inductive /\ [Next]_vars => Inductive'
  BY StepTypeOK, StepClockInv, StepSelectionInv, StepOverdueInv, StepBoundedBypass
  DEF Inductive
<1> QED BY InitInductive, <1>1, PTL DEF Spec

(* Every variable keeps its type: in particular no wait is ever negative. *)
THEOREM TypeCorrect == Spec => []TypeOK
<1>1. Inductive => TypeOK
  BY DEF Inductive
<1> QED BY InductiveInvariant, <1>1, PTL

(* No request is passed over by more than NumRequests - 1 batches in a row, for
   every policy, score, arrival pattern and batch duration. *)
THEOREM NobodyStarves == Spec => []BoundedBypass
<1>1. Inductive => BoundedBypass
  BY DEF Inductive
<1> QED BY InductiveInvariant, <1>1, PTL

(* An overdue request is only passed over by a full batch of requests that have
   waited longer. *)
THEOREM ExpiredFirst == Spec => []OverdueFirst
<1>1. Inductive => OverdueFirst
  BY DEF Inductive, OverdueInv, OverdueFirst, InBatch, BatchFormed
<1> QED BY InductiveInvariant, <1>1, PTL

-----------------------------------------------------------------------------
(* A step that is no part of forming or running a batch. *)
Idle == ExceedLimit \/ AwaitArrival \/ Finish \/ UNCHANGED vars

-----------------------------------------------------------------------------
(* Waiting time.                                                           *)

(* Where a request's account stands: at the clock while its batch runs, at the
   moment it last became ready otherwise. *)
AccountedUpTo(r) == IF phase = "running" /\ r \in selected THEN now ELSE readySince[r]

DelayInv == \A r \in Request : queueDelay[r] + served[r] = AccountedUpTo(r) - Arrival(r)

(* Starting a batch moves the account of its members to the clock, executing it
   moves it on with the clock, and nothing else touches it. *)
LEMMA StepDelayInv ==
  ASSUME Inductive, DelayInv, [Next]_vars
  PROVE  DelayInv'
<1> SUFFICES ASSUME NEW r \in Request
             PROVE  queueDelay'[r] + served'[r] = AccountedUpTo(r)' - Arrival(r)
  BY DEF DelayInv, Arrival
<1>0. /\ queueDelay[r] + served[r] = AccountedUpTo(r) - Arrival(r)
      /\ queueDelay[r] \in Nat /\ served[r] \in Nat /\ readySince[r] \in Nat
      /\ now \in Nat /\ Arrival(r) \in Nat
  BY ArrivalType DEF DelayInv, Inductive, TypeOK, TypeOKWorkload, TypeOKServing
<1>1. CASE StartBatch
  <2>1. /\ phase = "selected" /\ phase' = "running"
        /\ selected' = selected /\ readySince' = readySince /\ served' = served
        /\ queueDelay'[r] = IF r \in selected THEN queueDelay[r] + now' - readySince[r]
                                              ELSE queueDelay[r]
    BY <1>1 DEF StartBatch, workloadVars, historyVars
  <2>2. now' \in Nat
    BY <1>0, <1>1 DEF StartBatch, Inductive, TypeOK, TypeOKSelection
  <2> QED BY <1>0, <2>1, <2>2 DEF AccountedUpTo
<1>2. CASE ExecuteBatch
  <2>1. PICK elapsed \in BatchTimes :
          /\ now' = now + elapsed
          /\ served' = [s \in Request |-> IF s \in selected THEN served[s] + elapsed
                                                            ELSE served[s]]
    BY <1>2 DEF ExecuteBatch
  <2>2. /\ phase = "running" /\ phase' = "loop" /\ queueDelay' = queueDelay
        /\ readySince'[r] = IF r \in selected THEN now' ELSE readySince[r]
    BY <1>2 DEF ExecuteBatch, Finalize
  <2>3. elapsed \in Nat
    BY BatchTimesAssumption
  <2> QED BY <1>0, <2>1, <2>2, <2>3 DEF AccountedUpTo
<1>3. CASE CallScheduler \/ ExtendBatch \/ CloseBatch \/ Idle
  <2>1. UNCHANGED <<readySince, queueDelay, served>>
    BY <1>3 DEF Idle, ExceedLimit, AwaitArrival, CallScheduler, ExtendBatch, CloseBatch,
                Finish, EnterLoop, workloadVars, simulatorVars, historyVars, vars
  <2>2. \/ phase # "running" /\ phase' # "running"
        \/ UNCHANGED <<phase, selected, now>>
    BY <1>3 DEF Idle, ExceedLimit, AwaitArrival, CallScheduler, ExtendBatch, CloseBatch,
                Finish, EnterLoop, simulatorVars, selectionVars, vars
  <2> QED BY <1>0, <2>1, <2>2 DEF AccountedUpTo
<1> QED BY <1>1, <1>2, <1>3 DEF Next, Finished, Idle

(* total_queue_delay_ms and the execution time received add up to the time since
   arrival whenever no batch is under way. *)
THEOREM WaitsAddUp == Spec => []DelayAccounted
<1>1. Init => DelayInv
  BY ArrivalType DEF Init, InitWorkload, DelayInv, AccountedUpTo
<1>2. Inductive /\ DelayInv /\ [Next]_vars => DelayInv'
  BY StepDelayInv
<1>3. DelayInv => DelayAccounted
  BY DEF DelayInv, DelayAccounted, AccountedUpTo
<1> QED BY InductiveInvariant, <1>1, <1>2, <1>3, PTL DEF Spec

-----------------------------------------------------------------------------
(* Route profiles.                                                         *)

(* Only the greedy policies work in steps. *)
PolicyInv == phase = "selecting" => Greedy

LEMMA StepPolicyInv ==
  ASSUME PolicyInv, [Next]_vars
  PROVE  PolicyInv'
<1>1. CASE CallScheduler
  BY <1>1 DEF CallScheduler, BeginGreedy, PolicyInv, Greedy, PlainFIFO, OneShot, ProxyIsActive
<1>2. CASE StartBatch \/ ExecuteBatch \/ ExtendBatch \/ CloseBatch \/ Idle
  <2>1. phase' = "selecting" => phase = "selecting"
    BY <1>2 DEF StartBatch, ExecuteBatch, ExtendBatch, CloseBatch, Idle, ExceedLimit,
                AwaitArrival, EnterLoop, Finish, simulatorVars, vars
  <2> QED BY <2>1 DEF PolicyInv, Greedy, PlainFIFO, OneShot, ProxyIsActive
<1> QED BY <1>1, <1>2 DEF Next, Finished, Idle

(* Looking profiles up predicts nothing once they are prewarmed. *)
LEMMA LookupPredictsNothing ==
  ASSUME TypeOK, ProfilesPrewarmed, ~PlainFIFO, NEW S,
         profile' \in {profile, Profiled(S)}, UNCHANGED workloadVars
  PROVE  ProfilesPrewarmed'
<1> SUFFICES ASSUME Policy = "cost_aware" /\ RouteKnowledge = "previous",
                    NEW r \in Unfinished
             PROVE  /\ profile'[r] # "predicted"
                    /\ iteration[r] > 0 => profile'[r] = "observed"
  BY DEF ProfilesPrewarmed, workloadVars, Unfinished, Done, PlainFIFO, ProxyIsActive
<1>1. r \in Request /\ iteration[r] \in Nat
  BY DEF Unfinished, TypeOK, TypeOKWorkload
<1>2. profile[r] # "predicted" /\ (iteration[r] > 0 => profile[r] = "observed")
  BY DEF ProfilesPrewarmed
<1> QED BY <1>1, <1>2 DEF Profiled

LEMMA StepProfilesPrewarmed ==
  ASSUME Inductive, PolicyInv, ProfilesPrewarmed, [Next]_vars
  PROVE  ProfilesPrewarmed'
<1>0. TypeOK
  BY DEF Inductive
<1>1. CASE CallScheduler
  <2>1. UNCHANGED workloadVars
    BY <1>1 DEF CallScheduler
  <2>2. CASE UNCHANGED profile
    BY <2>1, <2>2 DEF ProfilesPrewarmed, workloadVars, Unfinished, Done, PlainFIFO, ProxyIsActive
  <2>3. CASE SelectOneShot(Ready(now), now)
    <3>1. ~PlainFIFO
      BY <2>3 DEF SelectOneShot, OneShot, PlainFIFO
    <3>2. \E S : profile' \in {profile, Profiled(S)}
      BY <2>3 DEF SelectOneShot
    <3> QED BY <1>0, <2>1, <3>1, <3>2, LookupPredictsNothing
  <2>4. SelectFIFO(Ready(now)) \/ BeginGreedy(Ready(now)) => UNCHANGED profile
    BY DEF SelectFIFO, BeginGreedy
  <2> QED BY <1>1, <2>2, <2>3, <2>4 DEF CallScheduler
<1>2. CASE ExtendBatch
  <2>1. UNCHANGED workloadVars /\ ~PlainFIFO
    BY <1>2 DEF ExtendBatch, PolicyInv, Greedy
  <2>2. \E S : profile' \in {profile, Profiled(S)}
    BY <1>2 DEF ExtendBatch, PickOverdue, PickMostSimilar, PickOnly, PickCheapest
  <2> QED BY <1>0, <2>1, <2>2, LookupPredictsNothing
<1>3. CASE ExecuteBatch
  <2> SUFFICES ASSUME Policy = "cost_aware" /\ RouteKnowledge = "previous",
                      NEW r \in Unfinished'
               PROVE  /\ profile'[r] # "predicted"
                      /\ iteration'[r] > 0 /\ ~PlainFIFO => profile'[r] = "observed"
    BY DEF ProfilesPrewarmed, PlainFIFO, ProxyIsActive
  <2>1. r \in Request /\ ~Done(r)'
    BY DEF Unfinished
  <2>2. iteration'[r] = (IF r \in selected THEN iteration[r] + 1 ELSE iteration[r])
        /\ finalized'[r] = (IF r \in selected THEN finalized[r] + FinalizedByStep(r)
                                              ELSE finalized[r])
        /\ iteration[r] \in Nat
    BY <1>0, <1>3, <2>1 DEF ExecuteBatch, Finalize, TypeOK, TypeOKWorkload
  <2>3. CASE r \in selected
    <3> DEFINE observes == /\ Policy = "cost_aware" /\ RouteKnowledge = "previous"
                           /\ OneShotProxyBatch => ProxyIsActive
    <3>1. profile'[r] = IF observes /\ iteration'[r] > 0 /\ ~Done(r)' THEN "observed"
                                                                      ELSE "absent"
      BY <1>3, <2>1, <2>3 DEF ExecuteBatch, PrepareRequests
    <3>2. ~PlainFIFO => observes
      BY DEF PlainFIFO
    <3> QED BY <2>1, <2>2, <3>1, <3>2
  <2>4. CASE r \notin selected
    <3>1. profile'[r] = profile[r]
      BY <1>3, <2>1, <2>4 DEF ExecuteBatch, PrepareRequests
    <3>2. r \in Unfinished
      BY <2>1, <2>2, <2>4 DEF Unfinished, Done
    <3> QED BY <2>2, <2>4, <3>1, <3>2 DEF ProfilesPrewarmed
  <2> QED BY <2>3, <2>4
<1>4. CASE StartBatch \/ CloseBatch \/ Idle
  <2>1. UNCHANGED <<workloadVars, profile>>
    BY <1>4 DEF StartBatch, CloseBatch, EndGreedy, Idle, ExceedLimit, AwaitArrival, Finish,
                selectionVars, vars
  <2> QED BY <2>1 DEF ProfilesPrewarmed, workloadVars, Unfinished, Done, PlainFIFO, ProxyIsActive
<1> QED BY <1>1, <1>2, <1>3, <1>4 DEF Next, Finished, Idle

(* After its first iteration a request's profile is the one observed and
   prewarmed after the iteration before: selection never pays for a prediction. *)
THEOREM SelectionPredictsNothing == Spec => []ProfilesPrewarmed
<1>1. Init => PolicyInv /\ ProfilesPrewarmed
  BY DEF Init, InitWorkload, InitSelection, PolicyInv, ProfilesPrewarmed, Unfinished
<1>2. Inductive /\ PolicyInv /\ ProfilesPrewarmed /\ [Next]_vars
        => PolicyInv' /\ ProfilesPrewarmed'
  BY StepPolicyInv, StepProfilesPrewarmed
<1> QED BY InductiveInvariant, <1>1, <1>2, PTL DEF Spec

-----------------------------------------------------------------------------
(* FIFO.                                                                   *)

(* A batch FIFO leaves somebody out of is full, and all ahead of them. *)
FifoInv ==
  PlainFIFO /\ InBatch =>
    \A r \in remaining : /\ \A s \in selected : Older(s, r)
                         /\ Cardinality(selected) = MaxBatchSize

LEMMA StepFifoInv ==
  ASSUME Inductive, PolicyInv, FifoInv, [Next]_vars
  PROVE  FifoInv'
<1>1. CASE CallScheduler
  <2> SUFFICES ASSUME PlainFIFO
               PROVE  \A r \in remaining' : /\ \A s \in selected' : Older(s, r)'
                                            /\ Cardinality(selected') = MaxBatchSize
    BY DEF FifoInv, PlainFIFO, ProxyIsActive
  <2>1. TypeOK /\ Ready(now) \in SUBSET Request /\ Ready(now) # {} /\ UNCHANGED workloadVars
    BY <1>1 DEF CallScheduler, Ready, Unfinished, Inductive
  <2>2. SelectFIFO(Ready(now))
    BY <1>1 DEF CallScheduler, SelectOneShot, OneShot, BeginGreedy, Greedy, PlainFIFO
  <2> QED BY <2>1, <2>2, BeginsFIFO, OrderUnchanged
<1>2. CASE ExtendBatch \/ CloseBatch
  BY <1>2 DEF ExtendBatch, CloseBatch, PolicyInv, Greedy, FifoInv, PlainFIFO, ProxyIsActive
<1>3. CASE StartBatch \/ UNCHANGED vars
  <2>1. UNCHANGED <<workloadVars, selected, remaining>> /\ (InBatch' => InBatch)
    BY <1>3 DEF StartBatch, selectionVars, simulatorVars, vars, InBatch
  <2> QED BY <2>1, OrderUnchanged DEF FifoInv, PlainFIFO, ProxyIsActive
<1>4. CASE ExecuteBatch \/ ExceedLimit \/ AwaitArrival \/ Finish
  BY <1>4 DEF ExecuteBatch, ExceedLimit, AwaitArrival, EnterLoop, Finish, FifoInv, InBatch
<1> QED BY <1>1, <1>2, <1>3, <1>4 DEF Next, Finished

(* A full batch of requests ahead of a ready r moves MaxBatchSize of them
   behind it. *)
LEMMA FullBatchMovesAll ==
  ASSUME Inductive, ExecuteBatch, NEW r \in Unfinished, r \in readyAt, r \notin selected,
         Cardinality(selected) = MaxBatchSize, \A s \in selected : Older(s, r)
  PROVE  Cardinality(Ahead(r)') + MaxBatchSize <= Cardinality(Ahead(r))
<1> USE DEF Inductive
<1>1. /\ InBatch /\ selected \subseteq readyAt /\ r \in remaining
      /\ readyAt = Ready(decidedAt) /\ decidedAt <= now
      /\ r \in Request
  BY DEF ExecuteBatch, InBatch, SelectionInv, ClockInv, Unfinished
<1>2. Cardinality(selected) = MaxBatchSize /\ \A s \in selected : Older(s, r)
  OBVIOUS
<1>3. /\ now \in Nat /\ now' \in Nat /\ now < now' /\ decidedAt \in Nat
      /\ \A s \in Request : readySince[s] \in Nat /\ Arrival(s) \in Nat
      /\ \A s \in Request : readySince'[s] = IF s \in selected THEN now' ELSE readySince[s]
  BY BatchTimesAssumption, ArrivalType
  DEF ExecuteBatch, Finalize, TypeOK, TypeOKWorkload, TypeOKServing
<1>4. readySince[r] <= now
  <2>1. Arrival(r) <= decidedAt
    BY <1>1 DEF Ready
  <2> QED BY <1>1, <1>3, <2>1 DEF ClockInv
<1>5. selected \subseteq Ahead(r)
  BY <1>1, <1>2 DEF Ahead, Ready
<1>6. \A s \in selected : s \notin Ahead(r)'
  <2> SUFFICES ASSUME NEW s \in selected PROVE ~Older(s, r)'
    BY DEF Ahead
  <2>1. s \in Request
    BY <1>1 DEF Ready, Unfinished
  <2> QED BY <1>1, <1>3, <1>4, <2>1 DEF Older
<1>7. Ahead(r)' \subseteq Ahead(r) \ selected
  BY <1>6, BatchMovesAnchor
<1>8. /\ IsFiniteSet(Ahead(r)) /\ Cardinality(Ahead(r)) \in Nat
      /\ IsFiniteSet(selected)
  <2>1. Ahead(r) \in SUBSET Request /\ selected \in SUBSET Request
    BY DEF Ahead, Unfinished, TypeOK, TypeOKSelection
  <2> QED BY <2>1, RequestsFinite
<1>9. Cardinality(Ahead(r) \ selected) = Cardinality(Ahead(r)) - MaxBatchSize
  <2>1. Ahead(r) \cap selected = selected
    BY <1>5
  <2>2. Cardinality(Ahead(r) \ selected)
          = Cardinality(Ahead(r)) - Cardinality(Ahead(r) \cap selected)
    BY <1>8, FS_Difference
  <2> QED BY <1>2, <2>1, <2>2
<1>10. Cardinality(Ahead(r)') \in Nat
       /\ Cardinality(Ahead(r)') <= Cardinality(Ahead(r) \ selected)
  <2>1. IsFiniteSet(Ahead(r) \ selected)
    BY <1>8, FS_Difference
  <2> QED BY <1>7, <2>1, FS_Subset, FS_CardinalityType
<1> QED BY <1>8, <1>9, <1>10, SelectionAssumption

(* Under FIFO every batch that leaves a ready r out is such a batch. *)
LEMMA FifoBatchMovesAll ==
  ASSUME Inductive, FifoInv, PlainFIFO, ExecuteBatch, NEW r \in Unfinished,
         r \in readyAt, r \notin selected
  PROVE  Cardinality(Ahead(r)') + MaxBatchSize <= Cardinality(Ahead(r))
<1>1. InBatch /\ r \in remaining
  BY DEF Inductive, ExecuteBatch, InBatch, SelectionInv
<1>2. Cardinality(selected) = MaxBatchSize /\ \A s \in selected : Older(s, r)
  BY <1>1 DEF FifoInv
<1> QED BY <1>2, FullBatchMovesAll

LEMMA StepFifoBypass ==
  ASSUME Inductive, FifoInv, FifoBypass, [Next]_vars
  PROVE  FifoBypass'
<1> USE DEF Inductive
<1>1. CASE UNCHANGED <<workloadVars, bypassed>>
  BY <1>1, OrderUnchanged DEF FifoBypass, PlainFIFO, ProxyIsActive
<1>2. CASE ExecuteBatch
  <2> SUFFICES ASSUME PlainFIFO, NEW r \in Unfinished'
               PROVE  bypassed'[r] * MaxBatchSize + Cardinality(Ahead(r)') < NumRequests
    BY DEF FifoBypass, PlainFIFO, ProxyIsActive
  <2>1. /\ r \in Request
        /\ bypassed'[r] = IF r \in selected THEN 0
                          ELSE IF r \in readyAt THEN bypassed[r] + 1 ELSE bypassed[r]
        /\ bypassed[r] \in Nat
        /\ MaxBatchSize \in Nat /\ NumRequests \in Nat
    BY <1>2, SelectionAssumption, WorkloadAssumption
    DEF ExecuteBatch, Unfinished, TypeOK, TypeOKServing
  <2>2. Ahead(r)' \in SUBSET (Request \ {r})
    BY DEF Ahead, Unfinished
  <2>3. Cardinality(Ahead(r)') \in Nat /\ Cardinality(Ahead(r)') < NumRequests
    BY <2>1, <2>2, OthersBound
  <2>4. CASE r \in selected
    <3>1. bypassed'[r] = 0 /\ 0 * MaxBatchSize = 0
      BY <2>1, <2>4
    <3> QED BY <2>3, <3>1
  <2>5. CASE r \notin selected
    <3>1. r \in Unfinished
      BY <1>2, <2>1, <2>5 DEF ExecuteBatch, Finalize, Unfinished, Done
    <3>2. bypassed[r] * MaxBatchSize + Cardinality(Ahead(r)) < NumRequests
      BY <3>1 DEF FifoBypass
    <3>3. IsFiniteSet(Ahead(r)) /\ Cardinality(Ahead(r)) \in Nat
      BY <2>1, OthersBound DEF Ahead, Unfinished
    <3>4. bypassed[r] * MaxBatchSize \in Nat
      BY <2>1
    <3>5. CASE r \in readyAt
      <4>1. Cardinality(Ahead(r)') + MaxBatchSize <= Cardinality(Ahead(r))
        BY <1>2, <2>5, <3>1, <3>5, FifoBatchMovesAll
      <4>2. bypassed'[r] * MaxBatchSize = bypassed[r] * MaxBatchSize + MaxBatchSize
        BY <2>1, <2>5, <3>5
      <4> QED BY <2>1, <2>3, <3>2, <3>3, <3>4, <4>1, <4>2
    <3>6. CASE r \notin readyAt
      <4>1. Ahead(r)' \subseteq Ahead(r)
        BY <1>2, <2>5, <3>1, BatchMovesAnchor
      <4>2. Cardinality(Ahead(r)') <= Cardinality(Ahead(r))
        BY <3>3, <4>1, FS_Subset
      <4>3. bypassed'[r] = bypassed[r]
        BY <2>1, <2>5, <3>6
      <4> QED BY <2>1, <2>3, <3>2, <3>3, <3>4, <4>2, <4>3
    <3> QED BY <3>5, <3>6
  <2> QED BY <2>4, <2>5
<1>3. CASE CallScheduler \/ ExtendBatch \/ CloseBatch \/ StartBatch \/ Idle
  BY <1>1, <1>3 DEF ExceedLimit, AwaitArrival, CallScheduler, ExtendBatch, CloseBatch,
         StartBatch, Finish, Idle, historyVars, vars
<1> QED BY <1>2, <1>3 DEF Next, Finished, Idle

LEMMA InitFifoBypass == Init => FifoBypass
<1> SUFFICES ASSUME Init, NEW r \in Unfinished
             PROVE  bypassed[r] * MaxBatchSize + Cardinality(Ahead(r)) < NumRequests
  BY DEF FifoBypass
<1>1. r \in Request /\ bypassed[r] * MaxBatchSize = 0
  BY SelectionAssumption DEF Init, Unfinished
<1>2. Cardinality(Ahead(r)) \in Nat /\ Cardinality(Ahead(r)) < NumRequests
  BY <1>1, OthersBound DEF Ahead, Unfinished
<1> QED BY <1>1, <1>2

(* Under FIFO every batch a request is passed over by costs it MaxBatchSize
   places in the line. *)
THEOREM FifoPaysInBatches == Spec => []FifoBypass
<1>1. Init => PolicyInv /\ FifoInv
  BY DEF Init, PolicyInv, FifoInv, InBatch
<1>2. Inductive /\ PolicyInv /\ FifoInv /\ FifoBypass /\ [Next]_vars
        => PolicyInv' /\ FifoInv' /\ FifoBypass'
  BY StepPolicyInv, StepFifoInv, StepFifoBypass
<1> QED BY InductiveInvariant, InitFifoBypass, <1>1, <1>2, PTL DEF Spec

-----------------------------------------------------------------------------
(* Batch sizes.                                                            *)

(* What a batch holds at least, given who was ready. *)
FewestOf(ready) ==
  LET most == Smaller(MaxBatchSize, Cardinality(ready))
  IN  IF OneShot /\ CandidatePoolSize # None
      THEN Smaller(most, 1 + CandidatePoolSize) ELSE most

FillInv == BatchFormed => Cardinality(selected) >= FewestOf(readyAt)

LEMMA FewestBound ==
  ASSUME NEW ready \in SUBSET Request
  PROVE  /\ FewestOf(ready) \in Nat
         /\ FewestOf(ready) <= MaxBatchSize
         /\ FewestOf(ready) <= Cardinality(ready)
         /\ OneShot /\ CandidatePoolSize # None => FewestOf(ready) <= 1 + CandidatePoolSize
<1> DEFINE most == Smaller(MaxBatchSize, Cardinality(ready))
<1>1. Cardinality(ready) \in Nat /\ MaxBatchSize \in Nat
  BY RequestsFinite, SelectionAssumption
<1>2. most \in Nat /\ most <= MaxBatchSize /\ most <= Cardinality(ready)
  BY <1>1 DEF Smaller
<1>3. CASE OneShot /\ CandidatePoolSize # None
  <2>1. CandidatePoolSize \in Nat
    BY <1>3, SelectionAssumption
  <2>2. FewestOf(ready) = Smaller(most, 1 + CandidatePoolSize)
    BY <1>3 DEF FewestOf
  <2> HIDE DEF most
  <2> QED BY <1>1, <1>2, <2>1, <2>2 DEF Smaller
<1>4. CASE ~(OneShot /\ CandidatePoolSize # None)
  <2>1. FewestOf(ready) = most
    BY <1>4 DEF FewestOf
  <2> HIDE DEF most
  <2> QED BY <1>2, <1>4, <2>1
<1> QED BY <1>3, <1>4

(* The one-shot batch is full, or holds its anchor and the whole pool. *)
LEMMA OneShotFills ==
  ASSUME TypeOK, NEW ready \in SUBSET Request, ready # {}, NEW t \in Nat,
         SelectOneShot(ready, t)
  PROVE  Cardinality(selected') >= FewestOf(ready)
<1> DEFINE late(anchor) == {r \in ready \ anchor : Overdue(r, t)}
           Slots(l) == MaxBatchSize - 1 - Cardinality(l)
<1>0. PICK anchor \in Oldest(ready, 1) :
        \E l \in Oldest(late(anchor), MaxBatchSize - 1) :
        \E pool \in Pool(ready \ (anchor \cup l)) : \E fill \in SUBSET pool :
          /\ Cardinality(fill) = Smaller(Slots(l), Cardinality(pool))
          /\ selected' = anchor \cup l \cup fill
  BY DEF SelectOneShot
<1>1. PICK l \in Oldest(late(anchor), MaxBatchSize - 1) :
        \E pool \in Pool(ready \ (anchor \cup l)) : \E fill \in SUBSET pool :
          /\ Cardinality(fill) = Smaller(Slots(l), Cardinality(pool))
          /\ selected' = anchor \cup l \cup fill
  BY <1>0
<1> DEFINE rest == ready \ (anchor \cup l)
<1>2. PICK pool \in Pool(rest) : \E fill \in SUBSET pool :
        /\ Cardinality(fill) = Smaller(Slots(l), Cardinality(pool))
        /\ selected' = anchor \cup l \cup fill
  BY <1>1
<1>3. PICK fill \in SUBSET pool :
        /\ Cardinality(fill) = Smaller(Slots(l), Cardinality(pool))
        /\ selected' = anchor \cup l \cup fill
  BY <1>2
<1>4. anchor \subseteq ready /\ anchor # {}
  BY OldestOfSet
<1>5. l \subseteq late(anchor) /\ Cardinality(l) <= MaxBatchSize - 1
  <2>1. late(anchor) \in SUBSET Request /\ MaxBatchSize - 1 \in Nat
    BY SelectionAssumption
  <2> HIDE DEF late
  <2> QED BY <2>1, OldestOfSet
<1>6. pool \subseteq rest
  BY PoolType DEF TypeOK
<1>7. /\ IsFiniteSet(anchor) /\ IsFiniteSet(l) /\ IsFiniteSet(pool) /\ IsFiniteSet(fill)
      /\ Cardinality(anchor) \in Nat /\ Cardinality(l) \in Nat
      /\ Cardinality(pool) \in Nat /\ Cardinality(fill) \in Nat
  <2>1. anchor \in SUBSET Request /\ l \in SUBSET Request
        /\ pool \in SUBSET Request /\ fill \in SUBSET Request
    BY <1>3, <1>4, <1>5, <1>6
  <2> QED BY <2>1, RequestsFinite
<1>8. Cardinality(anchor) >= 1
  BY <1>4, <1>7, FS_EmptySet
<1>9. Cardinality(selected') = Cardinality(anchor) + Cardinality(l) + Cardinality(fill)
  <2> DEFINE both == anchor \cup l
  <2>1. anchor \cap l = {} /\ both \cap fill = {}
    BY <1>3, <1>5, <1>6
  <2>2. IsFiniteSet(both) /\ Cardinality(both) = Cardinality(anchor) + Cardinality(l)
    BY <1>7, <2>1, FS_Union, FS_EmptySet
  <2>3. selected' = both \cup fill
    BY <1>3
  <2> HIDE DEF both
  <2>4. Cardinality(both \cup fill)
          = Cardinality(both) + Cardinality(fill) - Cardinality(both \cap fill)
    BY <1>7, <2>2, FS_Union
  <2>5. Cardinality(both \cap fill) = 0
    BY <2>1, FS_EmptySet
  <2>6. Cardinality(selected') = Cardinality(both) + Cardinality(fill)
    BY <1>7, <2>2, <2>3, <2>4, <2>5
  <2> QED BY <2>2, <2>6
<1>10. Slots(l) \in Nat
  BY <1>5, <1>7, SelectionAssumption
<1>11. /\ FewestOf(ready) \in Nat /\ FewestOf(ready) <= MaxBatchSize
       /\ FewestOf(ready) <= Cardinality(ready)
       /\ OneShot /\ CandidatePoolSize # None => FewestOf(ready) <= 1 + CandidatePoolSize
  BY FewestBound
<1>12. CASE Cardinality(pool) >= Slots(l)
  <2>1. Cardinality(fill) = Slots(l)
    BY <1>3, <1>7, <1>10, <1>12 DEF Smaller
  <2> QED BY <1>7, <1>8, <1>9, <1>11, <2>1, SelectionAssumption
<1>13. CASE Cardinality(pool) < Slots(l)
  <2>1. Cardinality(fill) = Cardinality(pool)
    BY <1>3, <1>7, <1>10, <1>13 DEF Smaller
  <2>2. fill = pool
    BY <1>7, <2>1, FS_Subset
  <2>3. CASE pool = rest
    <3>1. selected' = ready
      BY <1>3, <1>4, <1>5, <2>2, <2>3
    <3> QED BY <1>7, <1>9, <1>11, <3>1
  <2>4. CASE pool # rest
    <3>1. CandidatePoolSize # None /\ CandidatePoolSize \in Nat
          /\ pool \in Oldest(rest, CandidatePoolSize)
      BY <2>4, SelectionAssumption DEF Pool
    <3>2. rest \in SUBSET Request /\ rest \ pool # {}
      BY <1>6, <2>4
    <3> HIDE DEF rest
    <3>3. Cardinality(pool) = CandidatePoolSize
      BY <3>1, <3>2, OldestOfSet
    <3>4. OneShot
      BY DEF SelectOneShot
    <3> QED BY <1>7, <1>8, <1>9, <1>11, <2>1, <3>1, <3>3, <3>4
  <2> QED BY <2>3, <2>4
<1> QED BY <1>7, <1>10, <1>12, <1>13

LEMMA StepFillInv ==
  ASSUME Inductive, PolicyInv, FillInv, [Next]_vars
  PROVE  FillInv'
<1> USE DEF Inductive
<1>1. CASE CallScheduler
  <2>1. TypeOK /\ Ready(now) \in SUBSET Request /\ Ready(now) # {} /\ now \in Nat
        /\ readyAt' = Ready(now)
    BY <1>1 DEF CallScheduler, Ready, Unfinished, TypeOK, TypeOKServing
  <2>2. CASE SelectOneShot(Ready(now), now)
    <3>1. Cardinality(selected') >= FewestOf(Ready(now))
      BY <2>1, <2>2, OneShotFills
    <3> QED BY <2>1, <3>1 DEF FillInv, FewestOf, OneShot, ProxyIsActive
  <2>3. CASE SelectFIFO(Ready(now))
    <3>1. Cardinality(selected') = Smaller(MaxBatchSize, Cardinality(Ready(now)))
      BY <2>3 DEF SelectFIFO, Oldest
    <3>2. ~OneShot /\ FewestOf(Ready(now)) = Smaller(MaxBatchSize, Cardinality(Ready(now)))
      BY <2>3 DEF SelectFIFO, PlainFIFO, OneShot, FewestOf
    <3>3. Smaller(MaxBatchSize, Cardinality(Ready(now))) \in Nat
      BY <2>1, RequestsFinite, SelectionAssumption DEF Smaller
    <3> QED BY <2>1, <3>1, <3>2, <3>3 DEF FillInv, FewestOf, OneShot, ProxyIsActive
  <2>4. CASE phase' = "selecting"
    BY <2>4 DEF FillInv, BatchFormed
  <2> QED BY <1>1, <2>2, <2>3, <2>4 DEF CallScheduler
<1>2. CASE CloseBatch
  <2>1. /\ UNCHANGED <<selected, remaining, readyAt>> /\ ~BatchOpen /\ Greedy /\ InBatch
    BY <1>2 DEF CloseBatch, EndGreedy, historyVars, PolicyInv, InBatch
  <2>2. /\ readyAt \in SUBSET Request
        /\ Cardinality(selected) \in Nat /\ Cardinality(selected) <= MaxBatchSize
        /\ selected \subseteq readyAt /\ remaining = readyAt \ selected
    BY <2>1, RequestsFinite DEF SelectionInv, TypeOK, TypeOKSelection, TypeOKServing
  <2>3. remaining # {} => Cardinality(selected) = MaxBatchSize
    BY <2>1, <2>2, SelectionAssumption DEF BatchOpen
  <2>4. remaining = {} => selected = readyAt
    BY <2>2
  <2>5. Cardinality(selected) >= FewestOf(readyAt)
    BY <2>2, <2>3, <2>4, FewestBound, SelectionAssumption
  <2> QED BY <2>1, <2>5 DEF FillInv, FewestOf, OneShot, ProxyIsActive
<1>3. CASE StartBatch \/ UNCHANGED vars
  <2>1. UNCHANGED <<selected, readyAt>> /\ (BatchFormed' => BatchFormed)
    BY <1>3 DEF StartBatch, selectionVars, historyVars, simulatorVars, vars, BatchFormed
  <2> QED BY <2>1 DEF FillInv, FewestOf, OneShot, ProxyIsActive
<1>4. CASE ExtendBatch \/ ExecuteBatch \/ ExceedLimit \/ AwaitArrival \/ Finish
  BY <1>4 DEF ExtendBatch, ExecuteBatch, ExceedLimit, AwaitArrival, EnterLoop, Finish,
              simulatorVars, FillInv, BatchFormed
<1> QED BY <1>1, <1>2, <1>3, <1>4 DEF Next, Finished

(* A batch is as full as the ready requests allow, up to the one pass of the
   one-shot policy over its pool. *)
THEOREM BatchesFill == Spec => []BatchFill
<1>1. Init => PolicyInv /\ FillInv
  BY DEF Init, PolicyInv, FillInv, BatchFormed
<1>2. Inductive /\ PolicyInv /\ FillInv /\ [Next]_vars => PolicyInv' /\ FillInv'
  BY StepPolicyInv, StepFillInv
<1>3. Inductive /\ FillInv => BatchFill
  <2> SUFFICES ASSUME Inductive, FillInv, BatchFormed
               PROVE  /\ Cardinality(selected) <= Smaller(MaxBatchSize, Cardinality(readyAt))
                      /\ Cardinality(selected) >= FewestOf(readyAt)
    BY DEF BatchFill, FewestOf
  <2>1. /\ selected \subseteq readyAt /\ readyAt \in SUBSET Request
        /\ Cardinality(selected) <= MaxBatchSize
    BY DEF Inductive, SelectionInv, InBatch, BatchFormed, TypeOK, TypeOKServing
  <2>2. Cardinality(selected) <= Cardinality(readyAt)
    BY <2>1, RequestsFinite, FS_Subset
  <2> QED BY <2>1, <2>2 DEF FillInv, Smaller
<1> QED BY InductiveInvariant, <1>1, <1>2, <1>3, PTL DEF Spec

-----------------------------------------------------------------------------
(* How long a request waits.                                               *)

(* Some batch executes longest: a workload has finitely many iterations, so it
   forms finitely many batches. *)
TimesBounded == \E longest \in BatchTimes : \A t \in BatchTimes : t <= longest

(* What a greedy policy has charged for the members it added, and what the
   charge comes to once the batch is formed. *)
ChargeInv ==
  /\ phase = "selecting" =>
       /\ selected # {}
       /\ candidateEvals <= (IF Policy = "locality" THEN 1 ELSE 0)
                              + (Cardinality(selected) - 1) * ExactLimit
       /\ proxyEvals <= (Cardinality(selected) - 1) * PoolLimit
  /\ phase = "selected" => lastOverhead <= LargestOverhead
  /\ phase = "running" => now <= decidedAt + LargestOverhead

(* A request is not overdue at time t, or it was passed over while it was not
   and by k full batches of older requests since. *)
Paid(r, t) ==
  \/ t - readySince[r] < MaxWait
  \/ \E k \in Nat :
       /\ k * MaxBatchSize + Cardinality(Ahead(r)) <= NumRequests - 2
       /\ t - readySince[r] < MaxWait + (LongestBatch + LargestOverhead) * (1 + k)

InLoop == phase \in {"loop", "selecting", "selected", "running"}

(* Every wait is paid for, up to the last decision. *)
PaidInv ==
  InLoop => \A r \in Unfinished : Paid(r, IF phase = "loop" THEN now ELSE decidedAt)

LEMMA LimitsType ==
  /\ PoolLimit \in Nat /\ ExactLimit \in Nat /\ LargestOverhead \in Nat
  /\ MaxBatchSize - 1 \in Nat
  /\ TimesBounded => LongestBatch \in Nat /\ \A t \in BatchTimes : t <= LongestBatch
<1>1. PoolLimit \in Nat
  BY SelectionAssumption, WorkloadAssumption DEF PoolLimit, Smaller
<1>2. ExactLimit \in Nat
  BY <1>1, SelectionAssumption DEF ExactLimit, Smaller
<1>3. MaxBatchSize - 1 \in Nat
  BY SelectionAssumption
<1>4. (MaxBatchSize - 1) * ExactLimit \in Nat /\ (MaxBatchSize - 1) * PoolLimit \in Nat
  BY <1>1, <1>2, <1>3
<1>5. LargestOverhead \in Nat
  <2>1. (IF Policy = "locality" THEN 1 ELSE 0) + (MaxBatchSize - 1) * ExactLimit \in Nat
    BY <1>4
  <2> QED BY <1>4, <2>1, OverheadType DEF LargestOverhead
<1>6. ASSUME TimesBounded
      PROVE  LongestBatch \in Nat /\ \A t \in BatchTimes : t <= LongestBatch
  <2>1. LongestBatch \in BatchTimes /\ \A t \in BatchTimes : t <= LongestBatch
    BY <1>6 DEF TimesBounded, LongestBatch
  <2> QED BY <2>1, BatchTimesAssumption
<1> QED BY <1>1, <1>2, <1>3, <1>5, <1>6

(* More evaluations cost more. *)
LEMMA OverheadMonotone ==
  ASSUME NEW c \in Nat, NEW d \in Nat, NEW p \in Nat, NEW q \in Nat, c <= d, p <= q
  PROVE  StepOverhead(c, p) <= StepOverhead(d, q)
<1>1. /\ c * CandidateOverhead \in Nat /\ d * CandidateOverhead \in Nat
      /\ c * CandidateOverhead <= d * CandidateOverhead
  BY ProductMonotone, SelectionAssumption
<1>2. /\ p * ProxyOverhead \in Nat /\ q * ProxyOverhead \in Nat
      /\ p * ProxyOverhead <= q * ProxyOverhead
  BY ProductMonotone, SelectionAssumption
<1>3. BaseOverhead \in Nat
  BY SelectionAssumption
<1> DEFINE cc == c * CandidateOverhead
           dd == d * CandidateOverhead
           pp == p * ProxyOverhead
           qq == q * ProxyOverhead
<1>4. StepOverhead(c, p) = BaseOverhead + cc + pp /\ StepOverhead(d, q) = BaseOverhead + dd + qq
  BY DEF StepOverhead
<1> HIDE DEF cc, dd, pp, qq
<1> QED BY <1>1, <1>2, <1>3, <1>4 DEF cc, dd, pp, qq

(* A candidate pool is no larger than its limit. *)
LEMMA PoolWithinLimit ==
  ASSUME TypeOKWorkload, NEW S \in SUBSET Request, NEW pool \in Pool(S)
  PROVE  Cardinality(pool) \in Nat /\ Cardinality(pool) <= PoolLimit
<1>1. pool \subseteq S /\ Cardinality(pool) \in Nat
  BY PoolType
<1>2. Cardinality(pool) <= NumRequests
  BY <1>1, RequestsFinite
<1>3. ASSUME CandidatePoolSize # None
      PROVE  Cardinality(pool) <= CandidatePoolSize
  <2>1. pool \in Oldest(S, CandidatePoolSize) /\ CandidatePoolSize \in Nat
    BY <1>3, SelectionAssumption DEF Pool
  <2> QED BY <2>1, OldestOfSet
<1> QED BY <1>1, <1>2, <1>3, SelectionAssumption, WorkloadAssumption DEF PoolLimit, Smaller

(* A round adds one member and charges no more than the limits: full
   evaluations of a shortlist, proxy evaluations of a pool. *)
LEMMA RoundCharges ==
  ASSUME TypeOK, ExtendBatch
  PROVE  /\ candidateEvals' <= candidateEvals + ExactLimit
         /\ proxyEvals' <= proxyEvals + PoolLimit
<1>1. /\ remaining \in SUBSET Request /\ TypeOKWorkload
      /\ candidateEvals \in Nat /\ proxyEvals \in Nat
      /\ PoolLimit \in Nat /\ ExactLimit \in Nat
  BY LimitsType DEF TypeOK, TypeOKSelection
<1>2. CASE PickOverdue(now) \/ PickOnly(now)
  <2>1. UNCHANGED <<candidateEvals, proxyEvals>>
    BY <1>2 DEF PickOverdue, PickOnly
  <2> QED BY <1>1, <2>1
<1>3. CASE PickMostSimilar(now)
  <2>1. PICK pool \in Pool(remaining) : candidateEvals' = candidateEvals + Cardinality(pool)
    BY <1>3 DEF PickMostSimilar
  <2>2. Cardinality(pool) \in Nat /\ Cardinality(pool) <= PoolLimit
    BY <1>1, PoolWithinLimit
  <2>3. proxyEvals' = proxyEvals /\ ExactLimit = PoolLimit
    BY <1>3 DEF PickMostSimilar, ExactLimit
  <2> QED BY <1>1, <2>1, <2>2, <2>3
<1>4. CASE PickCheapest(now)
  <2> DEFINE shortened(pool) == ShortlistSize # None /\ ShortlistSize < Cardinality(pool)
             exact(pool) == IF shortened(pool) THEN ShortlistSize ELSE Cardinality(pool)
  <2>1. PICK pool \in Pool(remaining) :
          /\ proxyEvals' = proxyEvals + (IF shortened(pool) THEN Cardinality(pool) ELSE 0)
          /\ candidateEvals' = candidateEvals + (IF exact(pool) = 1 THEN 0 ELSE exact(pool))
    BY <1>4 DEF PickCheapest
  <2>2. Cardinality(pool) \in Nat /\ Cardinality(pool) <= PoolLimit
    BY <1>1, PoolWithinLimit
  <2>3. exact(pool) \in Nat /\ exact(pool) <= ExactLimit
    BY <1>1, <1>4, <2>2, SelectionAssumption DEF PickCheapest, ExactLimit, Smaller
  <2>4. proxyEvals' <= proxyEvals + PoolLimit
    BY <1>1, <2>1, <2>2
  <2> HIDE DEF exact
  <2>5. candidateEvals' <= candidateEvals + ExactLimit
    BY <1>1, <2>1, <2>3
  <2> QED BY <2>4, <2>5
<1> QED BY <1>2, <1>3, <1>4 DEF ExtendBatch

(* One product more. *)
LEMMA OneMore ==
  ASSUME NEW n \in Nat \ {0}, NEW limit \in Nat, NEW base \in Nat,
         NEW before \in Nat, before <= base + (n - 1) * limit,
         NEW after \in Nat, after <= before + limit,
         NEW m \in Nat, m = n + 1
  PROVE  after <= base + (m - 1) * limit
<1>1. (n - 1) * limit \in Nat /\ (m - 1) * limit = (n - 1) * limit + limit
  <2>1. n - 1 \in Nat /\ n - 1 <= n
    OBVIOUS
  <2>2. (n - 1) * limit \in Nat /\ (n - 1 + 1) * limit = (n - 1) * limit + limit
    BY <2>1, ProductMonotone
  <2>3. m - 1 = n - 1 + 1
    OBVIOUS
  <2> QED BY <2>2, <2>3
<1> DEFINE less == (n - 1) * limit
           more == (m - 1) * limit
<1>2. less \in Nat /\ more = less + limit /\ before <= base + less
  BY <1>1
<1> HIDE DEF less, more
<1>3. after <= base + more
  BY <1>2
<1> QED BY <1>3 DEF more

(* The one-shot policy ranks one pool, and only when the batch has room for
   more than its anchor. *)
LEMMA OneShotCharges ==
  ASSUME TypeOK, NEW ready \in SUBSET Request, NEW t \in Nat, SelectOneShot(ready, t)
  PROVE  lastOverhead' <= LargestOverhead
<1> DEFINE late(anchor) == {r \in ready \ anchor : Overdue(r, t)}
           Slots(l) == MaxBatchSize - 1 - Cardinality(l)
<1>1. PICK anchor \in Oldest(ready, 1) :
        \E l \in Oldest(late(anchor), MaxBatchSize - 1) :
        \E pool \in Pool(ready \ (anchor \cup l)) :
          IF Slots(l) > 0 /\ Cardinality(pool) > Slots(l)
          THEN proxyEvals' = Cardinality(pool) ELSE proxyEvals' = 0
  BY DEF SelectOneShot
<1>2. PICK l \in Oldest(late(anchor), MaxBatchSize - 1) :
        \E pool \in Pool(ready \ (anchor \cup l)) :
          IF Slots(l) > 0 /\ Cardinality(pool) > Slots(l)
          THEN proxyEvals' = Cardinality(pool) ELSE proxyEvals' = 0
  BY <1>1
<1>3. PICK pool \in Pool(ready \ (anchor \cup l)) :
        IF Slots(l) > 0 /\ Cardinality(pool) > Slots(l)
        THEN proxyEvals' = Cardinality(pool) ELSE proxyEvals' = 0
  BY <1>2
<1>4. Cardinality(pool) \in Nat /\ Cardinality(pool) <= PoolLimit
  BY PoolWithinLimit DEF TypeOK
<1>5. Cardinality(l) \in Nat
  <2>1. l \in SUBSET Request
    BY DEF Oldest
  <2> QED BY <2>1, RequestsFinite
<1>6. proxyEvals' \in Nat /\ (proxyEvals' = 0 \/ (MaxBatchSize > 1 /\ proxyEvals' <= PoolLimit))
  BY <1>3, <1>4, <1>5, SelectionAssumption
<1>7. proxyEvals' <= (MaxBatchSize - 1) * PoolLimit
  <2>1. PoolLimit \in Nat /\ MaxBatchSize - 1 \in Nat
    BY LimitsType
  <2>2. (MaxBatchSize - 1) * PoolLimit \in Nat
    BY <2>1, ProductMonotone
  <2>3. CASE proxyEvals' = 0
    BY <2>2, <2>3
  <2>4. CASE MaxBatchSize > 1 /\ proxyEvals' <= PoolLimit
    <3>1. 1 <= MaxBatchSize - 1 /\ 1 * PoolLimit = PoolLimit
      BY <2>1, <2>4, SelectionAssumption
    <3>2. 1 * PoolLimit <= (MaxBatchSize - 1) * PoolLimit
      BY <2>1, <3>1, ProductMonotone
    <3> QED BY <1>6, <2>1, <2>2, <2>4, <3>1, <3>2
  <2> QED BY <1>6, <2>3, <2>4
<1>8. lastOverhead' = StepOverhead(0, proxyEvals')
  BY DEF SelectOneShot
<1>9. StepOverhead(0, proxyEvals') <= LargestOverhead
  <2>1. /\ MaxBatchSize - 1 \in Nat /\ ExactLimit \in Nat /\ PoolLimit \in Nat
    BY LimitsType
  <2>2. (MaxBatchSize - 1) * ExactLimit \in Nat /\ (MaxBatchSize - 1) * PoolLimit \in Nat
    BY <2>1, ProductMonotone
  <2> DEFINE full == (IF Policy = "locality" THEN 1 ELSE 0) + (MaxBatchSize - 1) * ExactLimit
             proxy == (MaxBatchSize - 1) * PoolLimit
  <2>3. full \in Nat /\ 0 <= full /\ proxy \in Nat /\ proxyEvals' <= proxy
    BY <1>7, <2>2
  <2>4. LargestOverhead = StepOverhead(full, proxy)
    BY DEF LargestOverhead
  <2> HIDE DEF full, proxy
  <2> QED BY <1>6, <2>3, <2>4, OverheadMonotone
<1> QED BY <1>8, <1>9
LEMMA StepChargeInv ==
  ASSUME Inductive, ChargeInv, [Next]_vars
  PROVE  ChargeInv'
<1> USE DEF Inductive
<1>0. /\ PoolLimit \in Nat /\ ExactLimit \in Nat /\ LargestOverhead \in Nat
      /\ MaxBatchSize - 1 \in Nat /\ MaxBatchSize \in Nat \ {0}
      /\ LargestOverhead' = LargestOverhead
      /\ TypeOK /\ TypeOKSelection
  BY LimitsType, SelectionAssumption DEF TypeOK
<1>1. CASE CallScheduler
  <2>1. /\ Ready(now) \in SUBSET Request /\ Ready(now) # {} /\ now \in Nat
        /\ phase' \in {"selecting", "selected"}
    BY <1>1, CallBegins DEF CallScheduler, Ready, Unfinished, TypeOK, TypeOKServing
  <2>2. CASE SelectFIFO(Ready(now)) /\ phase' = "selected"
    <3>1. lastOverhead' = StepOverhead(0, 0)
      BY <2>2 DEF SelectFIFO
    <3>2. /\ (MaxBatchSize - 1) * ExactLimit \in Nat
          /\ (MaxBatchSize - 1) * PoolLimit \in Nat
      BY <1>0, ProductMonotone
    <3> DEFINE full == (IF Policy = "locality" THEN 1 ELSE 0) + (MaxBatchSize - 1) * ExactLimit
               proxy == (MaxBatchSize - 1) * PoolLimit
    <3>3. full \in Nat /\ 0 <= full /\ proxy \in Nat /\ 0 <= proxy
      BY <3>2
    <3>4. LargestOverhead = StepOverhead(full, proxy)
      BY DEF LargestOverhead
    <3> HIDE DEF full, proxy
    <3>5. lastOverhead' <= LargestOverhead
      BY <3>1, <3>3, <3>4, OverheadMonotone
    <3> QED BY <1>0, <2>2, <3>5 DEF ChargeInv
  <2>3. CASE SelectOneShot(Ready(now), now) /\ phase' = "selected"
    <3>1. lastOverhead' <= LargestOverhead
      BY <1>0, <2>1, <2>3, OneShotCharges
    <3> QED BY <1>0, <2>3, <3>1 DEF ChargeInv
  <2>4. CASE BeginGreedy(Ready(now)) /\ phase' = "selecting"
    <3>1. selected' \in Oldest(Ready(now), 1)
      BY <2>4 DEF BeginGreedy
    <3>2. selected' \subseteq Ready(now) /\ selected' # {} /\ Cardinality(selected') <= 1
      BY <2>1, <3>1, OldestOfSet
    <3>3. IsFiniteSet(selected') /\ Cardinality(selected') \in Nat
      BY <2>1, <3>2, RequestsFinite
    <3>4. Cardinality(selected') = 1
      BY <3>2, <3>3, FS_EmptySet
    <3>5. (Cardinality(selected') - 1) * ExactLimit = 0
          /\ (Cardinality(selected') - 1) * PoolLimit = 0
      BY <1>0, <3>4
    <3>6. candidateEvals' = (IF Policy = "locality" THEN 1 ELSE 0) /\ proxyEvals' = 0
      BY <2>4 DEF BeginGreedy
    <3> QED BY <2>4, <3>2, <3>5, <3>6 DEF ChargeInv, ExactLimit, PoolLimit
  <2> QED BY <1>1, <2>2, <2>3, <2>4 DEF CallScheduler
<1>2. CASE ExtendBatch
  <2>1. /\ phase = "selecting" /\ phase' = "selecting"
        /\ candidateEvals \in Nat /\ proxyEvals \in Nat
        /\ candidateEvals' \in Nat /\ proxyEvals' \in Nat
    BY <1>0, <1>2, ExtendsByOne DEF ExtendBatch, simulatorVars, TypeOKSelection
  <2>2. PICK r \in remaining : selected' = selected \cup {r}
    BY <1>2, ExtendsByOne
  <2>3. /\ IsFiniteSet(selected) /\ Cardinality(selected) \in Nat
        /\ r \notin selected
    BY <1>0, <2>1, <2>2, RequestsFinite DEF TypeOKSelection, SelectionInv, InBatch
  <2>4. Cardinality(selected') = Cardinality(selected) + 1
    BY <2>2, <2>3, FS_AddElement
  <2>5. selected # {} /\ Cardinality(selected) \in Nat \ {0}
    BY <2>1, <2>3, FS_EmptySet DEF ChargeInv
  <2>6. /\ candidateEvals' <= candidateEvals + ExactLimit
        /\ proxyEvals' <= proxyEvals + PoolLimit
    BY <1>2, RoundCharges
  <2> DEFINE base == IF Policy = "locality" THEN 1 ELSE 0
  <2>7. /\ candidateEvals <= base + (Cardinality(selected) - 1) * ExactLimit
        /\ proxyEvals <= (Cardinality(selected) - 1) * PoolLimit
        /\ base \in Nat
    BY <2>1 DEF ChargeInv
  <2>8. proxyEvals <= 0 + (Cardinality(selected) - 1) * PoolLimit
    <3>1. (Cardinality(selected) - 1) * PoolLimit \in Int
      BY <1>0, <2>3
    <3> QED BY <2>7, <3>1
  <2> HIDE DEF base
  <2>9. Cardinality(selected') \in Nat
    BY <2>3, <2>4
  <2>10. 0 + (Cardinality(selected') - 1) * PoolLimit = (Cardinality(selected') - 1) * PoolLimit
    <3>1. (Cardinality(selected') - 1) * PoolLimit \in Int
      BY <1>0, <2>9
    <3> QED BY <3>1
  <2>11. proxyEvals' <= (Cardinality(selected') - 1) * PoolLimit
    <3>1. proxyEvals' <= 0 + (Cardinality(selected') - 1) * PoolLimit
      BY <1>0, <2>1, <2>4, <2>5, <2>6, <2>8, <2>9, OneMore
    <3> QED BY <2>10, <3>1
  <2>12. candidateEvals' <= base + (Cardinality(selected') - 1) * ExactLimit
    BY <1>0, <2>1, <2>4, <2>5, <2>6, <2>7, <2>9, OneMore
  <2>13. selected' # {}
    BY <2>2
  <2> QED BY <2>1, <2>11, <2>12, <2>13 DEF ChargeInv, base, ExactLimit, PoolLimit
<1>3. CASE CloseBatch
  <2>1. /\ phase = "selecting" /\ phase' = "selected"
        /\ lastOverhead' = StepOverhead(candidateEvals, proxyEvals)
        /\ candidateEvals \in Nat /\ proxyEvals \in Nat
    BY <1>0, <1>3 DEF CloseBatch, EndGreedy, TypeOKSelection
  <2>2. /\ Cardinality(selected) \in Nat \ {0} /\ Cardinality(selected) <= MaxBatchSize
    <3>1. selected # {} /\ IsFiniteSet(selected) /\ Cardinality(selected) \in Nat
          /\ Cardinality(selected) <= MaxBatchSize
      BY <1>0, <2>1, RequestsFinite DEF ChargeInv, TypeOKSelection, SelectionInv, InBatch
    <3> QED BY <3>1, FS_EmptySet
  <2> DEFINE members == Cardinality(selected) - 1
             most == MaxBatchSize - 1
             base == IF Policy = "locality" THEN 1 ELSE 0
             full == base + most * ExactLimit
             proxy == most * PoolLimit
  <2>3. members \in Nat /\ most \in Nat /\ members <= most /\ base \in Nat
    BY <1>0, <2>2
  <2>4. candidateEvals <= base + members * ExactLimit /\ proxyEvals <= members * PoolLimit
    BY <2>1 DEF ChargeInv
  <2>5. LargestOverhead = StepOverhead(full, proxy)
    BY DEF LargestOverhead
  <2> HIDE DEF members, most, base
  <2>6. /\ members * ExactLimit \in Nat /\ most * ExactLimit \in Nat
        /\ members * ExactLimit <= most * ExactLimit
    BY <1>0, <2>3, ProductMonotone
  <2>7. /\ members * PoolLimit \in Nat /\ most * PoolLimit \in Nat
        /\ members * PoolLimit <= most * PoolLimit
    BY <1>0, <2>3, ProductMonotone
  <2>8. full \in Nat /\ candidateEvals <= full
    <3> DEFINE a == members * ExactLimit
               b == most * ExactLimit
    <3>1. a \in Nat /\ b \in Nat /\ a <= b /\ candidateEvals <= base + a /\ full = base + b
      BY <2>4, <2>6
    <3> HIDE DEF a, b, full
    <3> QED BY <2>1, <2>3, <3>1
  <2>9. proxy \in Nat /\ proxyEvals <= proxy
    <3> DEFINE a == members * PoolLimit
    <3>1. a \in Nat /\ proxy \in Nat /\ a <= proxy /\ proxyEvals <= a
      BY <2>4, <2>7
    <3> HIDE DEF a, proxy
    <3> QED BY <2>1, <3>1
  <2> HIDE DEF full, proxy
  <2>10. lastOverhead' <= LargestOverhead
    BY <2>1, <2>5, <2>8, <2>9, OverheadMonotone
  <2> QED BY <1>0, <2>1, <2>10 DEF ChargeInv
<1>4. CASE StartBatch
  <2>1. /\ phase = "selected" /\ phase' = "running" /\ now' = now + lastOverhead
        /\ decidedAt' = decidedAt /\ decidedAt = now
        /\ now \in Nat /\ lastOverhead \in Nat
    BY <1>4 DEF StartBatch, historyVars, ClockInv, TypeOK, TypeOKSelection, TypeOKServing
  <2>2. lastOverhead <= LargestOverhead
    BY <2>1 DEF ChargeInv
  <2>3. now' <= decidedAt' + LargestOverhead
    BY <1>0, <2>1, <2>2
  <2> QED BY <1>0, <2>1, <2>3 DEF ChargeInv
<1>5. CASE ExecuteBatch \/ ExceedLimit \/ AwaitArrival \/ Finish
  <2>1. phase' \notin {"selecting", "selected", "running"}
    BY <1>5 DEF ExecuteBatch, ExceedLimit, AwaitArrival, EnterLoop, Finish
  <2> QED BY <2>1 DEF ChargeInv
<1>6. CASE UNCHANGED vars
  BY <1>0, <1>6 DEF vars, simulatorVars, historyVars, selectionVars, ChargeInv,
                    ExactLimit, PoolLimit
<1> QED BY <1>1, <1>2, <1>3, <1>4, <1>5, <1>6 DEF Next, Finished

(* A batch that leaves an unfinished r out puts one of its members behind r, so
   r has somebody else behind it, unless r arrives after the batch. *)
LEMMA SomebodyFallsBehind ==
  ASSUME Inductive, ExecuteBatch, NEW r \in Unfinished, r \notin selected,
         readySince[r] < now'
  PROVE  Cardinality(Ahead(r)') \in Nat /\ Cardinality(Ahead(r)') <= NumRequests - 2
<1> USE DEF Inductive
<1>1. /\ now' \in Nat
      /\ \A s \in Request : readySince[s] \in Nat
      /\ \A s \in Request : readySince'[s] = IF s \in selected THEN now' ELSE readySince[s]
      /\ r \in Request /\ selected \in SUBSET Request
  BY BatchTimesAssumption
  DEF ExecuteBatch, Finalize, TypeOK, TypeOKWorkload, TypeOKSelection, TypeOKServing, Unfinished
<1>2. PICK h \in selected : TRUE
  BY DEF ExecuteBatch, SelectionInv, InBatch
<1>3. h \notin Ahead(r)' /\ h # r /\ h \in Request
  <2>1. ~Older(h, r)'
    BY <1>1, <1>2 DEF Older
  <2> QED BY <1>1, <1>2, <2>1 DEF Ahead
<1>4. Ahead(r)' \in SUBSET (Request \ {r, h})
  BY <1>3 DEF Ahead, Unfinished
<1>5. /\ IsFiniteSet(Request \ {r, h})
      /\ Cardinality(Request \ {r, h}) = NumRequests - 2
  <2> NumRequests - 1 - 1 = NumRequests - 2
    BY WorkloadAssumption
  <2>1. /\ IsFiniteSet(Request \ {r})
        /\ Cardinality(Request \ {r}) = NumRequests - 1
    BY <1>1, RequestsFinite, FS_RemoveElement
  <2>2. h \in Request \ {r} /\ (Request \ {r}) \ {h} = Request \ {r, h}
    BY <1>3
  <2>3. /\ IsFiniteSet((Request \ {r}) \ {h})
        /\ Cardinality((Request \ {r}) \ {h}) = NumRequests - 1 - 1
    BY <2>1, <2>2, FS_RemoveElement
  <2> QED BY <2>2, <2>3
<1> QED BY <1>4, <1>5, FS_Subset, FS_CardinalityType

(* The arithmetic of one more batch. *)
LEMMA OneMoreBatch ==
  ASSUME NEW k \in Nat, NEW wait \in Int, NEW later \in Int, NEW most \in Nat,
         NEW turn \in Nat, wait < most + turn * (1 + k), later <= wait + turn
  PROVE  later < most + turn * (1 + (k + 1))
<1>1. turn * (1 + k) \in Nat /\ turn * (1 + (k + 1)) = turn * (1 + k) + turn
  OBVIOUS
<1> DEFINE a == turn * (1 + k)
           b == turn * (1 + (k + 1))
<1>2. a \in Nat /\ b = a + turn /\ wait < most + a
  BY <1>1
<1> HIDE DEF a, b
<1>3. later < most + b
  BY <1>2
<1> QED BY <1>3 DEF b

LEMMA ExecutePays ==
  ASSUME TimesBounded, Inductive, ChargeInv, PaidInv, ExecuteBatch, NEW r \in Unfinished'
  PROVE  Paid(r, now)'
<1> USE DEF Inductive
<1> DEFINE turn == LongestBatch + LargestOverhead
<1>1. /\ phase = "running" /\ InBatch
      /\ now \in Nat /\ now' \in Nat /\ decidedAt \in Nat
      /\ \A s \in Request : readySince[s] \in Nat
      /\ \A s \in Request : readySince'[s] = IF s \in selected THEN now' ELSE readySince[s]
      /\ r \in Request /\ selected \in SUBSET Request
      /\ MaxWait \in Nat \ {0} /\ MaxBatchSize \in Nat \ {0} /\ NumRequests \in Nat
  <2>1. phase = "running" /\ InBatch /\ r \in Request /\ selected \in SUBSET Request
    BY DEF ExecuteBatch, InBatch, TypeOK, TypeOKSelection, Unfinished
  <2>2. now \in Nat /\ decidedAt \in Nat /\ \A s \in Request : readySince[s] \in Nat
    BY DEF TypeOK, TypeOKWorkload, TypeOKServing
  <2>3. now' \in Nat
    BY <2>2, BatchTimesAssumption DEF ExecuteBatch
  <2>4. \A s \in Request : readySince'[s] = IF s \in selected THEN now' ELSE readySince[s]
    BY DEF ExecuteBatch, Finalize
  <2> QED BY <2>1, <2>2, <2>3, <2>4, SelectionAssumption, WorkloadAssumption
<1>2. LongestBatch \in Nat /\ LargestOverhead \in Nat /\ turn \in Nat
      /\ \A t \in BatchTimes : t <= LongestBatch
  BY LimitsType
<1>3. now' <= decidedAt + turn
  <2>1. PICK elapsed \in BatchTimes : now' = now + elapsed
    BY DEF ExecuteBatch
  <2>2. elapsed \in Nat /\ elapsed <= LongestBatch
    BY <1>2, BatchTimesAssumption
  <2>3. now <= decidedAt + LargestOverhead
    BY <1>1 DEF ChargeInv
  <2> QED BY <1>1, <1>2, <2>1, <2>2, <2>3
<1>4. UNCHANGED <<LongestBatch, LargestOverhead>>
  BY DEF LongestBatch, LargestOverhead, StepOverhead, ExactLimit, PoolLimit
<1>5. CASE r \in selected
  <2>1. readySince'[r] = now' /\ now' - now' = 0
    BY <1>1, <1>5
  <2> QED BY <1>1, <2>1 DEF Paid
<1>6. CASE r \notin selected /\ now' <= readySince[r]
  <2>1. now' - readySince'[r] < MaxWait
    BY <1>1, <1>6
  <2> QED BY <2>1 DEF Paid
<1>7. CASE r \notin selected /\ readySince[r] < now'
  <2>1. r \in Unfinished
    BY <1>1, <1>7 DEF ExecuteBatch, Finalize, Unfinished, Done
  <2>2. Cardinality(Ahead(r)') \in Nat /\ Cardinality(Ahead(r)') <= NumRequests - 2
    BY <1>7, <2>1, SomebodyFallsBehind
  <2>3. readySince'[r] = readySince[r] /\ readySince[r] \in Nat
    BY <1>1, <1>7
  <2>4. CASE ~Overdue(r, decidedAt)
    <3>1. decidedAt - readySince[r] < MaxWait
      BY <1>1, <2>3, <2>4 DEF Overdue
    <3>2. now' - readySince'[r] < MaxWait + turn * (1 + 0)
      <4>1. turn * (1 + 0) = turn
        BY <1>2
      <4> HIDE DEF turn
      <4> QED BY <1>1, <1>2, <1>3, <2>3, <3>1, <4>1
    <3>3. 0 * MaxBatchSize + Cardinality(Ahead(r)') <= NumRequests - 2
      <4>1. 0 * MaxBatchSize = 0
        BY <1>1
      <4> QED BY <2>2, <4>1
    <3>4. 0 \in Nat
      OBVIOUS
    <3> QED BY <1>4, <3>2, <3>3, <3>4 DEF Paid
  <2>5. CASE Overdue(r, decidedAt)
    <3>1. r \in readyAt /\ r \in remaining
      <4>1. Arrival(r) \in Nat /\ Arrival(r) <= readySince[r] /\ readySince[r] <= decidedAt
        BY <1>1, <2>3, <2>5, ArrivalType DEF Overdue, ClockInv
      <4>2. r \in Ready(decidedAt)
        BY <1>1, <2>1, <4>1 DEF Ready
      <4> QED BY <1>1, <1>7, <4>2 DEF SelectionInv
    <3>2. Cardinality(selected) = MaxBatchSize /\ \A s \in selected : Older(s, r)
      BY <1>1, <2>5, <3>1 DEF OverdueInv
    <3>3. Cardinality(Ahead(r)') + MaxBatchSize <= Cardinality(Ahead(r))
      BY <1>7, <2>1, <3>1, <3>2, FullBatchMovesAll
    <3>4. Paid(r, decidedAt) /\ ~(decidedAt - readySince[r] < MaxWait)
      BY <1>1, <2>1, <2>3, <2>5 DEF PaidInv, InLoop, Overdue
    <3>5. PICK k \in Nat :
            /\ k * MaxBatchSize + Cardinality(Ahead(r)) <= NumRequests - 2
            /\ decidedAt - readySince[r] < MaxWait + turn * (1 + k)
      BY <3>4 DEF Paid
    <3>6. now' - readySince'[r] < MaxWait + turn * (1 + (k + 1))
      <4>1. /\ decidedAt - readySince[r] \in Int /\ now' - readySince'[r] \in Int
            /\ now' - readySince'[r] <= decidedAt - readySince[r] + turn
        BY <1>1, <1>2, <1>3, <2>3
      <4> HIDE DEF turn
      <4> QED BY <1>1, <1>2, <3>5, <4>1, OneMoreBatch
    <3>7. (k + 1) * MaxBatchSize + Cardinality(Ahead(r)') <= NumRequests - 2
      <4>1. k * MaxBatchSize \in Nat
            /\ (k + 1) * MaxBatchSize = k * MaxBatchSize + MaxBatchSize
        BY <1>1, ProductMonotone
      <4>2. Cardinality(Ahead(r)) \in Nat
        BY <1>1, OthersBound DEF Ahead, Unfinished
      <4> DEFINE a == k * MaxBatchSize
                 b == (k + 1) * MaxBatchSize
      <4>3. a \in Nat /\ b = a + MaxBatchSize
            /\ a + Cardinality(Ahead(r)) <= NumRequests - 2
        BY <3>5, <4>1
      <4> HIDE DEF a, b
      <4>4. b + Cardinality(Ahead(r)') <= NumRequests - 2
        BY <1>1, <2>2, <3>3, <4>2, <4>3
      <4> QED BY <4>4 DEF b
    <3>8. k + 1 \in Nat
      OBVIOUS
    <3> QED BY <1>4, <3>6, <3>7, <3>8 DEF Paid
  <2> QED BY <2>4, <2>5
<1> QED BY <1>1, <1>5, <1>6, <1>7

LEMMA StepPaidInv ==
  ASSUME TimesBounded, Inductive, ChargeInv, PaidInv, [Next]_vars
  PROVE  PaidInv'
<1> USE DEF Inductive
<1>0. UNCHANGED <<LongestBatch, LargestOverhead>>
  BY DEF LongestBatch, LargestOverhead, StepOverhead, ExactLimit, PoolLimit
<1>1. CASE ExecuteBatch
  <2>1. phase' = "loop"
    BY <1>1 DEF ExecuteBatch
  <2>2. \A r \in Unfinished' : Paid(r, now)'
    BY <1>1, ExecutePays
  <2> QED BY <2>1, <2>2 DEF PaidInv
<1>2. CASE AwaitArrival
  <2>1. /\ phase' = "loop" /\ now' = NextArrival /\ UNCHANGED workloadVars
        /\ now \in Nat /\ Unfinished # {} /\ Ready(now) = {}
    BY <1>2 DEF AwaitArrival, EnterLoop, TypeOK, TypeOKServing
  <2>2. NextArrival \in Nat /\ \A r \in Unfinished : NextArrival <= Arrival(r)
    BY <2>1, NextArrivalIsFirst
  <2>3. ASSUME NEW r \in Unfinished'
        PROVE  Paid(r, now)'
    <3>1. r \in Unfinished /\ r \in Request /\ readySince'[r] = readySince[r]
          /\ readySince[r] \in Nat /\ Arrival(r) \in Nat
      BY <2>1, OrderUnchanged, ArrivalType
      DEF Unfinished, workloadVars, TypeOK, TypeOKWorkload
    <3>2. now' <= readySince[r]
      BY <2>1, <2>2, <3>1 DEF ClockInv
    <3>3. now' - readySince'[r] < MaxWait
      BY <2>1, <2>2, <3>1, <3>2, SelectionAssumption
    <3> QED BY <3>3 DEF Paid
  <2> QED BY <2>1, <2>3 DEF PaidInv
<1>3. CASE CallScheduler \/ ExtendBatch \/ CloseBatch \/ StartBatch \/ UNCHANGED vars
  <2>1. UNCHANGED workloadVars /\ (InLoop' => InLoop)
    BY <1>3 DEF CallScheduler, EnterLoop, ExtendBatch, CloseBatch, StartBatch, vars,
                simulatorVars, InLoop
  <2>2. (IF phase = "loop" THEN now ELSE decidedAt)'
          = IF phase = "loop" THEN now ELSE decidedAt
    BY <1>3, CallBegins DEF CallScheduler, EnterLoop, ExtendBatch, CloseBatch, StartBatch, vars,
                simulatorVars, historyVars
  <2>3. Unfinished' = Unfinished /\ \A r : Ahead(r)' = Ahead(r)
    BY <2>1, OrderUnchanged
  <2>4. readySince' = readySince
    BY <2>1 DEF workloadVars
  <2> QED BY <1>0, <2>1, <2>2, <2>3, <2>4 DEF PaidInv, Paid
<1>4. CASE ExceedLimit \/ Finish
  BY <1>4 DEF ExceedLimit, Finish, PaidInv, InLoop
<1> QED BY <1>1, <1>2, <1>3, <1>4 DEF Next, Finished

(* Whoever is in a batch that starts has waited no longer than WaitBound says:
   it was overdue through so many batches only as there were older requests to
   fill them. *)
LEMMA PaidBoundsWait ==
  ASSUME TimesBounded, Inductive, ChargeInv, PaidInv
  PROVE  WaitBound
<1> USE DEF Inductive
<1> DEFINE turn == LongestBatch + LargestOverhead
           last == (NumRequests - 2) \div MaxBatchSize
<1> SUFFICES ASSUME phase = "running", NEW r \in selected
             PROVE  now - readySince[r] < MaxWait + LargestOverhead + turn * (1 + last)
  BY DEF WaitBound
<1>1. /\ r \in Unfinished /\ r \in Request /\ readySince[r] \in Nat
      /\ now \in Nat /\ decidedAt \in Nat /\ now <= decidedAt + LargestOverhead
      /\ MaxWait \in Nat /\ MaxBatchSize \in Nat \ {0} /\ NumRequests \in Nat \ {0}
      /\ LargestOverhead \in Nat /\ turn \in Nat
  <2>1. r \in Unfinished
    BY DEF SelectionInv, InBatch, Ready
  <2> QED BY <2>1, LimitsType, SelectionAssumption, WorkloadAssumption
      DEF ChargeInv, TypeOK, TypeOKWorkload, TypeOKServing, Unfinished
<1>2. Paid(r, decidedAt)
  BY <1>1 DEF PaidInv, InLoop
<1>3. last \in Int /\ -1 <= last
  BY <1>1
<1> HIDE DEF last
<1>4. turn * (1 + last) \in Nat
  BY <1>1, <1>3
<1> DEFINE bound == turn * (1 + last)
<1>5. CASE decidedAt - readySince[r] < MaxWait
  <2>1. bound \in Nat
    BY <1>4
  <2> HIDE DEF bound
  <2>2. now - readySince[r] < MaxWait + LargestOverhead + bound
    BY <1>1, <1>5, <2>1
  <2> QED BY <2>2 DEF bound
<1>6. ASSUME NEW k \in Nat,
             k * MaxBatchSize + Cardinality(Ahead(r)) <= NumRequests - 2,
             decidedAt - readySince[r] < MaxWait + turn * (1 + k)
      PROVE  now - readySince[r] < MaxWait + LargestOverhead + turn * (1 + last)
  <2>1. Cardinality(Ahead(r)) \in Nat
    BY <1>1, OthersBound DEF Ahead, Unfinished
  <2>2. k * MaxBatchSize \in Nat
    BY <1>1, ProductMonotone
  <2>3. k <= last
    <3>1. k * MaxBatchSize <= NumRequests - 2 /\ NumRequests - 2 \in Nat
      BY <1>1, <1>6, <2>1, <2>2
    <3> QED BY <1>1, <3>1, QuotientBound DEF last
  <2>4. /\ (1 + k) * turn \in Nat /\ (1 + last) * turn \in Nat
        /\ (1 + k) * turn <= (1 + last) * turn
    BY <1>1, <1>3, <2>3, ProductMonotone
  <2>5. turn * (1 + k) = (1 + k) * turn /\ turn * (1 + last) = (1 + last) * turn
    BY <1>1, <1>3
  <2> DEFINE low == turn * (1 + k)
             high == turn * (1 + last)
  <2>6. low \in Nat /\ high \in Nat /\ low <= high /\ decidedAt - readySince[r] < MaxWait + low
    BY <1>6, <2>4, <2>5
  <2> HIDE DEF low, high
  <2>7. now - readySince[r] < MaxWait + LargestOverhead + high
    BY <1>1, <2>6
  <2> QED BY <2>7 DEF high
<1> QED BY <1>2, <1>5, <1>6 DEF Paid

(* When a batch starts, none of its members has waited longer than max_wait_ms,
   the batch during which it became overdue and the full batches its older
   requests can fill, for every policy, score, arrival pattern and overhead. *)
THEOREM WaitsAreBounded ==
  ASSUME TimesBounded
  PROVE  Spec => []WaitBound
<1>1. Init => ChargeInv /\ PaidInv
  <2> SUFFICES ASSUME Init PROVE ChargeInv /\ PaidInv
    OBVIOUS
  <2>1. phase = "loop" /\ now = 0
    BY DEF Init
  <2>2. \A r \in Unfinished : now - readySince[r] < MaxWait
    <3> SUFFICES ASSUME NEW r \in Unfinished PROVE now - readySince[r] < MaxWait
      OBVIOUS
    <3>1. readySince[r] \in Nat
      BY ArrivalType DEF Init, InitWorkload, Unfinished
    <3> QED BY <2>1, <3>1, SelectionAssumption
  <2> QED BY <2>1, <2>2 DEF ChargeInv, PaidInv, Paid
<1>2. Inductive /\ ChargeInv /\ PaidInv /\ [Next]_vars => ChargeInv' /\ PaidInv'
  BY StepChargeInv, StepPaidInv
<1>3. Inductive /\ ChargeInv /\ PaidInv => WaitBound
  BY PaidBoundsWait
<1> QED BY InductiveInvariant, <1>1, <1>2, <1>3, PTL DEF Spec

-----------------------------------------------------------------------------
(* Blocks.                                                                 *)

Blocks(r) == OutputOf(r) \div Stride

(* An output is a whole number of strides. *)
LEMMA WholeBlocks ==
  ASSUME NEW r \in Request
  PROVE  /\ Blocks(r) \in Nat /\ OutputOf(r) = Blocks(r) * Stride
         /\ Stride \in Nat \ {0} /\ Rounds \in Nat \ {0}
<1>1. Stride \in Nat \ {0} /\ Rounds \in Nat \ {0} /\ OutputOf(r) \in Nat
  BY WorkloadAssumption, OutputType DEF Stride, Rounds
<1>2. \E k \in Nat : OutputOf(r) = k * Stride
  <2>1. CASE Mode # "diffusion"
    <3>1. Stride = 1 /\ OutputOf(r) * 1 = OutputOf(r)
      BY <1>1, <2>1 DEF Stride
    <3> QED BY <1>1, <3>1
  <2>2. CASE Mode = "diffusion" /\ ~Staggered
    <3>1. OutputOf(r) = OutputTokens /\ Stride = BlockSize /\ OutputTokens % BlockSize = 0
      BY <2>2, WorkloadAssumption DEF OutputOf, Stride
    <3>2. OutputTokens \in Nat /\ BlockSize \in Nat \ {0}
      BY WorkloadAssumption
    <3>3. OutputTokens = (OutputTokens \div BlockSize) * BlockSize + (OutputTokens % BlockSize)
          /\ OutputTokens \div BlockSize \in Nat
      BY <3>2, Quotient
    <3>4. (OutputTokens \div BlockSize) * BlockSize \in Int
      BY <3>2, <3>3
    <3> QED BY <3>1, <3>3, <3>4
  <2>3. CASE Mode = "diffusion" /\ Staggered
    <3> DEFINE fewest == MinOutputTokens \div BlockSize
               most   == OutputTokens \div BlockSize
               half   == RoundedHalf(2 * fewest + (most - fewest) * (r % 3))
    <3>1. OutputOf(r) = BlockSize * half /\ Stride = BlockSize
      BY <2>3 DEF OutputOf, Stride
    <3>2. fewest \in Nat /\ most \in Nat /\ fewest <= most
      <4>1. /\ MinOutputTokens \in Nat /\ OutputTokens \in Nat /\ BlockSize \in Nat \ {0}
            /\ MinOutputTokens <= OutputTokens
        BY WorkloadAssumption
      <4>2. fewest \in Nat /\ most \in Nat
        BY <4>1
      <4> QED BY <4>1, <4>2, DivisionMonotone
    <3>3. r % 3 \in Nat
      BY DEF Request
    <3> DEFINE late == r % 3
    <3>4. (most - fewest) * late \in Nat
      <4> HIDE DEF most, fewest, late
      <4>1. most - fewest \in Nat /\ late \in Nat
        BY <3>2, <3>3 DEF late
      <4> QED BY <4>1
    <3>5. half \in Nat
      <4>1. 2 * fewest + (most - fewest) * late \in Nat
        <5> HIDE DEF most, fewest, late
        <5> QED BY <3>2, <3>4
      <4> QED BY <4>1, RoundedHalfType
    <3>6. BlockSize * half = half * BlockSize
      <4> HIDE DEF half
      <4> QED BY <3>5, WorkloadAssumption
    <3> HIDE DEF half
    <3> QED BY <3>1, <3>5, <3>6
  <2> QED BY <2>1, <2>2, <2>3
<1>3. PICK k \in Nat : OutputOf(r) = k * Stride
  BY <1>2
<1>4. OutputOf(r) = k * Stride + 0 /\ 0 \in 0 .. Stride - 1
  BY <1>1, <1>3
<1>5. Blocks(r) = k
  BY <1>1, <1>4, QuotientIs DEF Blocks
<1> QED BY <1>1, <1>3, <1>5

(* What the plan says of i iterations, while they are not too many. *)
LEMMA Plan ==
  ASSUME NEW r \in Request, NEW i \in Nat, i <= TotalSteps(r)
  PROVE  /\ TotalSteps(r) = Blocks(r) * Rounds /\ TotalSteps(r) \in Nat
         /\ i \div Rounds \in Nat /\ i \div Rounds <= Blocks(r)
         /\ FinalizedAfter(r, i) = (i \div Rounds) * Stride
         /\ FinalizedAfter(r, i) \in Nat
         /\ FinalizedAfter(r, i) >= OutputOf(r) <=> i = TotalSteps(r)
<1> DEFINE k == Blocks(r)
           q == i \div Rounds
<1>1. k \in Nat /\ OutputOf(r) = k * Stride /\ Stride \in Nat \ {0} /\ Rounds \in Nat \ {0}
  BY WholeBlocks
<1>2. TotalSteps(r) = k * Rounds /\ TotalSteps(r) \in Nat
  <2>1. TotalSteps(r) = k * Rounds
    BY DEF TotalSteps, Blocks
  <2> HIDE DEF k
  <2> QED BY <1>1, <2>1
<1>3. q \in Nat
  BY <1>1, Quotient
<1>4. (i < k * Rounds <=> q < k) /\ (i < (k + 1) * Rounds <=> q < k + 1)
  <2> HIDE DEF k
  <2>1. i < k * Rounds <=> q < k
    BY <1>1, QuotientCompares
  <2>2. k + 1 \in Nat
    BY <1>1
  <2>3. i < (k + 1) * Rounds <=> q < k + 1
    BY <1>1, <2>2, QuotientCompares
  <2> QED BY <2>1, <2>3
<1>5. q <= k
  <2>1. (k + 1) * Rounds = k * Rounds + Rounds /\ k * Rounds \in Int
    <3> HIDE DEF k
    <3> QED BY <1>1
  <2> HIDE DEF k, q
  <2> QED BY <1>1, <1>2, <1>3, <1>4, <2>1
<1>6. q * Stride <= k * Stride /\ q * Stride \in Nat /\ k * Stride \in Nat
  <2> HIDE DEF k, q
  <2> QED BY <1>1, <1>3, <1>5, ProductMonotone
<1>7. FinalizedAfter(r, i) = q * Stride
  <2>1. FinalizedAfter(r, i) = Smaller(q * Stride, k * Stride)
    BY <1>1 DEF FinalizedAfter
  <2> HIDE DEF k, q
  <2> QED BY <1>6, <2>1 DEF Smaller
<1>8. q < k => q * Stride < k * Stride
  <2> HIDE DEF k, q
  <2> SUFFICES ASSUME q < k PROVE q * Stride < k * Stride
    OBVIOUS
  <2>1. (q + 1) * Stride <= k * Stride
    BY <1>1, <1>3, ProductMonotone
  <2>2. (q + 1) * Stride = q * Stride + Stride
    BY <1>1, <1>3
  <2> QED BY <1>1, <1>6, <2>1, <2>2
<1>9. q * Stride >= k * Stride <=> i = TotalSteps(r)
  <2> HIDE DEF k, q
  <2>1. CASE i < TotalSteps(r)
    BY <1>2, <1>4, <1>6, <1>8, <2>1
  <2>2. CASE i = TotalSteps(r)
    <3>1. ~(q < k)
      BY <1>2, <1>4, <2>2
    <3>2. q = k
      BY <1>1, <1>3, <1>5, <3>1
    <3> QED BY <1>6, <2>2, <3>2
  <2> QED BY <1>2, <2>1, <2>2
<1> HIDE DEF q
<1> QED BY <1>1, <1>2, <1>3, <1>5, <1>6, <1>7, <1>9 DEF q

-----------------------------------------------------------------------------
(* The loop.                                                               *)

LEMMA OneStepAsPlanned ==
  ASSUME TypeOK, ProgressAsPlanned, NEW r \in Unfinished
  PROVE  /\ iteration[r] < TotalSteps(r)
         /\ finalized[r] + FinalizedByStep(r) = FinalizedAfter(r, iteration[r] + 1)
<1> DEFINE i == iteration[r]
           q == i \div Rounds
           k == Blocks(r)
<1>1. r \in Request /\ i \in Nat /\ finalized[r] = FinalizedAfter(r, i)
      /\ i <= TotalSteps(r) /\ i # TotalSteps(r)
  BY DEF Unfinished, TypeOK, TypeOKWorkload, ProgressAsPlanned
<1>2. /\ k \in Nat /\ OutputOf(r) = k * Stride /\ Stride \in Nat \ {0} /\ Rounds \in Nat \ {0}
  BY <1>1, WholeBlocks
<1>3. /\ TotalSteps(r) = k * Rounds /\ TotalSteps(r) \in Nat
      /\ FinalizedAfter(r, i) = q * Stride /\ q \in Nat
  BY <1>1, Plan
<1>4. i < TotalSteps(r) /\ i + 1 \in Nat /\ i + 1 <= TotalSteps(r)
  BY <1>1, <1>3
<1>5. q < k
  BY <1>1, <1>2, <1>3, <1>4, QuotientCompares
<1>6. FinalizedAfter(r, i + 1) = ((i + 1) \div Rounds) * Stride
  BY <1>1, <1>4, Plan
<1>7. (i + 1) \div Rounds = IF FinalRound(r) THEN q + 1 ELSE q
  BY <1>1, <1>2, NextQuotient DEF FinalRound
<1>8. q * Stride \in Nat /\ (q + 1) * Stride = q * Stride + Stride
  BY <1>2, <1>3
<1>9. (q + 1) * Stride <= k * Stride /\ k * Stride \in Nat
  <2>1. q + 1 \in Nat /\ q + 1 <= k
    BY <1>2, <1>3, <1>5
  <2> QED BY <1>2, <2>1, ProductMonotone
<1>10. finalized[r] = q * Stride /\ OutputOf(r) = k * Stride
  BY <1>1, <1>2, <1>3
<1>11. FinalizedByStep(r) = IF FinalRound(r) THEN Stride ELSE 0
  <2>1. Smaller(Stride, OutputOf(r) - finalized[r]) = Stride
    BY <1>2, <1>8, <1>9, <1>10 DEF Smaller
  <2>2. CASE Mode = "diffusion"
    BY <2>1, <2>2 DEF FinalizedByStep, Stride
  <2>3. CASE Mode # "diffusion"
    <3>1. Rounds = 1 /\ i % 1 = 0
      BY <1>1, <2>3 DEF Rounds
    <3>2. FinalRound(r)
      BY <3>1 DEF FinalRound
    <3> QED BY <2>1, <2>3, <3>2 DEF FinalizedByStep, Stride
  <2> QED BY <2>2, <2>3
<1> HIDE DEF q, k, i
<1>12. finalized[r] + FinalizedByStep(r) = FinalizedAfter(r, i + 1)
  BY <1>2, <1>6, <1>7, <1>8, <1>10, <1>11
<1> QED BY <1>4, <1>12 DEF i

LEMMA StepProgressAsPlanned ==
  ASSUME Inductive, ProgressAsPlanned, [Next]_vars
  PROVE  ProgressAsPlanned'
<1>0. TypeOK
  BY DEF Inductive
<1>1. CASE ExecuteBatch
  <2> SUFFICES ASSUME NEW r \in Request
               PROVE  /\ finalized'[r] = FinalizedAfter(r, iteration'[r])
                      /\ iteration'[r] <= TotalSteps(r)
                      /\ Done(r)' <=> iteration'[r] = TotalSteps(r)
    BY DEF ProgressAsPlanned, FinalizedAfter, TotalSteps, OutputOf, Stride, Rounds
  <2>1. /\ iteration'[r] = (IF r \in selected THEN iteration[r] + 1 ELSE iteration[r])
        /\ finalized'[r] = (IF r \in selected THEN finalized[r] + FinalizedByStep(r)
                                               ELSE finalized[r])
        /\ Done(r)' <=> finalized'[r] >= OutputOf(r)
    BY <1>1 DEF ExecuteBatch, Finalize, Done
  <2>2. CASE r \in selected
    <3>1. r \in Unfinished
      BY <1>1, <2>2 DEF Inductive, ExecuteBatch, SelectionInv, InBatch, Ready
    <3>2. /\ iteration[r] < TotalSteps(r)
          /\ finalized[r] + FinalizedByStep(r) = FinalizedAfter(r, iteration[r] + 1)
      BY <1>0, <3>1, OneStepAsPlanned
    <3>3. iteration[r] \in Nat /\ TotalSteps(r) \in Nat
      <4>1. iteration[r] \in Nat
        BY <1>0 DEF TypeOK, TypeOKWorkload
      <4>2. iteration[r] <= TotalSteps(r)
        BY DEF ProgressAsPlanned
      <4> QED BY <4>1, <4>2, Plan
    <3>4. iteration[r] + 1 \in Nat /\ iteration[r] + 1 <= TotalSteps(r)
      BY <3>2, <3>3
    <3>5. FinalizedAfter(r, iteration[r] + 1) >= OutputOf(r)
            <=> iteration[r] + 1 = TotalSteps(r)
      BY <3>4, Plan
    <3> QED BY <2>1, <2>2, <3>2, <3>4, <3>5
  <2>3. CASE r \notin selected
    BY <2>1, <2>3 DEF ProgressAsPlanned, Done
  <2> QED BY <2>2, <2>3
<1>2. CASE UNCHANGED workloadVars
  BY <1>2 DEF workloadVars, ProgressAsPlanned, Done, FinalizedAfter, TotalSteps
<1>3. ExceedLimit \/ AwaitArrival \/ CallScheduler \/ ExtendBatch \/ CloseBatch \/ StartBatch
        \/ Finish \/ UNCHANGED vars
      => UNCHANGED workloadVars
  BY DEF ExceedLimit, AwaitArrival, CallScheduler, ExtendBatch, CloseBatch, StartBatch,
         Finish, vars
<1> QED BY <1>1, <1>2, <1>3 DEF Next, Finished

LEMMA InitProgressAsPlanned == Init => ProgressAsPlanned
<1> SUFFICES ASSUME Init, NEW r \in Request
             PROVE  /\ finalized[r] = FinalizedAfter(r, iteration[r])
                    /\ iteration[r] <= TotalSteps(r)
                    /\ Done(r) <=> iteration[r] = TotalSteps(r)
  BY DEF ProgressAsPlanned
<1>1. iteration[r] = 0 /\ finalized[r] = 0
  BY DEF Init, InitWorkload
<1>2. /\ Blocks(r) \in Nat /\ Stride \in Nat \ {0} /\ Rounds \in Nat \ {0}
  BY WholeBlocks
<1>3. 0 <= TotalSteps(r)
  <2>1. TotalSteps(r) = Blocks(r) * Rounds
    BY DEF TotalSteps, Blocks
  <2> QED BY <1>2, <2>1
<1>4. 0 \div Rounds = 0 /\ 0 * Stride = 0
  BY <1>2
<1>5. /\ FinalizedAfter(r, 0) = 0
      /\ FinalizedAfter(r, 0) >= OutputOf(r) <=> 0 = TotalSteps(r)
  <2>1. 0 \in Nat
    OBVIOUS
  <2>2. /\ FinalizedAfter(r, 0) = (0 \div Rounds) * Stride
        /\ FinalizedAfter(r, 0) >= OutputOf(r) <=> 0 = TotalSteps(r)
    BY <1>3, <2>1, Plan
  <2> QED BY <1>4, <2>2
<1> QED BY <1>1, <1>3, <1>5 DEF Done

(* A request is done exactly after the iterations planned for it, and has then
   and at every step before finalized what the oracle's plan says. *)
THEOREM ProgressFollowsPlan == Spec => []ProgressAsPlanned
<1>1. Inductive /\ ProgressAsPlanned /\ [Next]_vars => ProgressAsPlanned'
  BY StepProgressAsPlanned
<1> QED BY InductiveInvariant, InitProgressAsPlanned, <1>1, PTL DEF Spec

-----------------------------------------------------------------------------
(* The line.                                                               *)

LineInv == Inductive /\ ProgressAsPlanned

(* The place of r: how many unfinished requests are preferred to it. *)
PlaceOf(r) == IF Done(r) THEN 0 ELSE Cardinality(Ahead(r))

LEMMA OutputPositive == \A r \in Request : OutputOf(r) > 0
<1> SUFFICES ASSUME NEW r \in Request PROVE OutputOf(r) > 0
  OBVIOUS
<1>1. CASE ~Staggered
  BY <1>1, WorkloadAssumption DEF OutputOf
<1>2. CASE Staggered
  <2> DEFINE fewest == MinOutputTokens \div BlockSize
             most   == OutputTokens \div BlockSize
             late   == r % 3
  <2>1. fewest \in Nat /\ most \in Nat /\ fewest <= most
    <3>1. /\ MinOutputTokens \in Nat /\ OutputTokens \in Nat /\ BlockSize \in Nat \ {0}
          /\ MinOutputTokens <= OutputTokens
      BY WorkloadAssumption
    <3>2. fewest \in Nat /\ most \in Nat
      BY <3>1
    <3> QED BY <3>1, <3>2, DivisionMonotone
  <2>2. fewest > 0
    <3>1. MinOutputTokens = fewest * BlockSize + (MinOutputTokens % BlockSize)
      BY WorkloadAssumption, Quotient
    <3>2. MinOutputTokens % BlockSize = 0 /\ MinOutputTokens > 0 /\ BlockSize \in Nat
      BY <1>2, WorkloadAssumption
    <3> HIDE DEF fewest
    <3>3. CASE fewest = 0
      BY <3>1, <3>2, <3>3
    <3> QED BY <2>1, <3>3
  <2>3. late \in Nat
    BY DEF Request
  <2> HIDE DEF fewest, most, late
  <2>4. (most - fewest) * late \in Nat
    <3>1. most - fewest \in Nat
      BY <2>1
    <3> QED BY <2>3, <3>1
  <2> DEFINE twice == 2 * fewest + (most - fewest) * late
  <2>5. twice \in Nat /\ twice >= 2
    BY <2>1, <2>2, <2>4
  <2> HIDE DEF twice
  <2>6. RoundedHalf(twice) \in Nat \ {0}
    <3>1. twice \div 2 \in Nat \ {0}
      BY <2>5
    <3> QED BY <3>1 DEF RoundedHalf
  <2> DEFINE half == RoundedHalf(twice)
  <2>7. OutputOf(r) = BlockSize * half
    BY <1>2 DEF OutputOf, twice, fewest, most, late
  <2> HIDE DEF half
  <2>8. BlockSize * half > 0
    <3>1. half \in Nat \ {0} /\ BlockSize \in Nat \ {0}
      BY <2>6, WorkloadAssumption DEF half
    <3>2. 1 * half <= BlockSize * half
      BY <3>1, ProductMonotone
    <3> QED BY <3>1, <3>2
  <2> QED BY <2>7, <2>8
<1> QED BY <1>1, <1>2

(* Unfinished requests have places of their own. *)
LEMMA PlacesDiffer ==
  ASSUME TypeOKWorkload, NEW r \in Unfinished, NEW s \in Unfinished, r # s
  PROVE  Cardinality(Ahead(r)) # Cardinality(Ahead(s))
<1>0. r \in Request /\ s \in Request
  BY DEF Unfinished
<1>1. ASSUME NEW a \in Unfinished, NEW b \in Unfinished, a # b, Older(a, b)
      PROVE  Cardinality(Ahead(a)) < Cardinality(Ahead(b))
  <2>1. a \in Request /\ b \in Request
    BY DEF Unfinished
  <2>2. /\ IsFiniteSet(Ahead(a)) /\ Cardinality(Ahead(a)) \in Nat
        /\ IsFiniteSet(Ahead(b)) /\ Cardinality(Ahead(b)) \in Nat
    <3>1. Ahead(a) \in SUBSET Request /\ Ahead(b) \in SUBSET Request
      BY DEF Ahead, Unfinished
    <3> QED BY <3>1, RequestsFinite
  <2>3. a \notin Ahead(a) /\ a \in Ahead(b)
    BY <1>1 DEF Ahead
  <2>4. Ahead(a) \subseteq Ahead(b)
    <3> SUFFICES ASSUME NEW c \in Ahead(a) PROVE c \in Ahead(b)
      OBVIOUS
    <3>1. c \in Unfinished /\ c \in Request /\ Older(c, a)
      BY DEF Ahead, Unfinished
    <3>2. Older(c, b)
      BY <1>1, <2>1, <3>1, OlderTransitive
    <3>3. c # b
      BY <2>1, <3>2 DEF Older, TypeOKWorkload, Request
    <3> QED BY <3>1, <3>2, <3>3 DEF Ahead
  <2>5. /\ Cardinality(Ahead(a)) <= Cardinality(Ahead(b))
        /\ Cardinality(Ahead(a)) = Cardinality(Ahead(b)) => Ahead(a) = Ahead(b)
    BY <2>2, <2>4, FS_Subset
  <2> QED BY <2>2, <2>3, <2>5
<1>2. /\ Cardinality(Ahead(r)) \in Nat /\ Cardinality(Ahead(s)) \in Nat
  <2>1. Ahead(r) \in SUBSET Request /\ Ahead(s) \in SUBSET Request
    BY DEF Ahead, Unfinished
  <2> QED BY <2>1, RequestsFinite
<1>3. Older(r, s) \/ Older(s, r)
  BY <1>0, OlderTotal
<1> QED BY <1>1, <1>2, <1>3

PlacesApart ==
  \A r \in Unfinished : \A s \in Unfinished :
    Cardinality(Ahead(r)) = Cardinality(Ahead(s)) => r = s

LEMMA TypesSetApart == TypeOKWorkload => PlacesApart
BY PlacesDiffer DEF PlacesApart

(* Places are numbered from 0 to NumRequests - 1. *)
LEMMA PlaceType ==
  /\ [r \in Request |-> PlaceOf(r)] \in [Request -> 0 .. NumRequests - 1]
  /\ \A r \in Request : PlaceOf(r) \in Nat
<1> SUFFICES ASSUME NEW r \in Request PROVE PlaceOf(r) \in 0 .. NumRequests - 1
  OBVIOUS
<1>1. Ahead(r) \in SUBSET (Request \ {r})
  BY DEF Ahead, Unfinished
<1>2. Cardinality(Ahead(r)) \in Nat /\ Cardinality(Ahead(r)) < NumRequests
  BY <1>1, OthersBound
<1> QED BY <1>2, WorkloadAssumption DEF PlaceOf

LEMMA LineInit == Init => Line!Init
<1> SUFFICES ASSUME Init PROVE Line!Init
  OBVIOUS
<1>0. TypeOKWorkload /\ Unfinished = Request
  <2>1. TypeOKWorkload
    BY InitInductive DEF Inductive, TypeOK
  <2>2. \A r \in Request : ~Done(r)
    <3>1. \A r \in Request : finalized[r] = 0 /\ OutputOf(r) \in Nat /\ OutputOf(r) > 0
      BY OutputPositive, OutputType DEF Init, InitWorkload
    <3> QED BY <3>1 DEF Done
  <2> QED BY <2>1, <2>2 DEF Unfinished
<1>1. [r \in Request |-> TotalSteps(r) - iteration[r]] = [r \in Request |-> TotalSteps(r)]
  <2>1. \A r \in Request : TotalSteps(r) \in Nat /\ iteration[r] = 0
    <3> SUFFICES ASSUME NEW r \in Request PROVE TotalSteps(r) \in Nat /\ iteration[r] = 0
      OBVIOUS
    <3>1. Blocks(r) \in Nat /\ Rounds \in Nat
      BY WholeBlocks
    <3> QED BY <3>1 DEF Init, InitWorkload, TotalSteps, Blocks
  <2> QED BY <2>1
<1>2. \A r \in Request : \A s \in Request : PlaceOf(r) = PlaceOf(s) => r = s
  BY <1>0, PlacesDiffer DEF PlaceOf, Unfinished
<1> QED BY <1>1, <1>2, PlaceType DEF Line!Init, Line!LineRequest, Line!InLine, Request, PlaceOf

(* Who the line serves or passes over is who was ready when the batch was formed. *)
LEMMA ActiveIsReady ==
  ASSUME LineInv
  PROVE  /\ Line!Waiting = Unfinished
         /\ Line!Active = Ready(decidedAt)
         /\ \A r \in Request : iteration[r] \in Nat /\ TotalSteps(r) \in Nat
<1>1. \A r \in Request : iteration[r] \in Nat /\ TotalSteps(r) \in Nat
  <2> SUFFICES ASSUME NEW r \in Request PROVE iteration[r] \in Nat /\ TotalSteps(r) \in Nat
    OBVIOUS
  <2>1. iteration[r] \in Nat /\ iteration[r] <= TotalSteps(r)
    BY DEF LineInv, Inductive, TypeOK, TypeOKWorkload, ProgressAsPlanned
  <2> QED BY <2>1, Plan
<1>2. \A r \in Request : TotalSteps(r) - iteration[r] > 0 <=> ~Done(r)
  BY <1>1 DEF LineInv, ProgressAsPlanned
<1>3. Line!Waiting = Unfinished
  BY <1>2 DEF Line!Waiting, Line!LineRequest, Unfinished, Request
<1>4. Line!Active = Ready(decidedAt)
  BY <1>3 DEF Line!Active, Ready, Unfinished
<1> QED BY <1>1, <1>3, <1>4

WaitingIsUnfinished == Line!Waiting = Unfinished

LEMMA LineInvWaits == LineInv => WaitingIsUnfinished
BY ActiveIsReady DEF WaitingIsUnfinished

(* Deciding on a batch may admit the requests that have arrived meanwhile. *)
LEMMA DecisionAdmits ==
  ASSUME LineInv, CallScheduler
  PROVE  Line!Admit \/ UNCHANGED Line!lineVars
<1> DEFINE admitted == {r \in Request : Arrival(r) <= decidedAt}
           arrived == {r \in Request : Arrival(r) <= now}
<1>1. UNCHANGED workloadVars /\ decidedAt' = now
  BY DEF CallScheduler
<1>2. admitted \subseteq arrived /\ admitted' = arrived
  <2>1. decidedAt <= now /\ decidedAt \in Nat /\ now \in Nat
    BY DEF LineInv, Inductive, ClockInv, TypeOK, TypeOKServing
  <2> QED BY <1>1, <2>1, ArrivalType DEF Arrival
<1>3. UNCHANGED <<[r \in Request |-> TotalSteps(r) - iteration[r]],
                  [r \in Request |-> IF Done(r) THEN 0 ELSE Cardinality(Ahead(r))]>>
  BY <1>1, OrderUnchanged DEF workloadVars, Done, TotalSteps
<1>4. CASE arrived = admitted
  BY <1>2, <1>3, <1>4 DEF Line!lineVars
<1>5. CASE arrived # admitted
  <2>1. arrived \ admitted \in SUBSET (Request \ admitted) /\ arrived \ admitted # {}
        /\ admitted' = admitted \cup (arrived \ admitted)
    BY <1>2, <1>5
  <2> QED BY <1>3, <2>1 DEF Line!Admit, Line!LineRequest, Request
<1> QED BY <1>4, <1>5

(* Executing a batch serves it: every ready request left out moves up. *)
LEMMA ExecutionServes ==
  ASSUME LineInv, LineInv', ExecuteBatch
  PROVE  Line!Serve
<1> USE DEF LineInv
<1>1. /\ InBatch /\ selected \subseteq readyAt /\ readyAt = Ready(decidedAt)
      /\ Cardinality(selected) <= MaxBatchSize /\ decidedAt' = decidedAt
      /\ selected # {}
  BY DEF Inductive, ExecuteBatch, InBatch, SelectionInv
<1>2. Line!Waiting' = Unfinished' /\ Line!Active = Ready(decidedAt)
      /\ \A r \in Request : iteration[r] \in Nat /\ TotalSteps(r) \in Nat
  <2>1. WaitingIsUnfinished'
    BY LineInvWaits, PTL
  <2> QED BY <2>1, ActiveIsReady DEF WaitingIsUnfinished
<1>3. selected \in SUBSET Line!Active /\ selected # {}
  BY <1>1, <1>2
<1>4. [r \in Request |-> TotalSteps(r) - iteration[r]]'
        = [r \in Request |-> IF r \in selected
             THEN [s \in Request |-> TotalSteps(s) - iteration[s]][r] - 1
             ELSE [s \in Request |-> TotalSteps(s) - iteration[s]][r]]
  <2>1. \A r \in Request :
          iteration'[r] = IF r \in selected THEN iteration[r] + 1 ELSE iteration[r]
    BY DEF ExecuteBatch, Finalize
  <2> QED BY <1>2, <2>1 DEF TotalSteps
<1>5. [r \in Request |-> PlaceOf(r)]' \in [Request -> 0 .. NumRequests - 1]
  <2> SUFFICES ASSUME NEW r \in Request PROVE PlaceOf(r)' \in 0 .. NumRequests - 1
    OBVIOUS
  <2>1. Ahead(r)' \in SUBSET (Request \ {r})
    BY DEF Ahead, Unfinished
  <2>2. Cardinality(Ahead(r)') \in Nat /\ Cardinality(Ahead(r)') < NumRequests
    BY <2>1, OthersBound
  <2> QED BY <2>2, WorkloadAssumption DEF PlaceOf
<1>6. \A r, s \in Unfinished' : PlaceOf(r)' = PlaceOf(s)' => r = s
  <2>1. TypeOKWorkload'
    BY DEF Inductive, TypeOK
  <2>2. PlacesApart'
    BY <2>1, TypesSetApart, PTL
  <2> QED BY <2>2 DEF PlacesApart, PlaceOf, Unfinished
<1>7. \A r \in Line!Active \ selected : PlaceOf(r)' < PlaceOf(r)
  <2> SUFFICES ASSUME NEW r \in Line!Active \ selected PROVE PlaceOf(r)' < PlaceOf(r)
    OBVIOUS
  <2>1. r \in Unfinished /\ r \in Request /\ r \in readyAt /\ r \notin selected
    BY <1>1, <1>2 DEF Ready, Unfinished
  <2>2. ~Done(r) /\ ~Done(r)'
    BY <2>1 DEF ExecuteBatch, Finalize, Unfinished, Done
  <2>3. /\ Ahead(r)' \subseteq Ahead(r)
        /\ \E h \in Ahead(r) : h \notin Ahead(r)'
    BY <2>1, BatchMovesAnchor
  <2>4. IsFiniteSet(Ahead(r)) /\ Cardinality(Ahead(r)) \in Nat
    <3>1. Ahead(r) \in SUBSET Request
      BY DEF Ahead, Unfinished
    <3> QED BY <3>1, RequestsFinite
  <2>5. /\ Cardinality(Ahead(r)') \in Nat
        /\ Cardinality(Ahead(r)') <= Cardinality(Ahead(r))
        /\ Cardinality(Ahead(r)') # Cardinality(Ahead(r))
    <3>1. IsFiniteSet(Ahead(r)')
      BY <2>3, <2>4, FS_Subset
    <3> QED BY <2>3, <2>4, <3>1, FS_Subset, FS_CardinalityType
  <2> QED BY <2>2, <2>4, <2>5 DEF PlaceOf
<1>8. UNCHANGED {r \in Request : Arrival(r) <= decidedAt}
  BY <1>1 DEF Arrival
<1>9. \A r \in Line!Active : r \in Request
  BY <1>2 DEF Ready, Unfinished
<1> DEFINE steps == [r \in Request |-> TotalSteps(r) - iteration[r]]
           places == [r \in Request |-> PlaceOf(r)]
<1>10. Line!InLine(Line!Waiting', places')
  BY <1>2, <1>6 DEF Line!InLine, Unfinished
<1>11. \A r \in Line!Active \ selected : places'[r] < places[r]
  BY <1>7, <1>9
<1>12. /\ places = [r \in Request |-> IF Done(r) THEN 0 ELSE Cardinality(Ahead(r))]
       /\ places' = [r \in Request |-> IF Done(r) THEN 0 ELSE Cardinality(Ahead(r))]'
       /\ steps = [r \in Request |-> TotalSteps(r) - iteration[r]]
       /\ steps' = [r \in Request |-> TotalSteps(r) - iteration[r]]'
  BY DEF PlaceOf
<1> HIDE DEF steps, places
<1>13. \E batch \in SUBSET Line!Active :
         /\ batch # {} /\ Cardinality(batch) <= MaxBatchSize
         /\ steps' = [r \in Request |-> IF r \in batch THEN steps[r] - 1 ELSE steps[r]]
         /\ places' \in [Request -> 0 .. NumRequests - 1]
         /\ Line!InLine(Line!Waiting', places')
         /\ \A r \in Line!Active \ batch : places'[r] < places[r]
         /\ UNCHANGED {r \in Request : Arrival(r) <= decidedAt}
  BY <1>1, <1>3, <1>4, <1>5, <1>8, <1>10, <1>11 DEF steps, places
<1>14. \A S : Line!Cardinality(S) = Cardinality(S)
  BY DEF Line!Cardinality, Cardinality
<1> QED BY <1>12, <1>13, <1>14 DEF Line!Serve, Line!LineRequest, Request

LEMMA LineStep ==
  ASSUME LineInv, LineInv', [Next]_vars
  PROVE  [Line!Next]_(Line!lineVars)
<1>1. CASE CallScheduler
  BY <1>1, DecisionAdmits DEF Line!Next
<1>2. CASE ExecuteBatch
  BY <1>2, ExecutionServes DEF Line!Next
<1>3. CASE UNCHANGED <<workloadVars, decidedAt>>
  BY <1>3, OrderUnchanged DEF Line!lineVars, workloadVars, Done, TotalSteps, Arrival
<1>4. ExceedLimit \/ AwaitArrival \/ ExtendBatch \/ CloseBatch \/ StartBatch
        \/ Finish \/ UNCHANGED vars
      => UNCHANGED <<workloadVars, decidedAt>>
  BY DEF ExceedLimit, AwaitArrival, ExtendBatch, CloseBatch, StartBatch, Finish,
         historyVars, vars
<1> QED BY <1>1, <1>2, <1>3, <1>4 DEF Next, Finished

(* The loop implements the line: every decision admits, every batch serves some
   admitted requests and moves every other one up, and nothing else shows. *)
THEOREM LoopKeepsTheLine == Spec => Line!Spec
<1>1. LineInv /\ [Next]_vars => LineInv'
  BY StepTypeOK, StepClockInv, StepSelectionInv, StepOverdueInv, StepBoundedBypass,
     StepProgressAsPlanned
  DEF LineInv, Inductive
<1>2. LineInv /\ LineInv' /\ [Next]_vars => [Line!Next]_(Line!lineVars)
  BY LineStep
<1>3. Init => LineInv
  BY InitInductive, InitProgressAsPlanned DEF LineInv
<1> QED BY LineInit, <1>1, <1>2, <1>3, PTL DEF Spec, Line!Spec

-----------------------------------------------------------------------------
(* Work.                                                                   *)

LEMMA WorkUpToIs ==
  ASSUME NEW i \in Nat
  PROVE  WorkUpTo[0] = 0 /\ WorkUpTo[i + 1] = WorkUpTo[i] + WidthAt(i)
<1> DEFINE d == [n \in Nat |-> WidthAt(n)]
<1>1. d \in [Nat -> Nat] /\ \A n \in Nat : d[n] = WidthAt(n)
  BY WidthType
<1>2. \E f : f = [n \in Nat |-> IF n = 0 THEN 0 ELSE f[n - 1] + d[n - 1]]
  <2> HIDE DEF d
  <2> QED BY <1>1, RunningSumExists
<1>3. \A f : [n \in Nat |-> IF n = 0 THEN 0 ELSE f[n - 1] + d[n - 1]]
               = [n \in Nat |-> IF n = 0 THEN 0 ELSE f[n - 1] + WidthAt(n - 1)]
  BY <1>1
<1>4. \E f : f = [n \in Nat |-> IF n = 0 THEN 0 ELSE f[n - 1] + WidthAt(n - 1)]
  <2>1. PICK f : f = [n \in Nat |-> IF n = 0 THEN 0 ELSE f[n - 1] + d[n - 1]]
    BY <1>2
  <2>2. f = [n \in Nat |-> IF n = 0 THEN 0 ELSE f[n - 1] + WidthAt(n - 1)]
    BY <2>1, <1>3, Zenon
  <2> QED BY <2>2
<1>5. WorkUpTo = [n \in Nat |-> IF n = 0 THEN 0 ELSE WorkUpTo[n - 1] + WidthAt(n - 1)]
  BY <1>4 DEF WorkUpTo
<1>6. \A n \in Nat : WorkUpTo[n] = IF n = 0 THEN 0 ELSE WorkUpTo[n - 1] + WidthAt(n - 1)
  BY <1>5
<1>7. i + 1 \in Nat /\ i + 1 # 0 /\ i + 1 - 1 = i
  OBVIOUS
<1> QED BY <1>6, <1>7

(* The work done for a request is that of its iterations, the one running
   included. *)
WorkInv ==
  \A r \in Request :
    processed[r] = IF phase = "running" /\ r \in selected
                   THEN WorkUpTo[iteration[r] + 1] ELSE WorkUpTo[iteration[r]]

LEMMA StepWorkInv ==
  ASSUME Inductive, WorkInv, [Next]_vars
  PROVE  WorkInv'
<1> SUFFICES ASSUME NEW r \in Request
             PROVE  processed'[r] = IF phase' = "running" /\ r \in selected'
                                    THEN WorkUpTo[iteration'[r] + 1]
                                    ELSE WorkUpTo[iteration'[r]]
  BY DEF WorkInv, WorkUpTo, WidthAt
<1> USE DEF Inductive
<1>0. /\ iteration \in [Request -> Nat] /\ processed \in [Request -> Nat]
      /\ iteration[r] \in Nat
      /\ processed[r] = IF phase = "running" /\ r \in selected
                        THEN WorkUpTo[iteration[r] + 1] ELSE WorkUpTo[iteration[r]]
  BY DEF TypeOK, TypeOKWorkload, TypeOKServing, WorkInv
<1>1. CASE StartBatch
  <2>1. WorkUpTo[iteration[r] + 1] = WorkUpTo[iteration[r]] + WidthAt(iteration[r])
    BY <1>0, WorkUpToIs
  <2>2. /\ phase = "selected" /\ phase' = "running" /\ iteration' = iteration
        /\ selected' = selected
        /\ processed'[r] = IF r \in selected THEN processed[r] + WidthAt(iteration[r])
                                             ELSE processed[r]
    BY <1>0, <1>1 DEF StartBatch, workloadVars, ActivePositions
  <2> QED BY <1>0, <2>1, <2>2
<1>2. CASE ExecuteBatch
  BY <1>0, <1>2 DEF ExecuteBatch, Finalize
<1>3. CASE CallScheduler \/ ExtendBatch \/ CloseBatch \/ ExceedLimit \/ AwaitArrival
           \/ Finish \/ UNCHANGED vars
  <2>1. /\ UNCHANGED <<iteration, processed>>
        /\ phase # "running" \/ UNCHANGED selected
        /\ phase' = "running" <=> phase = "running"
    BY <1>3, CallBegins
    DEF CallScheduler, EnterLoop, ExtendBatch, CloseBatch, ExceedLimit, AwaitArrival, Finish,
        vars, workloadVars, simulatorVars, selectionVars
  <2> QED BY <1>0, <2>1
<1> QED BY <1>1, <1>2, <1>3 DEF Next, Finished

(* Scheduling changes no decode semantics: for every schedule, the positions
   processed for a request are those of the iterations it has run, whatever the
   batches it ran in. *)
THEOREM WorkFollowsProgress == Spec => []WorkIndependentOfBatching
<1>1. Init => WorkInv
  <2> SUFFICES ASSUME Init, NEW r \in Request
               PROVE  processed[r] = WorkUpTo[iteration[r]] /\ phase # "running"
    BY DEF WorkInv
  <2>1. WorkUpTo[0] = 0
    <3>1. 0 \in Nat
      OBVIOUS
    <3> QED BY <3>1, WorkUpToIs
  <2> QED BY <2>1 DEF Init, InitWorkload
<1>2. Inductive /\ WorkInv /\ [Next]_vars => WorkInv'
  BY StepWorkInv
<1>3. WorkInv => WorkIndependentOfBatching
  BY DEF WorkInv, WorkIndependentOfBatching
<1> QED BY InductiveInvariant, <1>1, <1>2, <1>3, PTL DEF Spec
=============================================================================
