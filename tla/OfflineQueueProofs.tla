------------------------- MODULE OfflineQueueProofs -------------------------
(***************************************************************************)
(* Proofs about module OfflineQueue, for every value of its constants: its *)
(* types and bounds, the inductive invariant behind DirectKept and         *)
(* InOrderKept, table by table, with the steps that preserve it, and what  *)
(* follows from it: nothing owed to a device is lost, its marks only move  *)
(* forward, and the sequence numbers agree with the order of the rows.     *)
(***************************************************************************)
EXTENDS OfflineQueue, WellFoundedInduction, TLAPS

RequestBounded(t) ==
  \A ax \in Axis :
    /\ t.floor[ax] <= high[ax] /\ t.goal[ax] <= nextId[ax]
    /\ t.pc = "commit" => t.goal[ax] <= high[ax] /\ t.cut[ax] <= high[ax]

\* Marks, floors and goals are bounded by the ids handed out, so the maxima
\* and minima that account_watermark, _acked_prefix and _reap_below_min take
\* exist.
Bounded ==
  /\ rows \subseteq history
  /\ \A r \in pending \cup history : r.id <= nextId[r.axis]
  /\ \A ax \in Axis :
       /\ high[ax] <= nextId[ax]
       /\ \A d \in Device : mark[d][ax] <= high[ax]
  /\ \A p \in Request : RequestBounded(req[p])

Typed == TypeOK /\ Bounded

-----------------------------------------------------------------------------
(* What the operators of the model return.                                 *)

\* A non-empty set of naturals has a least element, and Min picks it.  Used
\* for the reap floor of _reap_below_min.
LEMMA MinOfNaturals ==
  ASSUME NEW S, S \subseteq Nat, S # {}
  PROVE  Min(S) \in S /\ \A x \in S : Min(S) <= x
<1>1. PICK m \in S : \A y \in S : ~ (<<y, m>> \in OpToRel(<, Nat))
  BY Zenon, NatLessThanWellFounded, WFMin
<1>2. \A y \in S : y < m => <<y, m>> \in OpToRel(<, Nat)
  BY Zenon DEF OpToRel
<1>3. \A y \in S : ~ (y < m)
  BY <1>1, <1>2, Zenon
<1>4. \A y \in S : m <= y
  BY <1>3
<1>. QED  BY Zenon, <1>4 DEF Min

\* A non-empty bounded set of naturals has a greatest element, and Max picks
\* it.  Used for account_watermark and _acked_prefix.
LEMMA MaxOfNaturals ==
  ASSUME NEW S, S \subseteq Nat, S # {}, NEW n \in Nat, \A x \in S : x <= n
  PROVE  Max(S) \in S /\ \A x \in S : x <= Max(S)
<1>. DEFINE T == {n - x : x \in S}
<1>1. T \subseteq Nat /\ T # {}
  <2>1. \A x \in S : n - x \in Nat
    OBVIOUS
  <2>2. PICK x \in S : TRUE
    BY Zenon
  <2>. QED  BY Zenon, <2>1, <2>2
<1>2. Min(T) \in T /\ \A t \in T : Min(T) <= t
  BY Zenon, <1>1, MinOfNaturals
<1>3. PICK m \in S : Min(T) = n - m
  BY Zenon, <1>2
<1>4. \A y \in S : n - m <= n - y
  BY Zenon, <1>2, <1>3
<1>5. \A y \in S : m >= y
  <2>. TAKE y \in S
  <2>. m \in Nat /\ y \in Nat /\ n - m <= n - y
    BY Zenon, <1>4
  <2>. QED  OBVIOUS
<1>. QED  BY Zenon, <1>5 DEF Max

\* The larger of two naturals is a natural and bounds both.
LEMMA LargerFact ==
  ASSUME NEW m \in Nat, NEW n \in Nat
  PROVE  /\ Larger(m, n) \in Nat /\ Larger(m, n) >= m /\ Larger(m, n) >= n
         /\ Larger(m, n) = m \/ Larger(m, n) = n
BY DEF Larger

\* The account watermark is a pair of naturals no larger than high.
LEMMA WatermarkFact ==
  ASSUME Typed
  PROVE  account_watermark \in Marks /\ \A ax \in Axis : account_watermark[ax] <= high[ax]
<1>. SUFFICES ASSUME NEW ax \in Axis
              PROVE  account_watermark[ax] \in Nat /\ account_watermark[ax] <= high[ax]
  BY Zenon DEF account_watermark, Marks
<1>. DEFINE S == {0} \cup {mark[d][ax] : d \in cursors}
<1>1. S \subseteq Nat /\ S # {} /\ high[ax] \in Nat
  BY DEF Typed, TypeOK, Marks
<1>2. \A x \in S : x <= high[ax]
  BY DEF Typed, TypeOK, Bounded, Marks
<1>3. Max(S) \in S
  BY Zenon, <1>1, <1>2, MaxOfNaturals
<1>4. account_watermark[ax] = Max(S)
  BY Zenon DEF account_watermark
<1>. QED  BY Zenon, <1>1, <1>2, <1>3, <1>4

\* A drain starts from a floor no larger than high.
LEMMA FloorFact ==
  ASSUME Typed, NEW d \in Device
  PROVE  drain_floor(d) \in Marks /\ \A ax \in Axis : drain_floor(d)[ax] <= high[ax]
BY Zenon, WatermarkFact DEF drain_floor, Typed, TypeOK, Bounded, Marks

\* An upsert leaves marks at or above the applied ones and, for an existing
\* cursor, at or above the old ones.
LEMMA UpsertFact ==
  ASSUME Typed, NEW d \in Device, NEW apply \in Marks, NEW seed \in Marks
  PROVE  /\ upsert_cursor(d, apply, seed) \in Marks
         /\ \A ax \in Axis :
              LET m == upsert_cursor(d, apply, seed)[ax] IN
              /\ m >= apply[ax]
              /\ d \in cursors => m >= mark[d][ax] /\ m \in {apply[ax], mark[d][ax]}
              /\ d \notin cursors => m >= seed[ax] /\ m \in {apply[ax], seed[ax]}
<1>1. ASSUME NEW ax \in Axis
      PROVE  apply[ax] \in Nat /\ seed[ax] \in Nat /\ mark[d][ax] \in Nat
  BY Zenon DEF Typed, TypeOK, Marks
<1>2. ASSUME NEW ax \in Axis
      PROVE  upsert_cursor(d, apply, seed)[ax] =
               IF d \in cursors THEN Larger(mark[d][ax], apply[ax]) ELSE Larger(apply[ax], seed[ax])
  BY Zenon DEF upsert_cursor
<1>3. upsert_cursor(d, apply, seed) \in Marks
  BY Zenon, <1>1, LargerFact DEF upsert_cursor, Marks
<1>. QED  BY Zenon, <1>1, <1>2, <1>3, LargerFact

\* The acked prefix ends at the floor or at a row above it, and every row the
\* device is served up to that end was acked.
LEMMA PrefixFact ==
  ASSUME Typed, NEW d \in Device, NEW ax \in Axis, NEW floor \in Marks,
         floor[ax] <= nextId[ax], NEW acked
  PROVE  LET n == acked_prefix(d, ax, floor, acked) IN
         /\ n \in Nat /\ n <= nextId[ax]
         /\ n = floor[ax] \/ \E r \in OnAxis(rows, ax) : n = r.id
         /\ \A r \in OnAxis(Above(d, floor), ax) : r.id <= n => r \in acked
<1>. DEFINE served == OnAxis(Above(d, floor), ax)
            ends == {i \in {floor[ax]} \cup {r.id : r \in served} :
                       \A r \in served : r.id <= i => r \in acked}
<1>1. \A r \in served : r \in OnAxis(rows, ax) /\ r.id \in Nat /\ r.id > floor[ax] /\ r.id <= nextId[ax]
  BY Zenon DEF OnAxis, Above, Typed, TypeOK, Bounded, Row
<1>2. floor[ax] \in Nat /\ nextId[ax] \in Nat
  BY Zenon DEF Typed, TypeOK, Marks
<1>3. floor[ax] \in ends
  BY <1>1, <1>2
<1>4. ends \subseteq Nat /\ \A x \in ends : x <= nextId[ax]
  BY Zenon, <1>1, <1>2
<1>5. Max(ends) \in ends
  BY Zenon, <1>2, <1>3, <1>4, MaxOfNaturals
<1>6. acked_prefix(d, ax, floor, acked) = Max(ends)
  BY Zenon DEF acked_prefix
<1>. QED  BY Zenon, <1>1, <1>4, <1>5, <1>6

\* The goal of a drain-on-fetch is the floor or the id of a row it returned,
\* and no row it returned lies above it.
LEMMA DrainFact ==
  ASSUME Typed, NEW d \in Device, NEW ax \in Axis, NEW floor \in Marks,
         floor[ax] <= nextId[ax]
  PROVE  LET S == OnAxis(Above(d, floor), ax)
             n == Max({floor[ax]} \cup {r.id : r \in S})
         IN  /\ n \in Nat /\ n <= nextId[ax]
             /\ n = floor[ax] \/ \E r \in OnAxis(rows, ax) : n = r.id
<1>. DEFINE S == OnAxis(Above(d, floor), ax)
            ids == {floor[ax]} \cup {r.id : r \in S}
<1>1. \A r \in S : r \in OnAxis(rows, ax) /\ r.id \in Nat /\ r.id <= nextId[ax]
  BY Zenon DEF OnAxis, Above, Typed, TypeOK, Bounded, Row
<1>2. floor[ax] \in Nat /\ nextId[ax] \in Nat
  BY Zenon DEF Typed, TypeOK, Marks
<1>3. ids \subseteq Nat /\ ids # {} /\ \A x \in ids : x <= nextId[ax]
  BY Zenon, <1>1, <1>2
<1>4. Max(ids) \in ids
  BY Zenon, <1>2, <1>3, MaxOfNaturals
<1>. QED  BY Zenon, <1>1, <1>3, <1>4

-----------------------------------------------------------------------------
(* Typed is inductive.                                                     *)

\* The idle request and the zero marks are of their types.
LEMMA IdleTyped == Idle \in RequestState /\ Zero \in Marks /\ \A ax \in Axis : Zero[ax] = 0
BY Zenon DEF Idle, RequestState, Zero, Marks

\* The initial state is typed.
LEMMA InitTyped == Init => Typed
<1>. SUFFICES ASSUME Init PROVE Typed
  BY Zenon
<1>1. TypeOK
  BY Zenon, IdleTyped DEF Init, TypeOK
<1>2. Bounded
  BY IdleTyped DEF Init, Bounded, RequestBounded, Idle
<1>. QED  BY Zenon, <1>1, <1>2 DEF Typed

\* Inserting a row preserves the types and the bounds.
LEMMA InsertTyped ==
  ASSUME Typed, NEW ax \in Axis, NEW to \in Slot \cup {AnySlot}, NEW seq \in Nat,
         Insert(ax, to, seq)
  PROVE  Typed'
<1>. DEFINE r == [axis |-> ax, id |-> nextId[ax] + 1, to |-> to, seq |-> seq, at |-> clock]
<1>1. r \in Row /\ nextId[ax] \in Nat /\ pending' = pending \cup {r}
  BY DEF Insert, Typed, TypeOK, Row, Marks
<1>2. nextId' \in Marks /\ \A x \in Axis : nextId'[x] >= nextId[x] /\ nextId'[ax] = nextId[ax] + 1
  BY DEF Insert, Typed, TypeOK, Marks
<1>3. TypeOK'
  BY Zenon, <1>1, <1>2 DEF Insert, Typed, TypeOK, cursorVars
<1>4. \A s \in pending' \cup history' : s.id <= nextId'[s.axis]
  BY <1>1, <1>2 DEF Insert, Typed, TypeOK, Bounded, Row, Marks
<1>5. ASSUME NEW p \in Request
      PROVE  RequestBounded(req[p])'
  <2>1. \A x \in Axis : req[p].goal[x] \in Nat /\ nextId[x] \in Nat /\ nextId'[x] \in Nat
    BY <1>2 DEF Typed, TypeOK, RequestState, Marks
  <2>2. RequestBounded(req[p]) /\ high' = high /\ req' = req
    BY Zenon DEF Insert, Typed, Bounded, cursorVars
  <2>. QED  BY <1>2, <2>1, <2>2 DEF RequestBounded
<1>6. \A x \in Axis : high[x] <= nextId'[x]
  BY <1>2 DEF Typed, TypeOK, Bounded, Marks
<1>7. Bounded'
  BY Zenon, <1>4, <1>5, <1>6 DEF Insert, Typed, Bounded, cursorVars
<1>. QED  BY Zenon, <1>3, <1>7 DEF Typed

\* A step that only moves one request on, to a bounded state, preserves them.
LEMMA RequestStepTyped ==
  ASSUME Typed, NEW p \in Request, NEW t \in RequestState, RequestBounded(t), StepTo(p, t),
         UNCHANGED <<clock, deposits, rows, expired, cursorVars, revoked>>,
         taken' \in [Device -> SUBSET Row]
  PROVE  Typed'
<1>1. TypeOK'
  BY Zenon DEF StepTo, Typed, TypeOK, cursorVars, deposits
<1>2. Bounded'
  BY Zenon DEF StepTo, Typed, TypeOK, Bounded, RequestBounded, cursorVars, deposits
<1>. QED  BY Zenon, <1>1, <1>2 DEF Typed

\* What _advance_cursor computes before its DELETEs: the new marks of its own
\* cursor, and a reap floor no surviving cursor lies below.
LEMMA AdvanceFact ==
  ASSUME Typed, NEW p \in Request, Advance(p)
  PROVE  LET d == DeviceOf[p]
             t == req'[p]
         IN
         /\ StepTo(p, t) /\ t \in RequestState /\ t.pc = "commit"
         /\ t.floor = req[p].floor /\ t.seen = req[p].seen /\ d \notin t.drop
         /\ high' \in Marks
         /\ \A ax \in Axis :
              /\ high[ax] <= high'[ax] /\ high'[ax] <= nextId[ax]
              /\ high'[ax] \in {high[ax], req[p].goal[ax]}
              /\ t.goal[ax] <= high'[ax] /\ t.cut[ax] <= t.goal[ax]
              /\ d \in cursors => t.goal[ax] >= mark[d][ax] /\ t.goal[ax] \in {req[p].goal[ax], mark[d][ax]}
              /\ d \notin cursors => t.goal[ax] = req[p].goal[ax] \/ t.goal[ax] <= high[ax]
              /\ \A e \in cursors \ t.drop : e # d => t.cut[ax] <= mark[e][ax]
<1>. USE QueueAssumption
<1>. DEFINE d == DeviceOf[p]
            seed == IF req[p].found # {} \/ d \in cursors THEN Zero ELSE account_watermark
            m == upsert_cursor(d, req[p].goal, seed)
            C == cursors \cup {d}
            mk == [mark EXCEPT ![d] = m]
            drop == Dropped(C, [stamp EXCEPT ![d] = clock])
            cut == [ax \in Axis |-> Min({mk[e][ax] : e \in C \ drop})]
            t == [req[p] EXCEPT !.pc = "commit", !.goal = m, !.drop = drop, !.cut = cut]
<1>1. d \in Device /\ req[p] \in RequestState /\ req[p].goal \in Marks /\ C \subseteq Device
  BY Zenon DEF Typed, TypeOK, RequestState
<1>2. seed \in Marks /\ \A ax \in Axis : seed[ax] <= high[ax]
  BY WatermarkFact, IdleTyped DEF Typed, TypeOK, Marks
<1>3. /\ m \in Marks
      /\ \A ax \in Axis :
           /\ d \in cursors => m[ax] >= mark[d][ax] /\ m[ax] \in {req[p].goal[ax], mark[d][ax]}
           /\ m[ax] \in {req[p].goal[ax], mark[d][ax], seed[ax]}
           /\ d \notin cursors => m[ax] \in {req[p].goal[ax], seed[ax]}
  <2>. HIDE DEF seed
  <2>. QED  BY <1>1, <1>2, UpsertFact
<1>4. drop \subseteq C /\ d \notin drop
  <2>1. [stamp EXCEPT ![d] = clock][d] = clock /\ clock \in Nat
    BY Zenon, <1>1 DEF Typed, TypeOK
  <2>. QED  BY <2>1 DEF Dropped
<1>. HIDE DEF m, seed, drop
<1>5. mk \in [Device -> Marks] /\ mk[d] = m /\ \A e \in Device : e # d => mk[e] = mark[e]
  BY Zenon, <1>1, <1>3 DEF Typed, TypeOK
<1>. HIDE DEF mk
<1>6. ASSUME NEW ax \in Axis
      PROVE  cut[ax] \in Nat /\ cut[ax] <= m[ax] /\ \A e \in C \ drop : cut[ax] <= mk[e][ax]
  <2>. DEFINE S == {mk[e][ax] : e \in C \ drop}
  <2>1. S \subseteq Nat /\ m[ax] \in S
    BY <1>1, <1>4, <1>5 DEF Marks
  <2>2. Min(S) \in S /\ \A x \in S : Min(S) <= x
    BY ZenonT(30), <2>1, MinOfNaturals
  <2>3. cut[ax] = Min(S)
    BY Zenon
  <2>. QED  BY <2>1, <2>2, <2>3
<1>7. cut \in Marks
  BY Zenon, <1>6 DEF Marks
<1>8. \A e \in cursors \ drop : e # d => \A ax \in Axis : cut[ax] <= mark[e][ax]
  BY Zenon, <1>1, <1>5, <1>6
<1>. HIDE DEF cut
<1>9. StepTo(p, t) /\ high' = [ax \in Axis |-> Larger(high[ax], m[ax])]
  BY Zenon DEF Advance, m, seed, drop, cut, mk
<1>10. req'[p] = t
  BY Zenon, <1>9 DEF StepTo, Typed, TypeOK
<1>11. t \in RequestState /\ t.pc = "commit" /\ t.goal = m /\ t.drop = drop /\ t.cut = cut
       /\ t.floor = req[p].floor /\ t.seen = req[p].seen
  BY Zenon, <1>1, <1>3, <1>4, <1>7 DEF RequestState
<1>12. ASSUME NEW ax \in Axis
       PROVE  /\ high'[ax] \in Nat /\ high[ax] <= high'[ax] /\ high'[ax] <= nextId[ax]
              /\ high'[ax] \in {high[ax], req[p].goal[ax]} /\ m[ax] <= high'[ax]
  <2>1. /\ high[ax] \in Nat /\ nextId[ax] \in Nat /\ m[ax] \in Nat /\ high[ax] <= nextId[ax]
        /\ mark[d][ax] \in Nat /\ mark[d][ax] <= high[ax] /\ seed[ax] <= high[ax]
        /\ req[p].goal[ax] \in Nat /\ req[p].goal[ax] <= nextId[ax] /\ seed[ax] \in Nat
    BY Zenon, <1>1, <1>2, <1>3 DEF Typed, TypeOK, Bounded, RequestBounded, Marks
  <2>2. high'[ax] = IF high[ax] >= m[ax] THEN high[ax] ELSE m[ax]
    BY Zenon, <1>9 DEF Larger
  <2>3. m[ax] \in {req[p].goal[ax], mark[d][ax], seed[ax]}
    BY Zenon, <1>3
  <2>. QED  BY <2>1, <2>2, <2>3
<1>13. high' \in Marks
  BY Zenon, <1>9, <1>12 DEF Marks
<1>. HIDE DEF t
<1>. QED  BY Zenon, <1>2, <1>3, <1>4, <1>6, <1>8, <1>9, <1>10, <1>11, <1>12, <1>13

\* Every step preserves the types and the bounds.
LEMMA NextTyped == Typed /\ [Next]_vars => Typed'
<1>. SUFFICES ASSUME Typed, [Next]_vars PROVE Typed'
  BY Zenon
<1>. USE QueueAssumption
<1>1. ASSUME NEW to \in Addressee, DepositDirect(to) PROVE Typed'
  BY <1>1, InsertTyped DEF DepositDirect, Axis, Typed, TypeOK
<1>2. CASE DepositGroup
  BY Zenon, <1>2, InsertTyped DEF DepositGroup, Axis
<1>3. ASSUME NEW r \in pending, CommitDeposit(r) PROVE Typed'
  BY Zenon, <1>3 DEF CommitDeposit, Typed, TypeOK, Bounded, RequestBounded, Row, cursorVars
<1>4. ASSUME NEW r \in pending, RollbackDeposit(r) PROVE Typed'
  BY Zenon, <1>4 DEF RollbackDeposit, Typed, TypeOK, Bounded, RequestBounded, cursorVars
<1>5. ASSUME NEW p \in Request, NEW job \in JobsOf[p], Begin(p, job) PROVE Typed'
  <2>. DEFINE d == DeviceOf[p]
              t(c) == [Idle EXCEPT !.pc = c, !.job = job, !.found = cursors \cap {d},
                                   !.floor = drain_floor(d)]
  <2>1. d \in Device /\ drain_floor(d) \in Marks /\ \A ax \in Axis : drain_floor(d)[ax] <= high[ax]
    BY Zenon, FloorFact
  <2>2. PICK c \in {"prefix", "read", "pin"} : StepTo(p, t(c))
    BY Zenon, <1>5 DEF Begin
  <2>3. job \in {"fetch", "drain", "ack"} /\ cursors \cap {d} \in SUBSET Device
    BY Zenon, <2>1
  <2>4. t(c) \in RequestState
    BY Zenon, <2>1, <2>3, IdleTyped DEF Idle, RequestState
  <2>5. RequestBounded(t(c))
    BY <2>1, IdleTyped DEF RequestBounded, Idle, Typed, TypeOK, Marks
  <2>6. taken' \in [Device -> SUBSET Row]
    BY Zenon, <1>5 DEF Begin, Typed, TypeOK
  <2>. HIDE DEF t
  <2>. QED  BY Zenon, <1>5, <2>2, <2>4, <2>5, <2>6, RequestStepTyped DEF Begin
<1>6. ASSUME NEW p \in Request, Pin(p) PROVE Typed'
  <2>. DEFINE d == DeviceOf[p]
              m == upsert_cursor(d, Zero, req[p].floor)
              t == req'[p]
  <2>1. d \in Device /\ req[p].floor \in Marks /\ req[p] \in RequestState
    BY Zenon DEF Typed, TypeOK, RequestState
  <2>11. \A ax \in Axis : /\ mark[d][ax] <= high[ax] /\ req[p].floor[ax] <= high[ax]
                          /\ Zero[ax] <= high[ax] /\ high[ax] \in Nat
    BY <2>1, IdleTyped DEF Typed, TypeOK, Bounded, RequestBounded, Marks
  <2>2. m \in Marks /\ \A ax \in Axis : m[ax] <= high[ax]
    BY <2>1, <2>11, UpsertFact, IdleTyped
  <2>3. high' = high
    BY Zenon, <1>6, <2>2 DEF Pin, Larger, Typed, TypeOK, Marks
  <2>4. req' = [req EXCEPT ![p] = t] /\ t \in RequestState /\ t.pc = "read" /\ t.goal = req[p].goal
        /\ t.floor = m
    BY Zenon, <1>6, <2>1, <2>2 DEF Pin, StepTo, RequestState, Typed, TypeOK
  <2>5. TypeOK'
    BY Zenon, <1>6, <2>1, <2>2, <2>3, <2>4 DEF Pin, Typed, TypeOK, deposits
  <2>6. Bounded'
    BY <1>6, <2>1, <2>2, <2>3, <2>4 DEF Pin, Typed, TypeOK, Bounded, RequestBounded, deposits
  <2>. QED  BY Zenon, <2>5, <2>6 DEF Typed
<1>7. ASSUME NEW p \in Request, FetchReply(p) PROVE Typed'
  <2>1. RequestBounded(Idle) /\ Idle \in RequestState
    BY IdleTyped DEF RequestBounded, Idle, Typed, TypeOK, Marks
  <2>2. taken' \in [Device -> SUBSET Row]
    BY <1>7 DEF FetchReply, Above, Typed, TypeOK
  <2>. QED  BY Zenon, <1>7, <2>1, <2>2, RequestStepTyped DEF FetchReply
<1>8. ASSUME NEW p \in Request, DrainRead(p) PROVE Typed'
  <2>. DEFINE d == DeviceOf[p]
              f == req[p].floor
              S == Above(d, f)
              g == [ax \in Axis |-> Max({f[ax]} \cup {r.id : r \in OnAxis(S, ax)})]
              t == [req[p] EXCEPT !.pc = "advance", !.seen = S, !.goal = g]
  <2>1. /\ d \in Device /\ f \in Marks /\ req[p] \in RequestState
        /\ S \in SUBSET Row /\ RequestBounded(req[p])
        /\ \A ax \in Axis : f[ax] <= nextId[ax]
    BY DEF Above, Typed, TypeOK, Bounded, RequestState, RequestBounded, Marks
  <2>2. g \in Marks /\ \A ax \in Axis : g[ax] <= nextId[ax]
    BY Zenon, <2>1, DrainFact DEF Marks
  <2>. HIDE DEF g, S
  <2>3. t \in RequestState
    BY Zenon, <2>1, <2>2 DEF RequestState
  <2>4. RequestBounded(t)
    BY Zenon, <2>1, <2>2 DEF RequestBounded, RequestState
  <2>5. StepTo(p, t) /\ taken' = taken
    BY Zenon, <1>8 DEF DrainRead, g, S
  <2>. QED  BY Zenon, <1>8, <2>3, <2>4, <2>5, RequestStepTyped DEF DrainRead, Typed, TypeOK
<1>9. ASSUME NEW p \in Request, AckPrefix(p) PROVE Typed'
  <2>. DEFINE d == DeviceOf[p]
              f == req[p].floor
              g(acked) == [ax \in Axis |-> acked_prefix(d, ax, f, acked)]
              t(acked) == [req[p] EXCEPT !.pc = "advance", !.goal = g(acked)]
  <2>1. /\ d \in Device /\ f \in Marks /\ req[p] \in RequestState
        /\ RequestBounded(req[p])
        /\ \A ax \in Axis : f[ax] <= nextId[ax]
    BY SMTT(30) DEF Typed, TypeOK, Bounded, RequestState, RequestBounded, Marks
  <2>2. PICK acked \in SUBSET taken[d] : StepTo(p, t(acked))
    BY Zenon, <1>9 DEF AckPrefix
  <2>3. g(acked) \in Marks /\ \A ax \in Axis : g(acked)[ax] <= nextId[ax]
    BY ZenonT(30), <2>1, PrefixFact DEF Marks
  <2>. HIDE DEF g
  <2>4. t(acked) \in RequestState
    BY ZenonT(30), <2>1, <2>3 DEF RequestState
  <2>5. RequestBounded(t(acked))
    BY Zenon, <2>1, <2>3 DEF RequestBounded, RequestState
  <2>. HIDE DEF t
  <2>. QED  BY Zenon, <1>9, <2>2, <2>4, <2>5, RequestStepTyped DEF AckPrefix, Typed, TypeOK
<1>10. ASSUME NEW p \in Request, Advance(p) PROVE Typed'
  <2>. DEFINE t == req'[p]
  <2>1. StepTo(p, t) /\ t \in RequestState /\ high' \in Marks
    BY Zenon, <1>10, AdvanceFact
  <2>2. \A ax \in Axis : /\ high[ax] <= high'[ax] /\ high'[ax] <= nextId[ax]
                         /\ high[ax] \in Nat /\ high'[ax] \in Nat /\ nextId[ax] \in Nat
    BY Zenon, <1>10, AdvanceFact DEF Typed, TypeOK, Marks
  <2>3. TypeOK'
    BY Zenon, <1>10, <2>1 DEF Advance, StepTo, Typed, TypeOK, deposits
  <2>4. RequestBounded(req[p])'
    <3>1. \A ax \in Axis : /\ t.goal[ax] <= high'[ax] /\ t.cut[ax] <= t.goal[ax]
                           /\ t.floor[ax] = req[p].floor[ax] /\ req[p].floor[ax] <= high[ax]
                           /\ t.goal[ax] \in Nat /\ t.cut[ax] \in Nat /\ t.floor[ax] \in Nat
      BY Zenon, <1>10, <2>1, AdvanceFact DEF Typed, Bounded, RequestBounded, RequestState, Marks
    <3>2. nextId' = nextId
      BY Zenon, <1>10 DEF Advance, deposits
    <3>. QED  BY SMTT(30), <2>2, <3>1, <3>2 DEF RequestBounded
  <2>5. ASSUME NEW q \in Request, q # p PROVE RequestBounded(req[q])'
    <3>1. req'[q] = req[q] /\ nextId' = nextId /\ RequestBounded(req[q]) /\ req[q] \in RequestState
      BY Zenon, <1>10, <2>1, <2>5 DEF Advance, StepTo, deposits, Typed, TypeOK, Bounded
    <3>. QED  BY <2>2, <3>1 DEF RequestBounded, RequestState, Marks
  <2>6. \A ax \in Axis : \A d \in Device : mark[d][ax] <= high'[ax]
    BY <2>2 DEF Typed, TypeOK, Bounded, Marks
  <2>7. \A q \in Request : RequestBounded(req[q])'
    BY Zenon, <2>4, <2>5
  <2>8. Bounded'
    BY Zenon, <1>10, <2>2, <2>6, <2>7 DEF Advance, Typed, Bounded, deposits
  <2>. QED  BY Zenon, <2>3, <2>8 DEF Typed
<1>11. ASSUME NEW p \in Request, Commit(p) PROVE Typed'
  <2>. DEFINE t == req[p]
  <2>1. /\ t \in RequestState /\ RequestBounded(t) /\ t.pc = "commit"
        /\ RequestBounded(Idle) /\ Idle \in RequestState
    <3>1. t \in RequestState /\ RequestBounded(t)
      BY Zenon DEF Typed, TypeOK, Bounded
    <3>2. t.pc = "commit"
      BY Zenon, <1>11 DEF Commit
    <3>3. \A ax \in Axis : Idle.floor[ax] = 0 /\ Idle.goal[ax] = 0 /\ Idle.pc # "commit"
      BY Zenon, IdleTyped DEF Idle
    <3>4. \A ax \in Axis : high[ax] \in Nat /\ nextId[ax] \in Nat
      BY Zenon DEF Typed, TypeOK, Marks
    <3>5. RequestBounded(Idle)
      BY <3>3, <3>4 DEF RequestBounded
    <3>. QED  BY Zenon, <3>1, <3>2, <3>5, IdleTyped
  <2>2. mark' \in [Device -> Marks] /\ \A e \in Device : mark'[e] \in {Zero, t.goal, mark[e]}
    BY ZenonT(30), <1>11, <2>1, IdleTyped DEF Commit, RequestState, Typed, TypeOK
  <2>3. stamp' \in [Device -> Nat] /\ base' \in [Device -> Marks] /\ taken' \in [Device -> SUBSET Row]
    BY ZenonT(30), <1>11, <2>1, IdleTyped DEF Commit, RequestState, Typed, TypeOK
  <2>4. TypeOK'
    BY <1>11, <2>1, <2>2, <2>3 DEF Commit, CursorsLeft, StepTo, RequestState, Typed, TypeOK, deposits
  <2>5. \A ax \in Axis, e \in Device : mark'[e][ax] <= high[ax]
    <3>. TAKE ax \in Axis, e \in Device
    <3>1. Zero[ax] <= high[ax] /\ t.goal[ax] <= high[ax] /\ mark[e][ax] <= high[ax]
      BY SMTT(30), <2>1, IdleTyped DEF RequestBounded, Typed, TypeOK, Bounded, Marks
    <3>. QED  BY Zenon, <2>2, <3>1
  <2>6. \A q \in Request : RequestBounded(req[q])'
    BY Zenon, <1>11, <2>1 DEF Commit, CursorsLeft, StepTo, Typed, TypeOK, Bounded, RequestBounded, deposits
  <2>7. Bounded'
    BY Zenon, <1>11, <2>5, <2>6 DEF Commit, CursorsLeft, Typed, Bounded, deposits
  <2>. QED  BY Zenon, <2>4, <2>7 DEF Typed
<1>12. ASSUME NEW p \in Request, Abort(p) PROVE Typed'
  <2>1. RequestBounded(Idle) /\ Idle \in RequestState
    BY IdleTyped DEF RequestBounded, Idle, Typed, TypeOK, Marks
  <2>. QED  BY Zenon, <1>12, <2>1, RequestStepTyped DEF Abort, Typed, TypeOK
<1>13. ASSUME NEW d \in Device, Revoke(d) PROVE Typed'
  BY <1>13, IdleTyped DEF Revoke, Typed, TypeOK, Bounded, RequestBounded, Marks, deposits
<1>14. ASSUME NEW ax \in Axis, SweepExpired(ax) PROVE Typed'
  BY Zenon, <1>14 DEF SweepExpired, OnAxis, Typed, TypeOK, Bounded, RequestBounded, cursorVars, deposits
<1>15. CASE Tick
  BY <1>15 DEF Tick, Typed, TypeOK, Bounded, RequestBounded, cursorVars, deposits
<1>16. CASE UNCHANGED vars
  BY Zenon, <1>16 DEF vars, Typed, TypeOK, Bounded, RequestBounded, cursorVars, deposits
<1>. QED
  BY Zenon, <1>1, <1>2, <1>3, <1>4, <1>5, <1>6, <1>7, <1>8, <1>9, <1>10, <1>11, <1>12,
     <1>13, <1>14, <1>15, <1>16 DEF Next

\* The types of TypeOK hold in every reachable state.
THEOREM TypeCorrect == Spec => []TypeOK
<1>1. Typed => TypeOK
  BY Zenon DEF Typed
<1>. QED  BY <1>1, InitTyped, NextTyped, PTL DEF Spec

-----------------------------------------------------------------------------
(* The inductive invariant behind InOrderKept, table by table.             *)

\* The committed rows of a table that committed in the order of their ids, and
\* the rows in flight that would, were they to commit now.
InOrder(ax) == OnAxis(history \ late, ax)
Fresh(ax) == {r \in OnAxis(pending, ax) : \A s \in OnAxis(history, ax) : s.id < r.id}

KeptOn(ax) == Kept(history \ late, ax)

\* Envelope r of table ax need no longer be served to d, given that d also
\* takes S.
Settled(d, r, S, ax) ==
  \/ r \in taken[d] \cup S
  \/ r \in expired
  \/ r.id <= high[ax] /\ (d \in cursors => r.id <= base[d][ax])

\* Moving d's mark on ax to n, after d took S, passes settled envelopes only.
Covered(d, n, S, ax) ==
  \A r \in InOrder(ax) : Visible(d, r) /\ r.id <= n => Settled(d, r, S, ax)

\* A row that will commit in order lies above every mark and every goal, and
\* what lies above every mark is still there.
Ordered(ax) ==
  /\ \A r \in Fresh(ax) : high[ax] < r.id /\ \A p \in Request : req[p].goal[ax] < r.id
  /\ \A r \in InOrder(ax) : r.id > high[ax] => r \in rows \cup expired

\* The autoincrement gives every row an id of its own; the mailbox lock keeps
\* a 1:1 row in flight alone and above every 1:1 row that committed, so none
\* of those is ever late.
Numbered ==
  /\ \A r \in pending : /\ \A s \in pending : s.axis = r.axis /\ s.id = r.id => s = r
                        /\ \A s \in history : s.axis = r.axis => s.id # r.id
  /\ \A r \in OnAxis(pending, "direct") : /\ \A s \in OnAxis(pending, "direct") : s = r
                                          /\ \A s \in OnAxis(history, "direct") : s.id < r.id
  /\ OnAxis(late, "direct") = {}

\* The cursor row lock: one transaction at a time has upserted a cursor, it
\* never drops its own, and it leaves the marks no lower than they are.
Locked ==
  \A p \in Request : req[p].pc = "commit" =>
    /\ DeviceOf[p] \notin req[p].drop
    /\ \A q \in Request : req[q].pc = "commit" /\ DeviceOf[q] = DeviceOf[p] => q = p
    /\ DeviceOf[p] \in cursors => \A ax \in Axis : mark[DeviceOf[p]][ax] <= req[p].goal[ax]

\* The floor, goal and reap floor a request holds stay safe to use, whatever
\* other requests do before it uses them.
RequestCovered(p, ax) ==
  LET d == DeviceOf[p]
      t == req[p]
  IN
  /\ t.pc # "idle" => Covered(d, t.floor[ax], {}, ax)
  /\ t.pc \in {"advance", "commit"} => Covered(d, t.goal[ax], t.seen, ax)
  /\ t.pc = "commit" =>
       \A e \in Device \ t.drop : Covered(e, t.cut[ax], IF e = d THEN t.seen ELSE {}, ax)

AxisInv(ax) == Ordered(ax) /\ KeptOn(ax) /\ \A p \in Request : RequestCovered(p, ax)

QueueInv == Typed /\ Numbered /\ Locked /\ \A ax \in Axis : AxisInv(ax)

\* Covered survives a step that commits no row up to n, forgets nothing taken
\* or expired, and creates cursors only at or above high.
LEMMA CoveredStays ==
  ASSUME Typed, Typed', NEW ax \in Axis, NEW d \in Device, NEW n \in Nat, NEW S, Covered(d, n, S, ax),
         \A r \in InOrder(ax)' : r.id <= n => r \in InOrder(ax),
         taken[d] \subseteq taken'[d], expired \subseteq expired',
         high[ax] <= high'[ax],
         d \in cursors' => \/ d \in cursors /\ base'[d] = base[d]
                           \/ base'[d][ax] >= high[ax]
  PROVE  \A r \in InOrder(ax)' : Visible(d, r) /\ r.id <= n =>
           \/ r \in taken'[d] \cup S
           \/ r \in expired'
           \/ r.id <= high'[ax] /\ (d \in cursors' => r.id <= base'[d][ax])
<1>. SUFFICES ASSUME NEW r \in InOrder(ax)', Visible(d, r), r.id <= n,
                     r \notin taken'[d] \cup S, r \notin expired'
              PROVE  r.id <= high'[ax] /\ (d \in cursors' => r.id <= base'[d][ax])
  BY Zenon
<1>1. r \in InOrder(ax) /\ r.id \in Nat
  BY Zenon DEF InOrder, Fresh, OnAxis, Typed, TypeOK, Row
<1>2. r.id <= high[ax] /\ (d \in cursors => r.id <= base[d][ax])
  BY Zenon, <1>1 DEF Covered, Settled
<1>3. high[ax] \in Nat /\ high'[ax] \in Nat
  BY Zenon DEF Typed, TypeOK, Marks
<1>4. base'[d][ax] \in Nat
  BY DEF Typed, TypeOK, Marks
<1>. QED  BY <1>1, <1>2, <1>3, <1>4

\* A mark an install with a cursor has reached covers everything below it.
LEMMA MarkCovered ==
  ASSUME Typed, NEW ax \in Axis, KeptOn(ax), NEW d \in cursors
  PROVE  Covered(d, mark[d][ax], {}, ax)
<1>. SUFFICES ASSUME NEW r \in InOrder(ax), Visible(d, r), r.id <= mark[d][ax]
              PROVE  Settled(d, r, {}, ax)
  BY Zenon DEF Covered
<1>1. d \in Device /\ r.id \in Nat /\ mark[d][ax] \in Nat /\ high[ax] \in Nat
      /\ mark[d][ax] <= high[ax]
  BY Zenon DEF InOrder, Fresh, OnAxis, Typed, TypeOK, Bounded, Row, Marks
<1>2. r.id <= high[ax]
  BY <1>1
<1>3. ~ (r.id > mark[d][ax])
  BY <1>1
<1>. QED  BY Zenon, <1>2, <1>3 DEF KeptOn, Kept, Settled, InOrder, Fresh

\* An install without a cursor is covered up to high.
LEMMA NoCursorCovered ==
  ASSUME Typed, NEW ax \in Axis, NEW d \in Device \ cursors, NEW n \in Nat, n <= high[ax], NEW S
  PROVE  Covered(d, n, S, ax)
<1>. SUFFICES ASSUME NEW r \in InOrder(ax), r.id <= n
              PROVE  r.id <= high[ax]
  BY Zenon DEF Covered, Settled
<1>. QED  BY DEF InOrder, Fresh, OnAxis, Typed, TypeOK, Row, Marks

\* Covered for a lower mark, and for more envelopes taken.
LEMMA CoveredWeaken ==
  ASSUME Typed, NEW ax \in Axis, NEW d \in Device, NEW n \in Nat, NEW k \in Nat, k <= n, NEW S, NEW T, S \subseteq T,
         Covered(d, n, S, ax)
  PROVE  Covered(d, k, T, ax)
<1>. SUFFICES ASSUME NEW r \in InOrder(ax), Visible(d, r), r.id <= k
              PROVE  Settled(d, r, T, ax)
  BY Zenon DEF Covered
<1>1. r.id \in Nat
  BY Zenon DEF InOrder, Fresh, OnAxis, Typed, TypeOK, Row
<1>2. Settled(d, r, S, ax)
  BY <1>1 DEF Covered
<1>. QED  BY Zenon, <1>2 DEF Settled

(* Envelope ids, marks and floors are naturals.  These facts about their order *)
(* are all the arithmetic the comparisons in the proofs below rest on.         *)

\* Two ids are comparable, and each way of writing the comparison agrees.
LEMMA IdOrder ==
  ASSUME NEW a \in Nat, NEW b \in Nat
  PROVE  /\ a <= b \/ a > b
         /\ ~ (a <= b /\ a > b)
         /\ ~ (a <= b /\ b < a)
         /\ a > b <=> b < a
         /\ a >= b <=> b <= a
         /\ a <= a /\ a >= a
OBVIOUS

\* An id below a mark is below every higher mark; one above it is above every
\* lower one.
LEMMA IdChain ==
  ASSUME NEW a \in Nat, NEW b \in Nat, NEW c \in Nat
  PROVE  /\ a <= b /\ b <= c => a <= c
         /\ a > c /\ b <= c => a > b
         /\ ~ (a <= b /\ b <= c /\ c < a)
OBVIOUS

\* An id above some mark is positive: ids start at one.
LEMMA IdPositive ==
  ASSUME NEW h \in Nat, NEW n \in Nat, h < n
  PROVE  0 < n
OBVIOUS

\* greatest(x, 0) is x.
LEMMA LargerZero ==
  ASSUME NEW n \in Nat
  PROVE  Larger(n, 0) = n /\ Larger(0, n) = n
BY DEF Larger

\* A request that is over has nothing to answer for.
LEMMA IdleCovered ==
  ASSUME NEW ax, NEW p, req'[p] = Idle
  PROVE  RequestCovered(p, ax)'
<1>1. Idle.pc = "idle"
  BY Zenon DEF Idle
<1>2. req'[p].pc = "idle"
  BY Zenon, <1>1
<1>3. req'[p].pc \notin {"advance", "commit"}
  BY Zenon, <1>2
<1>. QED  BY Zenon, <1>2, <1>3 DEF RequestCovered

\* RequestCovered survives such steps for a request they do not move.
LEMMA RequestCoveredStays ==
  ASSUME Typed, Typed', NEW ax \in Axis, NEW p \in Request, RequestCovered(p, ax), req'[p] = req[p],
         \A r \in InOrder(ax)' \ InOrder(ax) :
           \/ req[p].pc = "idle"
           \/ /\ high[ax] < r.id
              /\ req[p].goal[ax] < r.id,
         \A d \in Device : taken[d] \subseteq taken'[d], expired \subseteq expired',
         high[ax] <= high'[ax],
         \A d \in cursors' : \/ d \in cursors /\ base'[d] = base[d]
                             \/ base'[d][ax] >= high[ax]
  PROVE  RequestCovered(p, ax)'
<1>. USE QueueAssumption
<1>. DEFINE d == DeviceOf[p]
            t == req[p]
<1>1. /\ d \in Device /\ t \in RequestState /\ high[ax] \in Nat
      /\ t.floor[ax] \in Nat /\ t.goal[ax] \in Nat /\ t.cut[ax] \in Nat
      /\ t.floor[ax] <= high[ax]
      /\ t.pc = "commit" => t.cut[ax] <= high[ax]
  BY DEF Typed, TypeOK, Bounded, RequestBounded, RequestState, Marks
<1>2. \A r \in InOrder(ax)' : r.id \in Nat
  BY Zenon DEF Typed, TypeOK, InOrder, Fresh, OnAxis, Row
<1>3. ASSUME t.pc # "idle" PROVE Covered(d, req[p].floor[ax], {}, ax)'
  <2>1. \A r \in InOrder(ax)' : r.id <= t.floor[ax] => r \in InOrder(ax)
    BY Zenon, <1>1, <1>2, <1>3, IdChain
  <2>2. Covered(d, t.floor[ax], {}, ax)
    BY Zenon, <1>3 DEF RequestCovered
  <2>. QED  BY Zenon, <1>1, <2>1, <2>2, CoveredStays DEF Covered, Settled
<1>4. ASSUME t.pc \in {"advance", "commit"} PROVE Covered(d, req[p].goal[ax], req[p].seen, ax)'
  <2>1. \A r \in InOrder(ax)' : r.id <= t.goal[ax] => r \in InOrder(ax)
    <3>1. t.pc # "idle"
      BY Zenon, <1>4
    <3>. QED  BY Zenon, <1>1, <1>2, <3>1, IdOrder
  <2>2. Covered(d, t.goal[ax], t.seen, ax)
    BY Zenon, <1>4 DEF RequestCovered
  <2>. QED  BY Zenon, <1>1, <2>1, <2>2, CoveredStays DEF Covered, Settled
<1>5. ASSUME t.pc = "commit", NEW e \in Device \ t.drop
      PROVE  Covered(e, req[p].cut[ax], IF e = d THEN req[p].seen ELSE {}, ax)'
  <2>. DEFINE S == IF e = d THEN t.seen ELSE {}
  <2>1. \A r \in InOrder(ax)' : r.id <= t.cut[ax] => r \in InOrder(ax)
    <3>1. t.pc # "idle"
      BY Zenon, <1>5
    <3>. QED  BY Zenon, <1>1, <1>2, <1>5, <3>1, IdChain
  <2>2. Covered(e, t.cut[ax], S, ax)
    BY Zenon, <1>5 DEF RequestCovered
  <2>. HIDE DEF S
  <2>3. \A r \in InOrder(ax)' : Visible(e, r) /\ r.id <= t.cut[ax] =>
           \/ r \in taken'[e] \cup S
           \/ r \in expired'
           \/ r.id <= high'[ax] /\ (e \in cursors' => r.id <= base'[e][ax])
    BY Zenon, <1>1, <2>1, <2>2, CoveredStays
  <2>. QED  BY Zenon, <2>3 DEF Covered, Settled, S
<1>. QED  BY Zenon, <1>3, <1>4, <1>5 DEF RequestCovered

\* The invariant holds initially.
LEMMA InitQueueInv == Init => QueueInv
<1>. SUFFICES ASSUME Init PROVE QueueInv
  BY Zenon
<1>1. Typed
  BY Zenon, InitTyped
<1>2. Numbered /\ \A ax \in Axis : Ordered(ax) /\ KeptOn(ax)
  BY Zenon DEF Init, Numbered, Ordered, KeptOn, Kept, InOrder, Fresh, OnAxis
<1>3. \A p \in Request : req[p] = Idle
  BY Zenon DEF Init
<1>4. Locked /\ \A ax \in Axis, p \in Request : RequestCovered(p, ax)
  BY <1>3 DEF Locked, RequestCovered, Idle
<1>. QED  BY Zenon, <1>1, <1>2, <1>4 DEF QueueInv, AxisInv

\* An inserted row has an id of its own, and its mailbox if it is a 1:1 row.
LEMMA InsertNumbered ==
  ASSUME QueueInv, NEW a \in Axis, NEW to, NEW seq, Insert(a, to, seq), a = "direct" => MailboxFree
  PROVE  Numbered'
<1>. DEFINE r == [axis |-> a, id |-> nextId[a] + 1, to |-> to, seq |-> seq, at |-> clock]
<1>1. pending' = pending \cup {r} /\ history' = history /\ late' = late /\ r.axis = a /\ r.id = nextId[a] + 1
  BY Zenon DEF Insert
<1>. HIDE DEF r
<1>2. /\ nextId[a] \in Nat
      /\ \A s \in pending \cup history : s.axis = a => s.id \in Nat /\ s.id <= nextId[a]
  BY Zenon DEF QueueInv, Typed, TypeOK, Bounded, Row, Marks
<1>3. \A s \in pending \cup history : s.axis = a => s.id < r.id /\ s.id # r.id
  BY <1>1, <1>2
<1>4. a = "direct" => \A s \in pending : s.axis # "direct"
  BY Zenon DEF MailboxFree, OnAxis
<1>. QED  BY Zenon, <1>1, <1>3, <1>4 DEF QueueInv, Numbered, OnAxis

\* A commit or a rollback leaves the other rows in flight theirs, and no 1:1
\* row commits late.
LEMMA DepositNumbered ==
  ASSUME QueueInv, NEW r \in pending, CommitDeposit(r) \/ RollbackDeposit(r)
  PROVE  Numbered'
<1>1. Numbered /\ pending' = pending \ {r}
  BY Zenon DEF QueueInv, CommitDeposit, RollbackDeposit
<1>2. CASE RollbackDeposit(r)
  BY Zenon, <1>1, <1>2 DEF RollbackDeposit, Numbered, OnAxis
<1>3. CASE CommitDeposit(r)
  <2>1. history' = history \cup {r} /\ late' = late \cup {x \in {r} : \E s \in OnAxis(history, r.axis) : s.id > r.id}
    BY Zenon, <1>3 DEF CommitDeposit
  <2>2. r.id \in Nat /\ \A s \in history : s.id \in Nat
    BY Zenon DEF QueueInv, Typed, TypeOK, Row
  <2>3. r.axis = "direct" => r \notin {x \in {r} : \E s \in OnAxis(history, r.axis) : s.id > r.id}
    BY <1>1, <2>2 DEF Numbered, OnAxis
  <2>4. OnAxis(late', "direct") = {}
    BY Zenon, <1>1, <2>1, <2>3 DEF Numbered, OnAxis
  <2>5. \A s \in pending' : s \in pending /\ s # r
    BY Zenon, <1>1
  <2>6. \A s \in pending' : s.axis # "direct" \/ r.axis # "direct"
    BY Zenon, <1>1, <2>5 DEF Numbered, OnAxis
  <2>7. \A s \in pending' : /\ \A u \in pending' : u.axis = s.axis /\ u.id = s.id => u = s
                            /\ \A u \in history' : u.axis = s.axis => u.id # s.id
    BY Zenon, <1>1, <2>1, <2>5 DEF Numbered
  <2>. QED  BY Zenon, <1>1, <2>1, <2>4, <2>5, <2>6, <2>7 DEF Numbered, OnAxis
<1>. QED  BY Zenon, <1>2, <1>3

\* A row is inserted above every mark, floor and goal of its table.
LEMMA InsertKeeps ==
  ASSUME QueueInv, Typed', NEW ax \in Axis, NEW a \in Axis, NEW to, NEW seq, Insert(a, to, seq)
  PROVE  (Locked /\ AxisInv(ax))'
<1>. DEFINE r == [axis |-> a, id |-> nextId[a] + 1, to |-> to, seq |-> seq, at |-> clock]
<1>1. /\ pending' = pending \cup {r} /\ history' = history /\ late' = late /\ rows' = rows /\ expired' = expired
      /\ cursors' = cursors /\ mark' = mark /\ high' = high /\ base' = base
      /\ taken' = taken /\ req' = req
  BY Zenon DEF Insert, cursorVars
<1>2. Typed /\ Ordered(ax) /\ Locked /\ KeptOn(ax) /\ \A p \in Request : RequestCovered(p, ax)
  BY Zenon DEF QueueInv, AxisInv
<1>3. r.axis = a /\ r.id = nextId[a] + 1
  BY Zenon
<1>. HIDE DEF r
<1>4. \A s \in Fresh(ax)' : s \in Fresh(ax) \/ (s = r /\ a = ax)
  BY Zenon, <1>1, <1>3 DEF Fresh, OnAxis
<1>5. a = ax => high[ax] < r.id /\ \A p \in Request : req[p].goal[ax] < r.id
  <2>1. high[ax] \in Nat /\ nextId[ax] \in Nat /\ high[ax] <= nextId[ax]
    BY Zenon, <1>2 DEF Typed, TypeOK, Bounded, Marks
  <2>2. \A p \in Request : req[p].goal[ax] \in Nat /\ req[p].goal[ax] <= nextId[ax]
    BY <1>2 DEF Typed, TypeOK, Bounded, RequestBounded, RequestState, Marks
  <2>. QED  BY <1>3, <2>1, <2>2
<1>6. Ordered(ax)'
  BY Zenon, <1>1, <1>2, <1>4, <1>5 DEF Ordered, InOrder
<1>7. Locked'
  BY Zenon, <1>1, <1>2 DEF Locked
<1>8. \A p \in Request : RequestCovered(p, ax)'
  <2>1. /\ InOrder(ax)' = InOrder(ax) /\ high[ax] \in Nat
        /\ high[ax] <= high'[ax] /\ expired \subseteq expired' /\ \A d \in Device : taken[d] \subseteq taken'[d]
        /\ \A d \in cursors' : d \in cursors /\ base'[d] = base[d]
    BY <1>1, <1>2 DEF InOrder, Typed, TypeOK, Marks
  <2>. QED  BY Zenon, <1>1, <1>2, <2>1, RequestCoveredStays
<1>9. KeptOn(ax)'
  BY Zenon, <1>1, <1>2 DEF KeptOn, Kept
<1>. QED  BY Zenon, <1>6, <1>7, <1>8, <1>9 DEF AxisInv

\* A rolled-back deposit only frees the mailbox.
LEMMA RollbackKeeps ==
  ASSUME QueueInv, Typed', NEW ax \in Axis, NEW r \in pending, RollbackDeposit(r)
  PROVE  (Locked /\ AxisInv(ax))'
<1>1. /\ pending' \subseteq pending /\ history' = history /\ late' = late /\ rows' = rows /\ expired' = expired
      /\ cursors' = cursors /\ mark' = mark /\ high' = high /\ base' = base
      /\ taken' = taken /\ req' = req
  BY Zenon DEF RollbackDeposit, cursorVars
<1>2. Typed /\ Ordered(ax) /\ Locked /\ KeptOn(ax) /\ \A p \in Request : RequestCovered(p, ax)
  BY Zenon DEF QueueInv, AxisInv
<1>3. Ordered(ax)'
  BY Zenon, <1>1, <1>2 DEF Ordered, InOrder, Fresh, OnAxis
<1>4. Locked' /\ KeptOn(ax)'
  BY Zenon, <1>1, <1>2 DEF Locked, KeptOn, Kept
<1>5. \A p \in Request : RequestCovered(p, ax)'
  <2>1. /\ InOrder(ax)' = InOrder(ax) /\ high[ax] \in Nat
        /\ high[ax] <= high'[ax] /\ expired \subseteq expired' /\ \A d \in Device : taken[d] \subseteq taken'[d]
        /\ \A d \in cursors' : d \in cursors /\ base'[d] = base[d]
    BY <1>1, <1>2 DEF InOrder, Typed, TypeOK, Marks
  <2>. QED  BY Zenon, <1>1, <1>2, <2>1, RequestCoveredStays
<1>. QED  BY Zenon, <1>3, <1>4, <1>5 DEF AxisInv

\* A committing row becomes visible above every mark, floor and goal, or is
\* late.
LEMMA CommitDepositKeeps ==
  ASSUME QueueInv, Typed', NEW ax \in Axis, NEW r \in pending, CommitDeposit(r)
  PROVE  (Locked /\ AxisInv(ax))'
<1>1. /\ pending' = pending \ {r} /\ history' = history \cup {r} /\ rows' = rows \cup {r}
      /\ late' = late \cup {x \in {r} : \E s \in OnAxis(history, r.axis) : s.id > r.id}
      /\ expired' = expired
      /\ cursors' = cursors /\ mark' = mark /\ high' = high /\ base' = base
      /\ taken' = taken /\ req' = req
  BY Zenon DEF CommitDeposit, cursorVars
<1>2. Typed /\ Numbered /\ Locked /\ Ordered(ax) /\ KeptOn(ax)
  BY Zenon DEF QueueInv, AxisInv
<1>3. r.id \in Nat /\ \A s \in history : s.id \in Nat
  BY Zenon, <1>2 DEF Typed, TypeOK, Row
<1>4. ASSUME NEW s \in InOrder(ax)', s \notin InOrder(ax) PROVE s = r /\ r \in Fresh(ax)
  <2>1. s = r /\ r.axis = ax /\ r \notin {x \in {r} : \E h \in OnAxis(history, r.axis) : h.id > r.id}
    BY Zenon, <1>1, <1>4 DEF InOrder, OnAxis
  <2>2. \A h \in OnAxis(history, ax) : h.id # r.id /\ ~ (h.id > r.id)
    BY Zenon, <1>2, <2>1 DEF Numbered, OnAxis
  <2>3. \A h \in OnAxis(history, ax) : h.id < r.id
    BY <1>3, <2>2 DEF OnAxis
  <2>. QED  BY Zenon, <2>1, <2>3 DEF Fresh, OnAxis
<1>5. Fresh(ax)' \subseteq Fresh(ax)
  BY Zenon, <1>1 DEF Fresh, OnAxis
<1>6. Ordered(ax)'
  <2>1. \A s \in InOrder(ax)' : s.id > high[ax] => s \in rows' \cup expired
    BY Zenon, <1>1, <1>2, <1>4 DEF Ordered
  <2>. QED  BY Zenon, <1>1, <1>2, <1>5, <2>1 DEF Ordered
<1>7. Locked'
  BY Zenon, <1>1, <1>2 DEF Locked
<1>8. ASSUME NEW p \in Request PROVE RequestCovered(p, ax)'
  <2>1. \A s \in InOrder(ax)' \ InOrder(ax) : high[ax] < s.id /\ req[p].goal[ax] < s.id
    BY Zenon, <1>2, <1>4 DEF Ordered
  <2>2. high[ax] \in Nat
    BY Zenon, <1>2 DEF Typed, TypeOK, Marks
  <2>3. RequestCovered(p, ax) /\ req'[p] = req[p]
    BY Zenon, <1>1 DEF QueueInv, AxisInv
  <2>4. /\ \A d \in Device : taken[d] \subseteq taken'[d]
        /\ expired \subseteq expired' /\ high[ax] <= high'[ax]
        /\ \A d \in cursors' : d \in cursors /\ base'[d] = base[d]
    BY <1>1, <2>2
  <2>. QED  BY Zenon, <1>2, <2>1, <2>3, <2>4, RequestCoveredStays
<1>9. KeptOn(ax)'
  <2>. SUFFICES ASSUME NEW d \in cursors, NEW s \in InOrder(ax)', Visible(d, s)
                PROVE  \/ s \in taken[d] \/ s \in expired \/ s.id <= base[d][ax]
                       \/ s \in rows' /\ s.id > mark[d][ax]
    BY Zenon, <1>1 DEF KeptOn, Kept, InOrder
  <2>1. CASE s \in InOrder(ax)
    BY Zenon, <1>1, <1>2, <2>1 DEF KeptOn, Kept, InOrder
  <2>2. CASE s = r /\ r \in Fresh(ax)
    <3>1. high[ax] < s.id
      BY Zenon, <1>2, <2>2 DEF Ordered
    <3>2. d \in Device /\ mark[d][ax] <= high[ax] /\ mark[d][ax] \in Nat
          /\ high[ax] \in Nat /\ s.id \in Nat
      BY SMTT(30), <1>2, <1>3, <2>2 DEF Typed, TypeOK, Bounded, Marks
    <3>. QED  BY <1>1, <2>2, <3>1, <3>2
  <2>. QED  BY Zenon, <1>4, <2>1, <2>2
<1>. QED  BY Zenon, <1>6, <1>7, <1>8, <1>9 DEF AxisInv

\* A step of one request that writes no table preserves the invariant if the
\* state it moves that request to is covered and below every row in flight.
LEMMA RequestStepKeeps ==
  ASSUME QueueInv, Typed', NEW ax \in Axis, NEW p \in Request, NEW t, StepTo(p, t),
         UNCHANGED <<pending, history, late, rows, expired, cursors, mark, base>>,
         \A d \in Device : taken[d] \subseteq taken'[d],
         high[ax] <= high'[ax],
         \A r \in Fresh(ax) : t.goal[ax] < r.id /\ high'[ax] < r.id,
         t.pc = "commit" => /\ DeviceOf[p] \notin t.drop /\ CursorFree(DeviceOf[p], p)
                            /\ DeviceOf[p] \in cursors =>
                                 \A a \in Axis : mark[DeviceOf[p]][a] <= t.goal[a],
         RequestCovered(p, ax)'
  PROVE  (Locked /\ AxisInv(ax))'
<1>1. Typed /\ Ordered(ax) /\ Locked /\ KeptOn(ax)
  BY Zenon DEF QueueInv, AxisInv
<1>2. req'[p] = t /\ \A q \in Request : q # p => req'[q] = req[q]
  BY Zenon, <1>1 DEF StepTo, Typed, TypeOK
<1>3. high[ax] \in Nat /\ high'[ax] \in Nat
  BY Zenon, <1>1 DEF Typed, TypeOK, Marks
<1>4. Ordered(ax)'
  <2>1. \A r \in InOrder(ax) : r.id \in Nat
    BY Zenon, <1>1 DEF Typed, TypeOK, InOrder, Fresh, OnAxis, Row
  <2>2. \A r \in InOrder(ax) : r.id > high'[ax] => r \in rows \cup expired
    <3>1. \A r \in InOrder(ax) : r.id > high'[ax] => r.id > high[ax]
      BY Zenon, <1>3, <2>1, IdChain
    <3>. QED  BY Zenon, <1>1, <3>1 DEF Ordered
  <2>3. \A r \in Fresh(ax) : \A q \in Request : req'[q].goal[ax] < r.id
    BY Zenon, <1>1, <1>2 DEF Ordered
  <2>. QED  BY ZenonT(30), <1>1, <2>2, <2>3 DEF Ordered, InOrder, Fresh
<1>5. Locked'
  BY Zenon, <1>1, <1>2 DEF Locked, CursorFree
<1>6. ASSUME NEW q \in Request PROVE RequestCovered(q, ax)'
  <2>1. CASE q = p
    BY Zenon, <2>1
  <2>2. CASE q # p
    <3>1. RequestCovered(q, ax) /\ req'[q] = req[q]
      BY Zenon, <1>2, <2>2 DEF QueueInv, AxisInv
    <3>2. /\ InOrder(ax)' \ InOrder(ax) = {} /\ expired \subseteq expired'
          /\ \A d \in cursors' : d \in cursors /\ base'[d] = base[d]
      BY Zenon DEF InOrder, Fresh, OnAxis
    <3>. QED  BY ZenonT(30), <1>1, <3>1, <3>2, RequestCoveredStays
  <2>. QED  BY Zenon, <2>1, <2>2
<1>7. KeptOn(ax)'
  <2>1. cursors \subseteq Device
    BY Zenon, <1>1 DEF Typed, TypeOK
  <2>. QED  BY ZenonT(30), <1>1, <2>1 DEF KeptOn, Kept
<1>. QED  BY Zenon, <1>4, <1>5, <1>6, <1>7 DEF QueueInv, AxisInv

\* A request that dies leaves nothing behind.
LEMMA AbortKeeps ==
  ASSUME QueueInv, Typed', NEW ax \in Axis, NEW p \in Request, StepTo(p, Idle),
         UNCHANGED <<clock, deposits, rows, expired, cursorVars, revoked>>,
         \A d \in Device : taken[d] \subseteq taken'[d]
  PROVE  (Locked /\ AxisInv(ax))'
<1>1. Typed /\ Ordered(ax)
  BY Zenon DEF QueueInv, AxisInv
<1>2. req'[p] = Idle
  BY Zenon, <1>1 DEF StepTo, Typed, TypeOK
<1>3. RequestCovered(p, ax)'
  BY Zenon, <1>2, IdleCovered
<1>4. Idle.pc # "commit" /\ Idle.goal[ax] = 0
  BY Zenon, IdleTyped DEF Idle
<1>5. high[ax] \in Nat
  BY Zenon, <1>1 DEF Typed, TypeOK, Marks
<1>6. \A r \in Fresh(ax) : Idle.goal[ax] < r.id /\ high[ax] < r.id
  <2>1. \A r \in Fresh(ax) : r.id \in Nat /\ high[ax] < r.id
    BY ZenonT(30), <1>1 DEF Ordered, Typed, TypeOK, InOrder, Fresh, OnAxis, Row
  <2>. QED  BY Zenon, <1>4, <1>5, <2>1, IdPositive
<1>7. UNCHANGED <<pending, history, late, rows, expired, cursors, mark, base>> /\ high' = high
  BY Zenon DEF deposits, cursorVars
<1>8. high[ax] <= high'[ax]
  BY Zenon, <1>5, <1>7, IdOrder
<1>. QED  BY Zenon, <1>3, <1>4, <1>6, <1>7, <1>8, RequestStepKeeps

\* The floor a request starts from is covered.
LEMMA BeginKeeps ==
  ASSUME QueueInv, Typed', NEW ax \in Axis, NEW p \in Request, NEW job \in JobsOf[p], Begin(p, job)
  PROVE  (Locked /\ AxisInv(ax))'
<1>. USE QueueAssumption
<1>. DEFINE d == DeviceOf[p]
            t(c) == [Idle EXCEPT !.pc = c, !.job = job, !.found = cursors \cap {d},
                                 !.floor = drain_floor(d)]
<1>1. Typed /\ Ordered(ax) /\ KeptOn(ax) /\ d \in Device
  BY Zenon DEF QueueInv, AxisInv
<1>2. PICK c \in {"prefix", "read", "pin"} : StepTo(p, t(c))
  BY Zenon DEF Begin
<1>3. t(c).pc = c /\ t(c).goal[ax] = 0 /\ t(c).floor = drain_floor(d)
  BY Zenon, IdleTyped DEF Idle
<1>. HIDE DEF t
<1>4. req'[p] = t(c)
  BY Zenon, <1>1, <1>2 DEF StepTo, Typed, TypeOK
<1>5. Covered(d, drain_floor(d)[ax], {}, ax)
  <2>1. drain_floor(d)[ax] \in Nat /\ drain_floor(d)[ax] <= high[ax]
    BY Zenon, <1>1, FloorFact DEF Marks
  <2>2. CASE d \in cursors
    BY Zenon, <1>1, <2>2, MarkCovered DEF drain_floor
  <2>3. CASE d \notin cursors
    BY Zenon, <1>1, <2>1, <2>3, NoCursorCovered
  <2>. QED  BY Zenon, <2>2, <2>3
<1>6. /\ history' = history /\ late' = late /\ taken' = taken /\ expired' = expired /\ high' = high
      /\ cursors' = cursors /\ base' = base /\ pending' = pending /\ rows' = rows /\ mark' = mark
  BY Zenon DEF Begin, deposits, cursorVars
<1>7. RequestCovered(p, ax)'
  <2>1. Covered(d, req[p].floor[ax], {}, ax)'
    BY Zenon, <1>3, <1>4, <1>5, <1>6 DEF Covered, Settled, InOrder, Fresh
  <2>. QED  BY ZenonT(30), <1>2, <1>3, <1>4, <2>1 DEF RequestCovered
<1>8. high[ax] \in Nat
  BY ZenonT(30), <1>1 DEF Typed, TypeOK, Marks
<1>9. \A r \in Fresh(ax) : t(c).goal[ax] < r.id /\ high[ax] < r.id
  <2>1. \A r \in Fresh(ax) : r.id \in Nat /\ high[ax] < r.id
    BY ZenonT(30), <1>1 DEF Ordered, Typed, TypeOK, InOrder, Fresh, OnAxis, Row
  <2>. QED  BY Zenon, <1>3, <1>8, <2>1, IdPositive
<1>10. high[ax] <= high'[ax] /\ t(c).pc # "commit" /\ \A e \in Device : taken[e] \subseteq taken'[e]
  BY <1>3, <1>6, <1>8
<1>11. UNCHANGED <<pending, history, late, rows, expired, cursors, mark, base>>
  BY Zenon, <1>6
<1>. QED  BY Zenon, <1>2, <1>6, <1>7, <1>9, <1>10, <1>11, RequestStepKeeps

\* A goal is covered when every row the device is served up to it was taken:
\* a row that is no longer in the table was settled for the device before.
LEMMA GoalCovered ==
  ASSUME QueueInv, NEW ax \in Axis, NEW p \in Request, req[p].pc # "idle", NEW n \in Nat, NEW S,
         \A r \in OnAxis(Above(DeviceOf[p], req[p].floor), ax) :
           r.id <= n => r \in taken[DeviceOf[p]] \cup S
  PROVE  Covered(DeviceOf[p], n, S, ax)
<1>. USE QueueAssumption
<1>. DEFINE d == DeviceOf[p]
            f == req[p].floor
<1>1. Typed /\ Ordered(ax) /\ KeptOn(ax) /\ d \in Device /\ Covered(d, f[ax], {}, ax)
  BY ZenonT(30) DEF QueueInv, AxisInv, RequestCovered
<1>. SUFFICES ASSUME NEW r \in InOrder(ax), Visible(d, r), r.id <= n
              PROVE  Settled(d, r, S, ax)
  BY Zenon DEF Covered
<1>2. r.id \in Nat /\ f[ax] \in Nat /\ high[ax] \in Nat /\ r.axis = ax
  BY SMTT(30), <1>1 DEF InOrder, Fresh, OnAxis, Typed, TypeOK, RequestState, Row, Marks
<1>3. CASE r.id <= f[ax]
  BY ZenonT(30), <1>1, <1>3 DEF Covered, Settled
<1>4. CASE r.id > f[ax] /\ r \in rows
  BY ZenonT(30), <1>2, <1>4 DEF Settled, OnAxis, Above
<1>5. CASE r \notin rows
  <2>1. r \in expired \/ r.id <= high[ax]
    BY Zenon, <1>1, <1>2, <1>5, IdOrder DEF Ordered
  <2>2. d \in cursors => r \in taken[d] \/ r \in expired \/ r.id <= base[d][ax]
    BY ZenonT(30), <1>1, <1>5 DEF KeptOn, Kept, InOrder, Fresh
  <2>. QED  BY ZenonT(30), <2>1, <2>2 DEF Settled
<1>. QED  BY Zenon, <1>2, <1>3, <1>4, <1>5, IdOrder

\* A floor, and the id of a committed row, lie below every row in flight.
LEMMA BelowPending ==
  ASSUME QueueInv, NEW ax \in Axis, NEW p \in Request, NEW n,
         n = req[p].floor[ax] \/ \E r \in OnAxis(rows, ax) : n = r.id
  PROVE  \A r \in Fresh(ax) : n < r.id /\ high[ax] < r.id
<1>. SUFFICES ASSUME NEW r \in Fresh(ax) PROVE n < r.id /\ high[ax] < r.id
  BY Zenon
<1>1. Typed /\ Ordered(ax)
  BY Zenon DEF QueueInv, AxisInv
<1>2. r.id \in Nat /\ high[ax] \in Nat /\ req[p].floor[ax] \in Nat
      /\ req[p].floor[ax] <= high[ax]
  BY ZenonT(30), <1>1 DEF InOrder, Fresh, OnAxis, Typed, TypeOK, Bounded, RequestBounded, RequestState, Row, Marks
<1>3. \A s \in OnAxis(rows, ax) : s.id < r.id
  BY Zenon, <1>1 DEF Typed, Bounded, Fresh, OnAxis
<1>4. high[ax] < r.id
  BY Zenon, <1>1 DEF Ordered
<1>5. req[p].floor[ax] < r.id
  BY <1>2, <1>4
<1>. QED  BY Zenon, <1>3, <1>4, <1>5

\* Moving one request to "advance" with a covered goal.
LEMMA GoalKeeps ==
  ASSUME QueueInv, Typed', NEW ax \in Axis, NEW p \in Request, NEW g, NEW S,
         req[p].pc # "idle",
         StepTo(p, [req[p] EXCEPT !.pc = "advance", !.goal = g, !.seen = S]),
         UNCHANGED <<clock, deposits, rows, expired, cursorVars, taken, revoked>>,
         Covered(DeviceOf[p], g[ax], S, ax),
         \A r \in Fresh(ax) : g[ax] < r.id /\ high[ax] < r.id
  PROVE  (Locked /\ AxisInv(ax))'
<1>. DEFINE t == [req[p] EXCEPT !.pc = "advance", !.goal = g, !.seen = S]
<1>1. Typed
  BY Zenon DEF QueueInv, AxisInv
<1>2. t.pc = "advance" /\ t.goal = g /\ t.seen = S /\ t.floor = req[p].floor
  BY <1>1 DEF Typed, TypeOK, RequestState
<1>. HIDE DEF t
<1>3. StepTo(p, t) /\ req'[p] = t
  BY Zenon, <1>1 DEF StepTo, Typed, TypeOK, t
<1>4. /\ history' = history /\ late' = late /\ taken' = taken /\ expired' = expired /\ high' = high
      /\ cursors' = cursors /\ base' = base /\ pending' = pending /\ rows' = rows /\ mark' = mark
  BY Zenon DEF deposits, cursorVars
<1>5. Covered(DeviceOf[p], req[p].goal[ax], req[p].seen, ax)'
  BY Zenon, <1>2, <1>3, <1>4 DEF Covered, Settled, InOrder, Fresh
<1>6. Covered(DeviceOf[p], req[p].floor[ax], {}, ax)'
  <2>1. Covered(DeviceOf[p], req[p].floor[ax], {}, ax)
    BY Zenon DEF QueueInv, AxisInv, RequestCovered
  <2>. QED  BY Zenon, <1>2, <1>3, <1>4, <2>1 DEF Covered, Settled, InOrder, Fresh
<1>7. RequestCovered(p, ax)'
  BY Zenon, <1>2, <1>3, <1>5, <1>6 DEF RequestCovered
<1>8. high[ax] \in Nat
  BY ZenonT(30), <1>1 DEF Typed, TypeOK, Marks
<1>. QED  BY <1>2, <1>3, <1>4, <1>7, <1>8, RequestStepKeeps

\* A legacy drain's goal is covered by what the drain hands over.
LEMMA DrainReadKeeps ==
  ASSUME QueueInv, Typed', NEW ax \in Axis, NEW p \in Request, DrainRead(p)
  PROVE  (Locked /\ AxisInv(ax))'
<1>. USE QueueAssumption
<1>. DEFINE d == DeviceOf[p]
            f == req[p].floor
            S == Above(d, f)
            g == [a \in Axis |-> Max({f[a]} \cup {r.id : r \in OnAxis(S, a)})]
<1>1. /\ Typed /\ d \in Device /\ f \in Marks /\ f[ax] <= nextId[ax] /\ req[p].pc = "read"
      /\ req[p] \in RequestState
  BY DEF QueueInv, AxisInv, DrainRead, Typed, TypeOK, Bounded, RequestBounded, RequestState, Marks
<1>2. g[ax] = Max({f[ax]} \cup {r.id : r \in OnAxis(S, ax)})
  BY ZenonT(30)
<1>3. /\ g[ax] \in Nat
      /\ g[ax] = f[ax] \/ \E r \in OnAxis(rows, ax) : g[ax] = r.id
  <2>1. LET n == Max({f[ax]} \cup {r.id : r \in OnAxis(S, ax)})
        IN  n \in Nat /\ (n = f[ax] \/ \E r \in OnAxis(rows, ax) : n = r.id)
    BY Zenon, <1>1, DrainFact
  <2>. HIDE DEF g
  <2>. QED  BY Zenon, <1>2, <2>1
<1>4. StepTo(p, [req[p] EXCEPT !.pc = "advance", !.goal = g, !.seen = S])
  <2>1. [req[p] EXCEPT !.pc = "advance", !.goal = g, !.seen = S] =
        [req[p] EXCEPT !.pc = "advance", !.seen = S, !.goal = g]
    BY Zenon, <1>1 DEF RequestState
  <2>. QED  BY <2>1, Zenon DEF DrainRead
<1>. HIDE DEF g
<1>5. \A r \in OnAxis(Above(d, f), ax) : r \in S
  BY Zenon DEF OnAxis
<1>. HIDE DEF S
<1>6. Covered(d, g[ax], S, ax)
  BY Zenon, <1>1, <1>3, <1>5, GoalCovered
<1>7. \A r \in Fresh(ax) : g[ax] < r.id /\ high[ax] < r.id
  BY Zenon, <1>3, BelowPending
<1>. QED  BY ZenonT(30), <1>1, <1>4, <1>6, <1>7, GoalKeeps DEF DrainRead

\* The acked prefix is covered by what the device took before acking.
LEMMA AckPrefixKeeps ==
  ASSUME QueueInv, Typed', NEW ax \in Axis, NEW p \in Request, AckPrefix(p)
  PROVE  (Locked /\ AxisInv(ax))'
<1>. USE QueueAssumption
<1>. DEFINE d == DeviceOf[p]
            f == req[p].floor
            g(acked) == [a \in Axis |-> acked_prefix(d, a, f, acked)]
<1>1. /\ Typed /\ d \in Device /\ f \in Marks /\ f[ax] <= nextId[ax] /\ req[p].pc = "prefix"
      /\ req[p] \in RequestState
  BY SMTT(30) DEF QueueInv, AxisInv, AckPrefix, Typed, TypeOK, Bounded, RequestBounded, RequestState, Marks
<1>2. PICK acked \in SUBSET taken[d] :
        StepTo(p, [req[p] EXCEPT !.pc = "advance", !.goal = g(acked)])
  BY Zenon DEF AckPrefix
<1>3. g(acked)[ax] = acked_prefix(d, ax, f, acked)
  BY ZenonT(30)
<1>4. /\ g(acked)[ax] \in Nat
      /\ g(acked)[ax] = f[ax] \/ \E r \in OnAxis(rows, ax) : g(acked)[ax] = r.id
      /\ \A r \in OnAxis(Above(d, f), ax) : r.id <= g(acked)[ax] => r \in acked
  <2>1. /\ acked_prefix(d, ax, f, acked) \in Nat
        /\ \/ acked_prefix(d, ax, f, acked) = f[ax]
           \/ \E r \in OnAxis(rows, ax) : acked_prefix(d, ax, f, acked) = r.id
        /\ \A r \in OnAxis(Above(d, f), ax) : r.id <= acked_prefix(d, ax, f, acked) => r \in acked
    <3>. HIDE DEF d, f
    <3>1. acked_prefix(d, ax, f, acked) \in Nat
      BY Zenon, <1>1, PrefixFact
    <3>2. \/ acked_prefix(d, ax, f, acked) = f[ax]
          \/ \E r \in OnAxis(rows, ax) : acked_prefix(d, ax, f, acked) = r.id
      BY SMT, <1>1, PrefixFact
    <3>3. \A r \in OnAxis(Above(d, f), ax) : r.id <= acked_prefix(d, ax, f, acked) => r \in acked
      BY Zenon, <1>1, PrefixFact
    <3>. QED  BY Zenon, <3>1, <3>2, <3>3
  <2>. QED  BY Zenon, <1>3, <2>1
<1>. HIDE DEF g
<1>5. StepTo(p, [req[p] EXCEPT !.pc = "advance", !.goal = g(acked), !.seen = req[p].seen])
  <2>1. [req[p] EXCEPT !.pc = "advance", !.goal = g(acked), !.seen = req[p].seen] =
        [req[p] EXCEPT !.pc = "advance", !.goal = g(acked)]
    BY ZenonT(30), <1>1 DEF RequestState
  <2>. QED  BY Zenon, <1>2, <2>1
<1>6. Covered(d, g(acked)[ax], req[p].seen, ax)
  BY Zenon, <1>1, <1>4, GoalCovered
<1>7. \A r \in Fresh(ax) : g(acked)[ax] < r.id /\ high[ax] < r.id
  BY Zenon, <1>4, BelowPending
<1>. QED  BY ZenonT(30), <1>1, <1>5, <1>6, <1>7, GoalKeeps DEF AckPrefix

\* A reap floor c no higher than the goal g of the reading device d, and no
\* higher than another device's mark, passes only what e no longer needs once
\* the high water mark is h.
LEMMA CutCovered ==
  ASSUME Typed, NEW ax \in Axis, KeptOn(ax), NEW d \in Device, NEW e \in Device, NEW S,
         NEW c \in Nat, NEW g \in Nat, NEW h \in Nat,
         Covered(d, g, S, ax), high[ax] <= h, c <= g, g <= h,
         e # d /\ e \in cursors => c <= mark[e][ax]
  PROVE  \A r \in InOrder(ax) : Visible(e, r) /\ r.id <= c =>
           \/ r \in taken[e] \/ (e = d /\ r \in S)
           \/ r \in expired
           \/ r.id <= h /\ (e \in cursors => r.id <= base[e][ax])
<1>. SUFFICES ASSUME NEW r \in InOrder(ax), Visible(e, r), r.id <= c
              PROVE  \/ r \in taken[e] \/ (e = d /\ r \in S)
                     \/ r \in expired
                     \/ r.id <= h /\ (e \in cursors => r.id <= base[e][ax])
  BY Zenon
<1>1. r.id \in Nat
  BY Zenon DEF InOrder, Fresh, OnAxis, Typed, TypeOK, Row
<1>2. r.id <= g /\ r.id <= h
  <2>1. r.id <= g
    BY Zenon, <1>1, IdChain
  <2>. QED  BY Zenon, <1>1, <2>1, IdChain
<1>3. CASE e = d
  BY Zenon, <1>2, <1>3 DEF Covered, Settled
<1>4. CASE e # d /\ e \in cursors
  <2>1. r.id <= mark[e][ax]
    <3>1. mark[e][ax] \in Nat
      BY Zenon DEF Typed, TypeOK, Marks
    <3>. QED  BY Zenon, <1>1, <1>4, <3>1, IdChain
  <2>2. Settled(e, r, {}, ax)
    BY Zenon, <1>4, <2>1, MarkCovered DEF Covered
  <2>. QED  BY Zenon, <1>2, <1>4, <2>2 DEF Settled
<1>5. CASE e \notin cursors
  BY Zenon, <1>2, <1>5
<1>. QED  BY Zenon, <1>3, <1>4, <1>5

\* The marks and the reap floor _advance_cursor computes are covered: for its
\* own device, for every surviving cursor, and for installs without one.
LEMMA AdvanceKeeps ==
  ASSUME QueueInv, Typed', NEW ax \in Axis, NEW p \in Request, Advance(p)
  PROVE  (Locked /\ AxisInv(ax))'
<1>. DEFINE d == DeviceOf[p]
            t == req'[p]
<1>1. Typed /\ Ordered(ax) /\ KeptOn(ax) /\ d \in Device /\ req[p].pc = "advance"
  BY Zenon, QueueAssumption DEF QueueInv, AxisInv, Advance
<1>2. /\ StepTo(p, t) /\ t \in RequestState /\ t.pc = "commit"
      /\ t.floor = req[p].floor /\ t.seen = req[p].seen /\ d \notin t.drop
  BY ZenonT(30), <1>1, AdvanceFact
<1>3. /\ high[ax] <= high'[ax]
      /\ high'[ax] \in {high[ax], req[p].goal[ax]}
      /\ t.goal[ax] <= high'[ax] /\ t.cut[ax] <= t.goal[ax]
      /\ d \in cursors => t.goal[ax] \in {req[p].goal[ax], mark[d][ax]}
      /\ d \notin cursors => t.goal[ax] = req[p].goal[ax] \/ t.goal[ax] <= high[ax]
      /\ \A e \in cursors \ t.drop : e # d => t.cut[ax] <= mark[e][ax]
  BY ZenonT(30), <1>1, AdvanceFact
<1>4. d \in cursors => \A a \in Axis : mark[d][a] <= t.goal[a]
  <2>1. d \in cursors => \A a \in Axis : t.goal[a] >= mark[d][a]
    BY Zenon, <1>1, AdvanceFact
  <2>2. \A a \in Axis : t.goal[a] \in Nat /\ mark[d][a] \in Nat
    BY <1>1, <1>2 DEF Typed, TypeOK, RequestState, Marks
  <2>. QED  BY ZenonT(30), <2>1, <2>2
<1>5. /\ high[ax] \in Nat /\ high'[ax] \in Nat /\ req[p].goal[ax] \in Nat
      /\ t.goal[ax] \in Nat /\ t.cut[ax] \in Nat
      /\ \A e \in Device : mark[e][ax] \in Nat
  BY <1>1, <1>2 DEF Typed, TypeOK, RequestState, Marks
<1>6. /\ history' = history /\ late' = late /\ taken' = taken /\ expired' = expired
      /\ cursors' = cursors /\ base' = base /\ pending' = pending /\ rows' = rows /\ mark' = mark
  BY ZenonT(30) DEF Advance, deposits
<1>. HIDE DEF t
<1>7. Covered(d, req[p].floor[ax], {}, ax) /\ Covered(d, req[p].goal[ax], req[p].seen, ax)
  BY ZenonT(30), <1>1 DEF QueueInv, AxisInv, RequestCovered
<1>8. Covered(d, t.goal[ax], t.seen, ax)
  <2>1. CASE t.goal[ax] = req[p].goal[ax]
    BY ZenonT(30), <1>2, <1>7, <2>1
  <2>2. CASE d \in cursors /\ t.goal[ax] = mark[d][ax]
    <3>1. Covered(d, t.goal[ax], {}, ax)
      BY Zenon, <1>1, <2>2, MarkCovered
    <3>. QED  BY Zenon, <3>1 DEF Covered, Settled
  <2>3. CASE d \notin cursors /\ t.goal[ax] <= high[ax]
    BY Zenon, <1>1, <1>5, <2>3, NoCursorCovered
  <2>. QED  BY ZenonT(30), <1>3, <2>1, <2>2, <2>3
<1>. DEFINE After(e, r, S) ==
              \/ r \in taken[e] \cup S
              \/ r \in expired
              \/ r.id <= high'[ax] /\ (e \in cursors => r.id <= base[e][ax])
<1>ids. \A r \in InOrder(ax) : r.id \in Nat
  BY Zenon, <1>1 DEF InOrder, Fresh, OnAxis, Typed, TypeOK, Row
<1>raised. \A e \in Device, r \in InOrder(ax) : \A S : Settled(e, r, S, ax) => After(e, r, S)
  <2>1. \A r \in InOrder(ax) : r.id <= high[ax] => r.id <= high'[ax]
    <3>1. high[ax] <= high'[ax] /\ high[ax] \in Nat /\ high'[ax] \in Nat
      BY ZenonT(30), <1>3, <1>5
    <3>. QED  BY <1>ids, <3>1
  <2>. QED  BY Zenon, <2>1 DEF Settled
<1>9. ASSUME NEW e \in Device \ t.drop
      PROVE  \A r \in InOrder(ax) : Visible(e, r) /\ r.id <= t.cut[ax] =>
               After(e, r, IF e = d THEN t.seen ELSE {})
  <2>1. e # d /\ e \in cursors => t.cut[ax] <= mark[e][ax]
    BY ZenonT(30), <1>3
  <2>2. /\ high[ax] <= high'[ax] /\ t.cut[ax] <= t.goal[ax]
        /\ t.goal[ax] <= high'[ax]
    BY Zenon, <1>3
  <2>3. PICK c \in Nat, g \in Nat, h \in Nat :
          c = t.cut[ax] /\ g = t.goal[ax] /\ h = high'[ax]
    BY Zenon, <1>5
  <2>4. PICK S : S = t.seen
    BY Zenon
  <2>5. /\ Covered(d, g, S, ax) /\ high[ax] <= h /\ c <= g /\ g <= h
        /\ e # d /\ e \in cursors => c <= mark[e][ax]
    BY Zenon, <1>8, <2>1, <2>2, <2>3, <2>4
  <2>6. \A r \in InOrder(ax) : Visible(e, r) /\ r.id <= c =>
          \/ r \in taken[e] \/ (e = d /\ r \in S)
          \/ r \in expired
          \/ r.id <= h /\ (e \in cursors => r.id <= base[e][ax])
    BY Zenon, <1>1, <2>5, CutCovered
  <2>. QED  BY Zenon, <2>3, <2>4, <2>6
<1>10. RequestCovered(p, ax)'
  <2>1. req'[p] = t
    BY ZenonT(30) DEF t
  <2>2. Covered(d, req[p].floor[ax], {}, ax)'
    <3>1. \A r \in InOrder(ax) : Visible(d, r) /\ r.id <= t.floor[ax] => After(d, r, {})
      BY ZenonT(30), <1>2, <1>7, <1>raised, <1>1 DEF Covered
    <3>. QED  BY ZenonT(30), <1>6, <2>1, <3>1 DEF Covered, Settled, InOrder, Fresh
  <2>3. Covered(d, req[p].goal[ax], req[p].seen, ax)'
    <3>1. \A r \in InOrder(ax) : Visible(d, r) /\ r.id <= t.goal[ax] => After(d, r, t.seen)
      BY ZenonT(30), <1>1, <1>8, <1>raised DEF Covered
    <3>. QED  BY ZenonT(30), <1>6, <2>1, <3>1 DEF Covered, Settled, InOrder, Fresh
  <2>4. ASSUME NEW e \in Device \ t.drop
        PROVE  Covered(e, req[p].cut[ax], IF e = d THEN req[p].seen ELSE {}, ax)'
    BY ZenonT(30), <1>6, <1>9, <2>1 DEF Covered, Settled, InOrder, Fresh
  <2>. QED  BY Zenon, <1>2, <2>1, <2>2, <2>3, <2>4 DEF RequestCovered
<1>11. \A r \in Fresh(ax) : t.goal[ax] < r.id /\ high'[ax] < r.id
  <2>1. \A r \in Fresh(ax) : r.id \in Nat /\ high[ax] < r.id /\ req[p].goal[ax] < r.id
    BY Zenon, <1>1 DEF Ordered, Typed, TypeOK, InOrder, Fresh, OnAxis, Row
  <2>. SUFFICES ASSUME NEW r \in Fresh(ax) PROVE t.goal[ax] < r.id /\ high'[ax] < r.id
    BY Zenon
  <2>2. r.id \in Nat /\ high'[ax] < r.id
    BY Zenon, <1>3, <2>1
  <2>3. ~ (r.id <= t.goal[ax])
    BY Zenon, <1>3, <1>5, <2>2, IdChain
  <2>. QED  BY Zenon, <1>5, <2>2, <2>3, IdOrder
<1>. QED  BY Zenon, <1>2, <1>3, <1>4, <1>6, <1>10, <1>11, RequestStepKeeps DEF Advance

-----------------------------------------------------------------------------
\* A pinned floor passes settled envelopes only.
LEMMA PinKeeps ==
  ASSUME QueueInv, Typed', NEW ax \in Axis, NEW p \in Request, Pin(p)
  PROVE  (Locked /\ AxisInv(ax))'
<1>. USE QueueAssumption
<1>. DEFINE d == DeviceOf[p]
            m == upsert_cursor(d, Zero, req[p].floor)
            t == [req[p] EXCEPT !.pc = "read", !.floor = m]
<1>1. /\ Typed /\ Ordered(ax) /\ Locked /\ KeptOn(ax) /\ d \in Device /\ req[p].pc = "pin"
      /\ req[p] \in RequestState /\ req[p].floor \in Marks
  BY Zenon DEF QueueInv, AxisInv, Pin, Typed, TypeOK, RequestState
<1>2. \A a \in Axis : /\ mark[d][a] <= high[a] /\ req[p].floor[a] <= high[a]
                      /\ Zero[a] = 0 /\ high[a] \in Nat /\ mark[d][a] \in Nat /\ req[p].floor[a] \in Nat
  BY Zenon, <1>1, IdleTyped DEF Typed, TypeOK, Bounded, RequestBounded, Marks
<1>3. /\ m \in Marks /\ \A a \in Axis : m[a] <= high[a]
      /\ \A a \in Axis : d \in cursors => m[a] = mark[d][a]
      /\ \A a \in Axis : d \notin cursors => m[a] = req[p].floor[a]
  <2>1. \A a \in Axis : m[a] = IF d \in cursors THEN Larger(mark[d][a], Zero[a])
                                                 ELSE Larger(Zero[a], req[p].floor[a])
    BY Zenon DEF upsert_cursor
  <2>2. \A a \in Axis : /\ d \in cursors => m[a] = mark[d][a]
                        /\ d \notin cursors => m[a] = req[p].floor[a]
    BY Zenon, <1>2, <2>1, LargerZero
  <2>3. m \in Marks
    BY Zenon, <1>1, UpsertFact, IdleTyped
  <2>. HIDE DEF m
  <2>4. \A a \in Axis : m[a] <= high[a]
    BY Zenon, <1>2, <2>2
  <2>. QED  BY Zenon, <2>2, <2>3, <2>4
<1>. HIDE DEF m
<1>4. high' = high
  <2>1. high' = [a \in Axis |-> Larger(high[a], m[a])]
    BY Zenon DEF Pin, m
  <2>2. \A a \in Axis : m[a] \in Nat
    BY Zenon, <1>3 DEF Marks
  <2>3. \A a \in Axis : Larger(high[a], m[a]) = high[a]
    <3>1. \A m1, m2 \in Nat : m2 <= m1 => Larger(m1, m2) = m1
      BY Zenon DEF Larger
    <3>. QED  BY Zenon, <1>2, <1>3, <2>2, <3>1
  <2>4. high = [a \in Axis |-> high[a]]
    BY Zenon, <1>1 DEF Typed, TypeOK, Marks
  <2>. QED  BY Zenon, <2>1, <2>3, <2>4
<1>5. /\ StepTo(p, t) /\ CursorFree(d, p) /\ cursors' = cursors \cup {d} /\ mark' = [mark EXCEPT ![d] = m]
      /\ base' = IF d \in cursors THEN base ELSE [base EXCEPT ![d] = high]
      /\ pending' = pending /\ history' = history /\ late' = late /\ rows' = rows /\ expired' = expired /\ taken' = taken
  BY Zenon, <1>4 DEF Pin, deposits, m
<1>6. t.pc = "read" /\ t.floor = m /\ t.goal = req[p].goal
  BY Zenon, <1>1 DEF RequestState
<1>. HIDE DEF t
<1>7. req'[p] = t /\ \A q \in Request : q # p => req'[q] = req[q]
  BY Zenon, <1>1, <1>5 DEF StepTo, Typed, TypeOK
<1>8. /\ high[ax] \in Nat /\ high[ax] <= high'[ax]
      /\ \A e \in Device : taken[e] \subseteq taken'[e]
      /\ expired \subseteq expired' /\ InOrder(ax)' \ InOrder(ax) = {}
      /\ \A e \in cursors' : \/ e \in cursors /\ base'[e] = base[e]
                             \/ base'[e][ax] >= high[ax]
  <2>1. high[ax] \in Nat /\ high[ax] <= high'[ax] /\ high[ax] >= high[ax]
    BY Zenon, <1>2, <1>4, IdOrder
  <2>2. InOrder(ax)' \ InOrder(ax) = {}
    BY Zenon, <1>5 DEF InOrder, Fresh
  <2>3. d \notin cursors => base'[d] = high
    BY Zenon, <1>1, <1>5 DEF Typed, TypeOK
  <2>4. \A e \in cursors : base'[e] = base[e]
    BY ZenonT(30), <1>1, <1>5 DEF Typed, TypeOK
  <2>. QED  BY Zenon, <1>5, <2>1, <2>2, <2>3, <2>4
<1>9. Ordered(ax)'
  BY Zenon, <1>1, <1>4, <1>5, <1>6, <1>7 DEF Ordered, InOrder, Fresh
<1>10. Locked'
  <2>1. \A q \in Request : q # p /\ req[q].pc = "commit" => DeviceOf[q] # d
    BY Zenon, <1>5 DEF CursorFree
  <2>2. \A e \in Device : e # d => mark'[e] = mark[e] /\ (e \in cursors' <=> e \in cursors)
    BY Zenon, <1>1, <1>5 DEF Typed, TypeOK
  <2>3. t.pc # "commit"
    BY Zenon, <1>6
  <2>. SUFFICES ASSUME NEW q \in Request, q # p, req[q].pc = "commit"
                PROVE  /\ DeviceOf[q] \notin req[q].drop
                       /\ \A k \in Request : req'[k].pc = "commit" /\ DeviceOf[k] = DeviceOf[q] => k = q
                       /\ DeviceOf[q] \in cursors' => \A a \in Axis : mark'[DeviceOf[q]][a] <= req[q].goal[a]
    BY Zenon, <1>7, <2>3 DEF Locked
  <2>4. DeviceOf[q] # d /\ DeviceOf[q] \in Device
    BY Zenon, <2>1
  <2>. QED  BY Zenon, <1>1, <1>7, <2>2, <2>3, <2>4 DEF Locked
<1>11. ASSUME NEW q \in Request, q # p PROVE RequestCovered(q, ax)'
  BY Zenon, <1>1, <1>7, <1>8, <1>11, RequestCoveredStays DEF QueueInv, AxisInv
<1>12. RequestCovered(p, ax)'
  <2>1. Covered(d, m[ax], {}, ax)
    <3>1. CASE d \in cursors
      BY Zenon, <1>1, <1>3, <3>1, MarkCovered
    <3>2. CASE d \notin cursors
      BY Zenon, <1>1, <1>3, <3>2 DEF QueueInv, AxisInv, RequestCovered
    <3>. QED  BY Zenon, <3>1, <3>2
  <2>2. m[ax] \in Nat
    BY Zenon, <1>3 DEF Marks
  <2>3. \A r \in InOrder(ax)' : r.id <= m[ax] => r \in InOrder(ax)
    BY Zenon, <1>5 DEF InOrder, Fresh
  <2>4. Covered(d, req[p].floor[ax], {}, ax)'
    BY ZenonT(30), <1>1, <1>6, <1>7, <1>8, <2>1, <2>2, <2>3, CoveredStays DEF Covered, Settled
  <2>. QED  BY Zenon, <1>6, <1>7, <2>4 DEF RequestCovered
<1>13. KeptOn(ax)'
  <2>. SUFFICES ASSUME NEW e \in cursors', NEW r \in InOrder(ax), Visible(e, r)
                PROVE  \/ r \in taken[e] \/ r \in expired \/ r.id <= base'[e][ax]
                       \/ r \in rows /\ r.id > mark'[e][ax]
    BY Zenon, <1>5 DEF KeptOn, Kept, InOrder, Fresh
  <2>1. CASE e \in cursors
    <3>1. mark'[e][ax] = mark[e][ax] /\ base'[e] = base[e]
      BY ZenonT(30), <1>1, <1>3, <1>5, <2>1 DEF Typed, TypeOK
    <3>. QED  BY Zenon, <1>1, <2>1, <3>1 DEF KeptOn, Kept, InOrder, Fresh
  <2>2. CASE e \notin cursors
    <3>1. e = d /\ base'[e] = high /\ mark'[e] = m
      BY Zenon, <1>1, <1>5, <2>2 DEF Typed, TypeOK
    <3>2. r.id \in Nat /\ m[ax] \in Nat /\ m[ax] <= high[ax]
      BY Zenon, <1>1, <1>3 DEF InOrder, Fresh, OnAxis, Typed, TypeOK, Row, Marks
    <3>3. CASE r.id > high[ax]
      <4>1. r \in rows \cup expired
        BY Zenon, <1>1, <3>3 DEF Ordered
      <4>2. r.id > m[ax]
        BY Zenon, <1>8, <3>2, <3>3, IdChain
      <4>. QED  BY Zenon, <3>1, <4>1, <4>2
    <3>4. CASE r.id <= high[ax]
      BY Zenon, <3>1, <3>4
    <3>. QED  BY Zenon, <1>8, <3>2, <3>3, <3>4, IdOrder
  <2>. QED  BY Zenon, <2>1, <2>2
<1>14. \A q \in Request : RequestCovered(q, ax)'
  BY Zenon, <1>11, <1>12
<1>. QED  BY Zenon, <1>9, <1>10, <1>13, <1>14 DEF QueueInv, AxisInv

\* The commit reaps and moves marks over settled envelopes only.
LEMMA CommitKeeps ==
  ASSUME QueueInv, Typed', NEW ax \in Axis, NEW p \in Request, Commit(p)
  PROVE  (Locked /\ AxisInv(ax))'
<1>. USE QueueAssumption
<1>. DEFINE d == DeviceOf[p]
            t == req[p]
<1>1. /\ Typed /\ Ordered(ax) /\ Locked /\ KeptOn(ax) /\ d \in Device /\ t.pc = "commit"
      /\ t \in RequestState /\ d \notin t.drop /\ t.drop \subseteq Device
  BY Zenon DEF QueueInv, AxisInv, Commit, Typed, TypeOK, RequestState, Locked
<1>2. /\ high[ax] \in Nat /\ t.goal[ax] \in Nat /\ t.cut[ax] \in Nat
      /\ t.cut[ax] <= high[ax]
  BY Zenon, <1>1 DEF Typed, TypeOK, Bounded, RequestBounded, RequestState, Marks
<1>3. /\ StepTo(p, Idle) /\ high' = high /\ pending' = pending /\ history' = history /\ late' = late /\ expired' = expired
      /\ cursors' = (cursors \cup {d}) \ t.drop
  BY Zenon DEF Commit, CursorsLeft, deposits
<1>4. \A r \in OnAxis(rows, ax) : r.id > t.cut[ax] => r \in rows'
  BY Zenon DEF Commit, InOrder, Fresh, OnAxis
<1>5. \A e \in Device \ t.drop : /\ e = d => mark'[e] = t.goal
                                 /\ e # d => mark'[e] = mark[e]
  BY Zenon DEF Commit
<1>6. \A e \in Device \ t.drop : /\ e = d /\ d \notin cursors => base'[e] = high
                                 /\ ~ (e = d /\ d \notin cursors) => base'[e] = base[e]
  BY Zenon DEF Commit
<1>7. /\ \A e \in Device : taken[e] \subseteq taken'[e]
      /\ taken'[d] = taken[d] \cup t.seen
  BY Zenon, <1>1 DEF Commit, Typed, TypeOK
<1>8. req'[p] = Idle /\ \A q \in Request : q # p => req'[q] = req[q]
  BY Zenon, <1>1, <1>3 DEF StepTo, Typed, TypeOK
<1>9. \A r \in InOrder(ax) : r.id \in Nat
  BY Zenon, <1>1 DEF Typed, TypeOK, InOrder, Fresh, OnAxis, Row
<1>10. \A r \in InOrder(ax) : r.id > high[ax] => r \in rows' \cup expired
  <2>. SUFFICES ASSUME NEW r \in InOrder(ax), r.id > high[ax], r \in rows
                PROVE  r \in rows'
    BY Zenon, <1>1 DEF Ordered
  <2>1. r \in OnAxis(rows, ax)
    BY Zenon DEF InOrder, Fresh, OnAxis
  <2>2. r.id > t.cut[ax]
    BY Zenon, <1>2, <1>9, IdChain
  <2>. QED  BY Zenon, <1>4, <2>1, <2>2
<1>11. Ordered(ax)'
  <2>1. \A r \in Fresh(ax) : \A q \in Request : req'[q].goal[ax] < r.id
    <3>1. Idle.goal[ax] = 0
      BY Zenon, IdleTyped DEF Idle
    <3>2. \A r \in Fresh(ax) : r.id \in Nat /\ high[ax] < r.id
      BY Zenon, <1>1 DEF Ordered, Typed, TypeOK, InOrder, Fresh, OnAxis, Row
    <3>3. \A r \in Fresh(ax) : 0 < r.id
      BY Zenon, <1>2, <3>2, IdPositive
    <3>. QED  BY Zenon, <1>1, <1>8, <3>1, <3>3 DEF Ordered
  <2>. QED  BY Zenon, <1>1, <1>3, <1>10, <2>1 DEF Ordered, InOrder, Fresh
<1>12. Locked'
  <2>1. Idle.pc # "commit"
    BY Zenon DEF Idle
  <2>. SUFFICES ASSUME NEW q \in Request, q # p, req[q].pc = "commit"
                PROVE  /\ DeviceOf[q] \notin req[q].drop
                       /\ \A k \in Request : req'[k].pc = "commit" /\ DeviceOf[k] = DeviceOf[q] => k = q
                       /\ DeviceOf[q] \in cursors' => \A a \in Axis : mark'[DeviceOf[q]][a] <= req[q].goal[a]
    BY Zenon, <1>8, <2>1 DEF Locked
  <2>2. DeviceOf[q] # d /\ DeviceOf[q] \in Device
    BY Zenon, <1>1 DEF Locked
  <2>3. DeviceOf[q] \in cursors' => mark'[DeviceOf[q]] = mark[DeviceOf[q]] /\ DeviceOf[q] \in cursors
    BY Zenon, <1>3, <1>5, <2>2
  <2>. QED  BY Zenon, <1>1, <1>8, <2>1, <2>3 DEF Locked
<1>13. \A q \in Request : RequestCovered(q, ax)'
  <2>1. RequestCovered(p, ax)'
    BY Zenon, <1>8, IdleCovered
  <2>2. \A e \in cursors' : \/ e \in cursors /\ base'[e] = base[e]
                            \/ base'[e][ax] >= high[ax]
    <3>. SUFFICES ASSUME NEW e \in cursors'
                  PROVE  \/ e \in cursors /\ base'[e] = base[e]
                         \/ base'[e][ax] >= high[ax]
      BY Zenon
    <3>1. e \in Device \ t.drop /\ (e = d \/ e \in cursors)
      BY Zenon, <1>1, <1>3 DEF Typed, TypeOK
    <3>2. high[ax] >= high[ax]
      BY Zenon, <1>2, IdOrder
    <3>. QED  BY Zenon, <1>6, <3>1, <3>2
  <2>3. high[ax] <= high'[ax] /\ InOrder(ax)' \ InOrder(ax) = {} /\ expired \subseteq expired'
    <3>1. high[ax] <= high'[ax]
      BY Zenon, <1>2, <1>3, IdOrder
    <3>. QED  BY Zenon, <1>3, <3>1 DEF InOrder, Fresh
  <2>4. ASSUME NEW q \in Request, q # p PROVE RequestCovered(q, ax)'
    BY ZenonT(30), <1>1, <1>7, <1>8, <2>2, <2>3, <2>4, RequestCoveredStays DEF QueueInv, AxisInv
  <2>. QED  BY Zenon, <2>1, <2>4
<1>14. KeptOn(ax)'
  <2>. SUFFICES ASSUME NEW e \in cursors', NEW r \in InOrder(ax), Visible(e, r)
                PROVE  \/ r \in taken'[e] \/ r \in expired \/ r.id <= base'[e][ax]
                       \/ r \in rows' /\ r.id > mark'[e][ax]
    BY Zenon, <1>3 DEF KeptOn, Kept, InOrder, Fresh
  <2>1. e \in Device \ t.drop /\ (e = d \/ e \in cursors) /\ r.id \in Nat
    BY Zenon, <1>1, <1>3, <1>9 DEF Typed, TypeOK
  <2>2. Covered(e, t.cut[ax], IF e = d THEN t.seen ELSE {}, ax) /\ Covered(d, t.goal[ax], t.seen, ax)
    BY Zenon, <1>1, <2>1 DEF QueueInv, AxisInv, RequestCovered
  <2>3. r \in rows /\ ~ (r.id <= t.cut[ax]) => r \in rows'
    <3>1. r \in rows => r \in OnAxis(rows, ax)
      BY Zenon DEF InOrder, Fresh, OnAxis
    <3>. QED  BY Zenon, <1>2, <1>4, <2>1, <3>1, IdOrder
  <2>4. CASE e = d /\ d \notin cursors
    <3>1. base'[e] = high /\ mark'[e] = t.goal
      BY Zenon, <1>5, <1>6, <2>1, <2>4
    <3>2. CASE r.id <= high[ax]
      BY Zenon, <3>1, <3>2
    <3>3. CASE ~ (r.id <= high[ax])
      <4>1. r \in rows' \cup expired
        BY Zenon, <1>2, <1>10, <2>1, <3>3, IdOrder
      <4>2. r.id <= t.goal[ax] => r \in taken'[e] \cup expired
        BY Zenon, <1>7, <2>2, <2>4, <3>3 DEF Covered, Settled
      <4>3. r.id <= t.goal[ax] \/ r.id > t.goal[ax]
        BY Zenon, <1>2, <2>1, IdOrder
      <4>. QED  BY Zenon, <3>1, <4>1, <4>2, <4>3
    <3>. QED  BY Zenon, <3>2, <3>3
  <2>5. CASE e = d /\ d \in cursors
    <3>1. base'[e] = base[e] /\ mark'[e] = t.goal
      BY Zenon, <1>5, <1>6, <2>1, <2>5
    <3>2. r.id <= t.goal[ax] => r \in taken'[e] \/ r \in expired \/ r.id <= base'[e][ax]
      BY Zenon, <1>7, <2>2, <2>5, <3>1 DEF Covered, Settled
    <3>3. r.id <= t.cut[ax] => r \in taken'[e] \/ r \in expired \/ r.id <= base'[e][ax]
      BY Zenon, <1>7, <2>2, <2>5, <3>1 DEF Covered, Settled
    <3>4. r \in taken'[e] \/ r \in expired \/ r.id <= base'[e][ax] \/ r \in rows
      BY Zenon, <1>1, <1>7, <2>5, <3>1 DEF KeptOn, Kept, InOrder, Fresh
    <3>5. r.id <= t.goal[ax] \/ r.id > t.goal[ax]
      BY Zenon, <1>2, <2>1, IdOrder
    <3>. QED  BY Zenon, <2>3, <3>1, <3>2, <3>3, <3>4, <3>5
  <2>6. CASE e # d
    <3>1. base'[e] = base[e] /\ mark'[e] = mark[e] /\ e \in cursors
      BY Zenon, <1>5, <1>6, <2>1, <2>6
    <3>2. r.id <= t.cut[ax] => r \in taken'[e] \/ r \in expired \/ r.id <= base'[e][ax]
      BY Zenon, <1>7, <2>1, <2>2, <2>6, <3>1 DEF Covered, Settled
    <3>3. r \in taken'[e] \/ r \in expired \/ r.id <= base'[e][ax] \/ (r \in rows /\ r.id > mark'[e][ax])
      BY Zenon, <1>1, <1>7, <2>1, <3>1 DEF KeptOn, Kept, InOrder, Fresh
    <3>. QED  BY Zenon, <2>3, <3>2, <3>3
  <2>. QED  BY Zenon, <2>1, <2>4, <2>5, <2>6
<1>. QED  BY ZenonT(30), <1>11, <1>12, <1>13, <1>14 DEF QueueInv, AxisInv

\* Revoking an install takes its cursor away and nobody's envelopes.
LEMMA RevokeKeeps ==
  ASSUME QueueInv, Typed', NEW ax \in Axis, NEW d \in Device, Revoke(d)
  PROVE  (Locked /\ AxisInv(ax))'
<1>. USE QueueAssumption
<1>1. Typed /\ Ordered(ax) /\ Locked /\ KeptOn(ax) /\ high[ax] \in Nat
  BY Zenon DEF QueueInv, AxisInv, Typed, TypeOK, Marks
<1>2. /\ pending' = pending /\ history' = history /\ late' = late /\ rows' = rows /\ expired' = expired
      /\ high' = high /\ taken' = taken /\ req' = req /\ cursors' = cursors \ {d}
      /\ \A q \in Request : req[q].pc = "commit" => DeviceOf[q] # d
  BY Zenon DEF Revoke, deposits
<1>3. \A e \in Device : e # d => mark'[e] = mark[e] /\ base'[e] = base[e]
  BY Zenon, <1>1 DEF Revoke, Typed, TypeOK
<1>4. Ordered(ax)'
  BY Zenon, <1>1, <1>2 DEF Ordered, InOrder, Fresh
<1>5. Locked'
  BY Zenon, <1>1, <1>2, <1>3 DEF Locked
<1>6. \A p \in Request : RequestCovered(p, ax)'
  <2>1. /\ high[ax] <= high'[ax] /\ InOrder(ax)' \ InOrder(ax) = {}
        /\ expired \subseteq expired' /\ \A e \in Device : taken[e] \subseteq taken'[e]
        /\ \A e \in cursors' : e \in cursors /\ base'[e] = base[e]
    <3>1. high[ax] <= high'[ax]
      BY Zenon, <1>1, <1>2, IdOrder
    <3>2. InOrder(ax)' \ InOrder(ax) = {}
      BY Zenon, <1>2 DEF InOrder, Fresh
    <3>3. \A e \in cursors' : e \in cursors /\ base'[e] = base[e]
      BY Zenon, <1>1, <1>2, <1>3 DEF Typed, TypeOK
    <3>. QED  BY Zenon, <1>2, <3>1, <3>2, <3>3
  <2>. QED  BY Zenon, <1>1, <1>2, <2>1, RequestCoveredStays DEF QueueInv, AxisInv
<1>7. KeptOn(ax)'
  <2>1. \A e \in cursors' : e \in cursors /\ mark'[e] = mark[e] /\ base'[e] = base[e]
    BY Zenon, <1>1, <1>2, <1>3 DEF Typed, TypeOK
  <2>. QED  BY Zenon, <1>1, <1>2, <2>1 DEF KeptOn, Kept
<1>. QED  BY Zenon, <1>4, <1>5, <1>6, <1>7 DEF QueueInv, AxisInv

\* The sweep moves rows to expired.
LEMMA SweepKeeps ==
  ASSUME QueueInv, Typed', NEW ax \in Axis, NEW a \in Axis, SweepExpired(a)
  PROVE  (Locked /\ AxisInv(ax))'
<1>1. Typed /\ Ordered(ax) /\ Locked /\ KeptOn(ax) /\ high[ax] \in Nat
  BY Zenon DEF QueueInv, AxisInv, Typed, TypeOK, Marks
<1>2. /\ pending' = pending /\ history' = history /\ late' = late /\ high' = high /\ taken' = taken /\ req' = req
      /\ cursors' = cursors /\ mark' = mark /\ base' = base
      /\ expired \subseteq expired' /\ \A r \in rows : r \in rows' \/ r \in expired'
  BY Zenon DEF SweepExpired, deposits, cursorVars
<1>3. Ordered(ax)'
  BY Zenon, <1>1, <1>2 DEF Ordered, InOrder, Fresh
<1>4. Locked'
  BY Zenon, <1>1, <1>2 DEF Locked
<1>5. \A p \in Request : RequestCovered(p, ax)'
  <2>1. /\ high[ax] <= high'[ax] /\ InOrder(ax)' \ InOrder(ax) = {}
        /\ \A e \in Device : taken[e] \subseteq taken'[e]
    BY <1>1, <1>2 DEF InOrder, Fresh, OnAxis
  <2>. QED  BY Zenon, <1>1, <1>2, <2>1, RequestCoveredStays DEF QueueInv, AxisInv
<1>6. KeptOn(ax)'
  BY Zenon, <1>1, <1>2 DEF KeptOn, Kept
<1>. QED  BY Zenon, <1>3, <1>4, <1>5, <1>6 DEF QueueInv, AxisInv

\* Time, and steps of other parts, change nothing QueueInv reads.
LEMMA QuietKeeps ==
  ASSUME QueueInv, Typed', NEW ax \in Axis,
         UNCHANGED <<deposits, rows, expired, cursorVars, taken, req, revoked>>
  PROVE  (Locked /\ AxisInv(ax))'
<1>1. /\ pending' = pending /\ history' = history /\ late' = late /\ rows' = rows /\ expired' = expired
      /\ cursors' = cursors /\ mark' = mark /\ base' = base /\ high' = high
      /\ taken' = taken /\ req' = req
  BY Zenon DEF deposits, cursorVars
<1>2. Ordered(ax)'
  BY <1>1, Zenon DEF QueueInv, AxisInv, Ordered, InOrder, Fresh, OnAxis
<1>3. Locked'
  BY <1>1, Zenon DEF QueueInv, AxisInv, Locked
<1>4. ASSUME NEW p \in Request PROVE RequestCovered(p, ax)'
  <2>1. RequestCovered(p, ax)
    BY Zenon DEF QueueInv, AxisInv
  <2>. QED  BY <1>1, <2>1, ZenonT(30) DEF RequestCovered, Covered, Settled, InOrder, Fresh, OnAxis, Visible
<1>5. KeptOn(ax)'
  BY <1>1, Zenon DEF QueueInv, AxisInv, KeptOn, Kept, OnAxis, Visible
<1>. QED  BY Zenon, <1>2, <1>3, <1>4, <1>5 DEF QueueInv, AxisInv

\* Steps that deposit nothing keep the numbering of the rows.
LEMMA NumberedQuiet ==
  ASSUME Numbered, UNCHANGED <<pending, history, late>>
  PROVE  Numbered'
  BY Zenon DEF Numbered, OnAxis

\* The part of the invariant that is the same for every table.
LEMMA NextNumbered == QueueInv /\ [Next]_vars => Numbered'
<1>. SUFFICES ASSUME QueueInv, [Next]_vars PROVE Numbered'
  BY Zenon
<1>0. Numbered
  BY Zenon DEF QueueInv
<1>1. ASSUME NEW to \in Addressee, DepositDirect(to) PROVE Numbered'
  BY Zenon, <1>1, InsertNumbered DEF DepositDirect, Axis
<1>2. CASE DepositGroup
  BY Zenon, <1>2, InsertNumbered DEF DepositGroup, Axis
<1>3. ASSUME NEW r \in pending, CommitDeposit(r) \/ RollbackDeposit(r) PROVE Numbered'
  BY Zenon, <1>3, DepositNumbered
<1>4. ASSUME UNCHANGED deposits PROVE Numbered'
  BY Zenon, <1>0, <1>4, NumberedQuiet DEF deposits
<1>5. ASSUME NEW p \in Request,
             \/ \E job \in JobsOf[p] : Begin(p, job)
             \/ Pin(p) \/ FetchReply(p) \/ DrainRead(p) \/ AckPrefix(p) \/ Advance(p)
             \/ Commit(p) \/ Abort(p)
      PROVE  UNCHANGED deposits
  BY ZenonT(30), <1>5 DEF Begin, Pin, FetchReply, DrainRead, AckPrefix, Advance, Commit, Abort
<1>6. ASSUME \/ \E d \in Device : Revoke(d)
             \/ \E ax \in Axis : SweepExpired(ax)
             \/ Tick
             \/ UNCHANGED vars
      PROVE  UNCHANGED deposits
  BY Zenon, <1>6 DEF Revoke, SweepExpired, Tick, vars
<1>. QED  BY Zenon, <1>1, <1>2, <1>3, <1>4, <1>5, <1>6 DEF Next

\* The part of the invariant that speaks of one table.
LEMMA NextAxisInv ==
  ASSUME QueueInv, [Next]_vars, NEW ax \in Axis
  PROVE  (Locked /\ AxisInv(ax))'
<1>. DEFINE Goal == (Locked /\ AxisInv(ax))'
<1>0. Typed'
  BY Zenon, NextTyped DEF QueueInv
<1>1. ASSUME NEW to \in Addressee, DepositDirect(to) PROVE Goal
  BY Zenon, <1>0, <1>1, InsertKeeps DEF DepositDirect, Axis
<1>2. ASSUME DepositGroup PROVE Goal
  BY Zenon, <1>0, <1>2, InsertKeeps DEF DepositGroup, Axis
<1>3. ASSUME NEW r \in pending, CommitDeposit(r) \/ RollbackDeposit(r) PROVE Goal
  BY Zenon, <1>0, <1>3, CommitDepositKeeps, RollbackKeeps
<1>4. ASSUME NEW p \in Request, NEW job \in JobsOf[p], Begin(p, job) PROVE Goal
  BY Zenon, <1>0, <1>4, BeginKeeps
<1>5. ASSUME NEW p \in Request, FetchReply(p) PROVE Goal
  <2>1. \A d \in Device : taken[d] \subseteq taken'[d]
    <3>1. DeviceOf[p] \in Device /\ taken \in [Device -> SUBSET Row]
      BY Zenon, QueueAssumption DEF QueueInv, Typed, TypeOK
    <3>. QED  BY Zenon, <1>5, <3>1 DEF FetchReply
  <2>. QED  BY Zenon, <1>0, <1>5, <2>1, AbortKeeps DEF FetchReply
<1>6. ASSUME NEW p \in Request, Abort(p) PROVE Goal
  BY Zenon, <1>0, <1>6, AbortKeeps DEF Abort
<1>7. ASSUME NEW p \in Request, Pin(p) \/ DrainRead(p) \/ AckPrefix(p) \/ Advance(p) \/ Commit(p)
      PROVE  Goal
  BY Zenon, <1>0, <1>7, PinKeeps, DrainReadKeeps, AckPrefixKeeps, AdvanceKeeps, CommitKeeps
<1>8. ASSUME NEW d \in Device, Revoke(d) PROVE Goal
  BY Zenon, <1>0, <1>8, RevokeKeeps
<1>9. ASSUME NEW a \in Axis, SweepExpired(a) PROVE Goal
  BY Zenon, <1>0, <1>9, SweepKeeps
<1>10. ASSUME Tick PROVE Goal
  BY Zenon, <1>0, <1>10, QuietKeeps DEF Tick
<1>11. ASSUME UNCHANGED vars PROVE Goal
  BY Zenon, <1>0, <1>11, QuietKeeps DEF vars
<1>. HIDE DEF Goal
<1>12. Goal
  BY Zenon, <1>1, <1>2, <1>3, <1>4, <1>5, <1>6, <1>7, <1>8, <1>9, <1>10, <1>11 DEF Next
<1>. QED  BY Zenon, <1>12 DEF Goal

\* Every step preserves the inductive invariant.
LEMMA NextQueueInv == QueueInv /\ [Next]_vars => QueueInv'
<1>. SUFFICES ASSUME QueueInv, [Next]_vars PROVE QueueInv'
  BY Zenon
<1>1. Typed' /\ Numbered'
  BY Zenon, NextTyped, NextNumbered DEF QueueInv
<1>2. \A ax \in Axis : Locked' /\ AxisInv(ax)'
  BY Zenon, NextAxisInv
<1>3. "direct" \in Axis
  BY Zenon DEF Axis
<1>. QED  BY Zenon, <1>1, <1>2, <1>3 DEF QueueInv

\* No 1:1 envelope is lost to an install that has a cursor, whatever the number
\* of installs, concurrent requests and rows.
THEOREM DirectNeverLost == Spec => []DirectKept
<1>1. QueueInv => DirectKept
  <2>. SUFFICES ASSUME QueueInv PROVE DirectKept
    BY Zenon
  <2>1. KeptOn("direct") /\ OnAxis(late, "direct") = {}
    BY Zenon DEF QueueInv, AxisInv, Numbered, Axis
  <2>2. OnAxis(history \ late, "direct") = OnAxis(history, "direct")
    BY <2>1 DEF OnAxis
  <2>. QED  BY Zenon, <2>1, <2>2 DEF DirectKept, KeptOn, Kept
<1>. QED  BY <1>1, InitQueueInv, NextQueueInv, PTL DEF Spec

\* Nor is a group copy, unless it committed after a copy with a higher id:
\* the only copies a drain, an ack or the reaper can pass over are those.
THEOREM InOrderNeverLost == Spec => []InOrderKept
<1>1. QueueInv => InOrderKept
  BY Zenon DEF QueueInv, AxisInv, KeptOn, InOrderKept
<1>. QED  BY <1>1, InitQueueInv, NextQueueInv, PTL DEF Spec

-----------------------------------------------------------------------------
(* Marks only move forward.                                                *)

\* A commit leaves its device's marks no lower than they were.
LEMMA CommitForward ==
  ASSUME QueueInv, NEW p \in Request, Commit(p), NEW d \in cursors \cap cursors', NEW ax \in Axis
  PROVE  mark'[d][ax] >= mark[d][ax]
<1>. USE QueueAssumption
<1>1. d \in Device /\ d \notin req[p].drop
  BY Zenon DEF Commit, CursorsLeft, QueueInv, Typed, TypeOK
<1>2. mark[d][ax] \in Nat /\ req[p].goal[ax] \in Nat
  BY <1>1 DEF QueueInv, Typed, TypeOK, Marks, RequestState
<1>3. CASE d = DeviceOf[p]
  <2>1. mark'[d] = req[p].goal
    BY ZenonT(30), <1>1, <1>3 DEF Commit
  <2>2. mark[d][ax] <= req[p].goal[ax]
    BY Zenon, <1>3 DEF Commit, QueueInv, Locked
  <2>. QED  BY ZenonT(30), <1>2, <2>1, <2>2
<1>4. CASE d # DeviceOf[p]
  <2>1. mark'[d] = mark[d]
    BY Zenon, <1>1, <1>4 DEF Commit
  <2>. QED  BY SMTT(30), <1>2, <2>1
<1>. QED  BY ZenonT(30), <1>3, <1>4

\* No ack, drain or revocation, however stale or repeated, moves a mark of an
\* existing cursor backwards.
THEOREM MarksForward == Spec => CursorForward
<1>1. ASSUME QueueInv, [Next]_vars, NEW d \in cursors \cap cursors', NEW ax \in Axis
      PROVE  mark'[d][ax] >= mark[d][ax]
  <2>. USE QueueAssumption
  <2>1. d \in Device /\ mark \in [Device -> Marks] /\ mark[d][ax] \in Nat
    BY ZenonT(30), <1>1 DEF QueueInv, Typed, TypeOK, Marks
  <2>2. ASSUME mark' = mark PROVE mark'[d][ax] >= mark[d][ax]
    BY <2>1, <2>2
  <2>3. ASSUME NEW p \in Request, Pin(p) PROVE mark'[d][ax] >= mark[d][ax]
    <3>1. CASE d = DeviceOf[p]
      <4>1. mark'[d][ax] = Larger(mark[d][ax], 0)
        BY Zenon, <1>1, <2>1, <2>3, <3>1, IdleTyped DEF Pin, upsert_cursor, Zero
      <4>. QED  BY <2>1, <4>1 DEF Larger
    <3>2. CASE d # DeviceOf[p]
      <4>1. mark'[d] = mark[d]
        BY Zenon, <2>1, <2>3, <3>2 DEF Pin
      <4>. QED  BY <2>1, <4>1
    <3>. QED  BY Zenon, <3>1, <3>2
  <2>4. ASSUME NEW e \in Device, Revoke(e) PROVE mark'[d][ax] >= mark[d][ax]
    <3>1. mark'[d] = mark[d]
      BY Zenon, <1>1, <2>1, <2>4 DEF Revoke
    <3>. QED  BY <2>1, <3>1
  <2>5. ASSUME NEW p \in Request, Commit(p) PROVE mark'[d][ax] >= mark[d][ax]
    BY ZenonT(30), <1>1, <2>5, CommitForward
  <2>6. ASSUME NEW p \in Request,
               \/ \E job \in JobsOf[p] : Begin(p, job)
               \/ FetchReply(p) \/ DrainRead(p) \/ AckPrefix(p) \/ Advance(p) \/ Abort(p)
        PROVE  mark' = mark
    BY ZenonT(30), <2>6 DEF Begin, FetchReply, DrainRead, AckPrefix, Advance, Abort, cursorVars
  <2>7. ASSUME \/ \E to \in Addressee : DepositDirect(to)
               \/ DepositGroup
               \/ \E r \in pending : CommitDeposit(r) \/ RollbackDeposit(r)
               \/ \E a \in Axis : SweepExpired(a)
               \/ Tick
               \/ UNCHANGED vars
        PROVE  mark' = mark
    BY Zenon, <2>7 DEF DepositDirect, DepositGroup, Insert, CommitDeposit, RollbackDeposit,
                SweepExpired, Tick, cursorVars, vars
  <2>. QED  BY Zenon, <1>1, <2>2, <2>3, <2>4, <2>5, <2>6, <2>7 DEF Next
<1>2. QueueInv /\ [Next]_vars =>
        [\A d \in cursors \cap cursors' : \A ax \in Axis : mark'[d][ax] >= mark[d][ax]]_vars
  BY Zenon, <1>1
<1>. QED  BY <1>2, InitQueueInv, NextQueueInv, PTL DEF Spec, CursorForward

-----------------------------------------------------------------------------
(* Sequence numbers.                                                       *)

\* The mailbox lock again: committed numbers reach up to the counter, the row
\* in flight holds the next one.
SeqInv ==
  /\ QueueInv /\ SeqAgreesWithId
  /\ \A r \in OnAxis(history, "direct") : r.seq <= counter
  /\ \A r \in OnAxis(pending, "direct") : r.seq = counter + 1

\* Steps that deposit nothing keep the numbering.
LEMMA SeqQuiet ==
  ASSUME SeqInv, QueueInv', UNCHANGED <<counter, history>>, pending' \subseteq pending
  PROVE  SeqInv'
  BY ZenonT(30) DEF SeqInv, SeqAgreesWithId, OnAxis

\* Every step keeps the numbering.
LEMMA NextSeqInv == SeqInv /\ [Next]_vars => SeqInv'
<1>. SUFFICES ASSUME SeqInv, [Next]_vars PROVE SeqInv'
  BY Zenon
<1>0. QueueInv /\ QueueInv' /\ Typed
  BY Zenon, NextQueueInv DEF SeqInv, QueueInv
<1>1. ASSUME NEW ax \in Axis, NEW to, NEW seq, Insert(ax, to, seq), ax = "direct" => seq = counter + 1
      PROVE  SeqInv'
  BY <1>0, <1>1 DEF Insert, SeqInv, SeqAgreesWithId, OnAxis
<1>2. ASSUME NEW r \in pending, CommitDeposit(r), r.axis = "direct" PROVE SeqInv'
  <2>1. /\ history' = history \cup {r} /\ pending' = pending \ {r} /\ counter' = r.seq
        /\ r \in OnAxis(pending, "direct")
    BY ZenonT(30), <1>2 DEF CommitDeposit, OnAxis
  <2>2. /\ counter \in Nat /\ r.seq = counter + 1 /\ r.id \in Nat
        /\ \A s \in OnAxis(history, "direct") : s.seq \in Nat /\ s.id \in Nat /\ s.seq <= counter /\ s.id < r.id
    BY ZenonT(30), <1>0, <2>1 DEF SeqInv, QueueInv, Typed, TypeOK, Numbered, Row, OnAxis
  <2>3. OnAxis(history', "direct") = OnAxis(history, "direct") \cup {r} /\ OnAxis(pending', "direct") = {}
    BY Zenon, <1>0, <2>1 DEF QueueInv, Numbered, OnAxis
  <2>4. \A s, u \in OnAxis(history, "direct") : s.id < u.id <=> s.seq < u.seq
    BY Zenon DEF SeqInv, SeqAgreesWithId
  <2>5. \A s \in OnAxis(history, "direct") : /\ s.seq < r.seq /\ ~ (r.id < s.id) /\ ~ (r.seq < s.seq)
                                   /\ s.seq <= counter'
    BY <2>1, <2>2
  <2>6. ~ (r.id < r.id) /\ ~ (r.seq < r.seq) /\ r.seq <= counter'
    BY <2>1, <2>2
  <2>7. \A s, u \in OnAxis(history', "direct") : s.id < u.id <=> s.seq < u.seq
    BY Zenon, <2>2, <2>3, <2>4, <2>5, <2>6
  <2>. QED  BY Zenon, <1>0, <2>3, <2>5, <2>6, <2>7 DEF SeqInv, SeqAgreesWithId
<1>3. ASSUME NEW r \in pending, CommitDeposit(r), r.axis # "direct" PROVE SeqInv'
  BY Zenon, <1>0, <1>3 DEF CommitDeposit, SeqInv, SeqAgreesWithId, OnAxis
<1>4. ASSUME NEW r \in pending, RollbackDeposit(r) PROVE SeqInv'
  BY Zenon, <1>0, <1>4, SeqQuiet DEF RollbackDeposit
<1>5. ASSUME UNCHANGED deposits PROVE SeqInv'
  BY Zenon, <1>0, <1>5, SeqQuiet DEF deposits
<1>6. CASE \E to \in Addressee : DepositDirect(to)
  BY Zenon, <1>1, <1>6 DEF DepositDirect, Axis
<1>7. CASE DepositGroup
  BY ZenonT(30), <1>1, <1>7 DEF DepositGroup, Axis
<1>8. ASSUME NEW p \in Request,
             \/ \E job \in JobsOf[p] : Begin(p, job)
             \/ Pin(p) \/ FetchReply(p) \/ DrainRead(p) \/ AckPrefix(p) \/ Advance(p)
             \/ Commit(p) \/ Abort(p)
      PROVE  UNCHANGED deposits
  BY ZenonT(30), <1>8 DEF Begin, Pin, FetchReply, DrainRead, AckPrefix, Advance, Commit, Abort
<1>9. ASSUME \/ \E d \in Device : Revoke(d)
             \/ \E ax \in Axis : SweepExpired(ax)
             \/ Tick
             \/ UNCHANGED vars
      PROVE  UNCHANGED deposits
  BY Zenon, <1>9 DEF Revoke, SweepExpired, Tick, vars
<1>. QED  BY Zenon, <1>2, <1>3, <1>4, <1>5, <1>6, <1>7, <1>8, <1>9 DEF Next

\* The sequence numbers of _next_mailbox_seq order a mailbox as its ids do.
THEOREM SeqOrdersMailbox == Spec => []SeqAgreesWithId
<1>1. Init => SeqInv
  <2>. SUFFICES ASSUME Init PROVE SeqInv
    BY Zenon
  <2>1. QueueInv
    BY Zenon, InitQueueInv
  <2>. QED  BY Zenon, <2>1 DEF Init, SeqInv, SeqAgreesWithId, OnAxis
<1>2. SeqInv => SeqAgreesWithId
  BY Zenon DEF SeqInv
<1>. QED  BY <1>1, <1>2, NextSeqInv, PTL DEF Spec
=============================================================================
