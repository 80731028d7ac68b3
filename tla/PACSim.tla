------------------------------- MODULE PACSim -------------------------------
(***************************************************************************)
(* The cache-policy simulator of pac/: the four worker-set caches of       *)
(* pac/cache.py (LRU, LFU, FIFO and the pipeline-aware PACache), the       *)
(* version score matrices and their SL/UL update rules of pac/vsm.py, the  *)
(* pipeline history of pac/history.py, and the driver loops of             *)
(* pac/test_pac.py that feed them one pipeline at a time.                  *)
(*                                                                         *)
(* Data abstractions.  A component is its pipeline position f; a version   *)
(* is a pair <<major, minor>>.  Scores are kept as exact rationals: each   *)
(* VSM is a record [n |-> numerators, d |-> common denominator], reduced   *)
(* by the gcd after every scaling, and alpha is AlphaNum/AlphaDen.         *)
(***************************************************************************)
EXTENDS Integers, Sequences, SequencesExt, FiniteSets

CONSTANTS
    L,                  \* vt.NUM_PIPELINE_LENGTH, the pipeline length
    MaxMajor,           \* MAX_MAJOR_VERSION of vsm.py
    MaxMinor,           \* MAX_MINOR_VERSION of vsm.py
    WorkerSetSize,      \* worker_set_size given to the cache
    HistoryCapacity,    \* history_capacity / max_history
    AlphaNum, AlphaDen, \* alpha = AlphaNum / AlphaDen
    Policies,           \* the cache classes the driver may exercise
    EnableSL,           \* enable_sl of test_vsm_transform
    EnableUL,           \* enable_ul of test_vsm_transform
    Inputs,             \* the pipelines the workload may submit
    MaxPipelines        \* length of the workload

Positions == 0..(L - 1)
Versions  == (0..MaxMajor) \X (0..MaxMinor)
Pipelines == [Positions -> Versions]
Entries   == Positions \X Versions       \* a worker (f, v) of the set

ASSUME /\ L \in Nat \ {0} /\ MaxMajor \in Nat /\ MaxMinor \in Nat
       /\ WorkerSetSize \in Nat /\ HistoryCapacity \in Nat \ {0}
       /\ AlphaNum \in Nat \ {0} /\ AlphaDen \in Nat /\ AlphaNum < AlphaDen
       /\ Policies \subseteq {"LRU", "LFU", "FIFO", "PAC"} /\ Policies # {}
       /\ EnableSL \in BOOLEAN /\ EnableUL \in BOOLEAN
       /\ Inputs \subseteq Pipelines /\ Inputs # {}
       /\ MaxPipelines \in Nat

VARIABLES
    policy,      \* the cache class the driver instantiated
    ws,          \* BaseCache._worker_set, a list of (f, v)
    freq,        \* LFUCache._frequency_table, aligned with ws
    time,        \* LFUCache._time, aligned with ws
    cold,        \* BaseCache._num_cold_start
    vsm,         \* PACache._vsms, one score matrix per position
    hist,        \* PACache._history, the real columns only
    cur,         \* the pipeline pipeline_iter is working on
    pos,         \* the next position of cur to get
    phase,       \* "idle" between pipelines, "get" inside pipeline_iter
    \* history variables, used only by the properties
    submitted,   \* every pipeline submitted so far
    clock,       \* number of get calls so far
    lastUse,     \* lastUse[e]: the get that last asked for e
    insertedAt,  \* insertedAt[e]: the get that last inserted e
    hits         \* hits[e]: hits on e since it was last inserted

vars == <<policy, ws, freq, time, cold, vsm, hist, cur, pos, phase,
          submitted, clock, lastUse, insertedAt, hits>>

-----------------------------------------------------------------------------
(* Exact rationals for the scores.                                         *)

RECURSIVE GCD(_, _)
GCD(a, b) == IF b = 0 THEN a ELSE GCD(b, a % b)

\* Divide numerators and denominator of a score matrix by their gcd.
Reduce(s) ==
    LET g == FoldSet(GCD, s.d, {s.n[v] : v \in Versions})
    IN  [n |-> [v \in Versions |-> s.n[v] \div g], d |-> s.d \div g]

\* VSM.__init__: every entry 1 / (rows * cols).
UniformVSM == [n |-> [v \in Versions |-> 1], d |-> Cardinality(Versions)]

\* The score of entry v, as a pair <<numerator, denominator>>.
Score(s, v) == <<s.n[v], s.d>>

\* p < q and p <= q for the pairs above (denominators are positive).
RatLess(p, q) == p[1] * q[2] < q[1] * p[2]
RatLeq(p, q)  == p[1] * q[2] <= q[1] * p[2]

\* VSM.scale_entry: (1 - alpha) * s + alpha * E_v.
ScaleEntry(s, v) ==
    Reduce([n |-> [u \in Versions |->
                    (AlphaDen - AlphaNum) * s.n[u]
                    + (IF u = v THEN AlphaNum * s.d ELSE 0)],
            d |-> AlphaDen * s.d])

\* A scale_batch that forgets to divide the indicator by |V|.
ScaleBatchUndivided(s, V) ==
    IF Cardinality(V) <= 0 THEN s
    ELSE Reduce([n |-> [u \in Versions |->
                         (AlphaDen - AlphaNum) * s.n[u]
                         + (IF u \in V THEN AlphaNum * s.d ELSE 0)],
                 d |-> AlphaDen * s.d])

\* VSM.scale_batch: a no-op for an empty V, otherwise
\* (1 - alpha) * s + alpha * E_V / |V|.
ScaleBatch(s, V) ==
    IF Cardinality(V) <= 0 THEN s
    ELSE LET k == Cardinality(V)
         IN  Reduce([n |-> [u \in Versions |->
                             (AlphaDen - AlphaNum) * k * s.n[u]
                             + (IF u \in V THEN AlphaNum * s.d ELSE 0)],
                     d |-> AlphaDen * k * s.d])

-----------------------------------------------------------------------------
(* The pipeline history.                                                   *)

\* History.append: the array starts with one dummy column, so it has
\* Len(h) + 2 columns after the concatenation; above the capacity the
\* oldest real column (index 1) is deleted.
HistoryAppend(h, p) ==
    IF Len(h) + 2 > HistoryCapacity THEN Tail(Append(h, p)) ELSE Append(h, p)

\* vsm_transform_sl: for every position k of the newest pipeline, reward
\* all versions except those an earlier pipeline had at k and the newest
\* one does not.
TransformSL(vs, h) ==
    IF Len(h) <= 1 THEN vs
    ELSE LET p     == h[Len(h)]
             Vc(k) == {h[i][k] : i \in 1..(Len(h) - 1)} \ {p[k]}
         IN  [f \in Positions |-> ScaleBatch(vs[f], Versions \ Vc(f))]

\* One iteration k of the loop of vsm_transform_ul, pt the newest pipeline
\* and pt1 its predecessor.
ULIteration(vs, pt, pt1, k) ==
    LET m1 == pt[k][1]
        n1 == pt[k][2]
        m2 == pt1[k][1]
        n2 == pt1[k][2]
        majorOnly == m1 # m2 /\ n1 = n2
        minorOnly == m1 = m2 /\ n1 # n2
        \* range(0, k - 1): the positions i < k - 1
        step1 == [f \in Positions |->
                    IF f < k - 1 THEN ScaleBatch(vs[f], Versions \ {pt[f]})
                                 ELSE vs[f]]
        \* the code tests the minor index under "major changed" and the
        \* major index under "minor changed"
        t2 == <<m1, 2 * n2 - n1>>
        t3 == <<2 * m2 - m1, n1>>
        step2 == IF majorOnly /\ 0 <= 2 * n2 - n1 /\ 2 * n2 - n1 <= MaxMinor
                 THEN [step1 EXCEPT ![k] = ScaleEntry(@, t2)] ELSE step1
        step3 == IF minorOnly /\ 0 <= 2 * m2 - m1 /\ 2 * m2 - m1 <= MaxMajor
                 THEN [step2 EXCEPT ![k] = ScaleEntry(@, t3)] ELSE step2
    IN  IF majorOnly \/ minorOnly THEN step3 ELSE vs

RECURSIVE ULFrom(_, _, _, _)
ULFrom(vs, pt, pt1, k) ==
    IF k >= L THEN vs ELSE ULFrom(ULIteration(vs, pt, pt1, k), pt, pt1, k + 1)

\* vsm_transform_ul: positions in order, each iteration sees the
\* matrices the previous ones left.
TransformUL(vs, h) ==
    IF Len(h) <= 2 THEN vs
    ELSE ULFrom(vs, h[Len(h)], h[Len(h) - 1], 0)

-----------------------------------------------------------------------------
(* PACache._least_possible_worker.                                         *)

\* An argsort in descending order, as if the least likely entry were the
\* one with the highest score.
ArgSortDescending(s) ==
    LET Before(a, b) == \/ s.n[a] > s.n[b]
                        \/ s.n[a] = s.n[b] /\ a[1] * (MaxMinor + 1) + a[2]
                                              < b[1] * (MaxMinor + 1) + b[2]
    IN  SetToSortSeq(Versions, Before)

\* The entries of VSM s in ascending score order.  All entries of one
\* matrix share the denominator, so numerators compare the scores.
\* numpy's argsort sorts the flattened matrix; its default sort is an
\* insertion sort on arrays this small, so ties keep the row-major order.
ArgSort(s) ==
    LET Before(a, b) == \/ s.n[a] < s.n[b]
                        \/ s.n[a] = s.n[b] /\ a[1] * (MaxMinor + 1) + a[2]
                                              < b[1] * (MaxMinor + 1) + b[2]
    IN  SetToSortSeq(Versions, Before)

\* num_workers[f]
NumWorkers(w, f) == Cardinality({i \in DOMAIN w : w[i][1] = f})

\* The sweep: values[f] is the score under pointer f, or 9999 for a
\* position without workers; f_min is the first position with the least
\* value; return the worker under its pointer, else advance that pointer.
RECURSIVE Sweep(_, _, _, _)
Sweep(vs, w, ids, ptr) ==
    LET value(f) == IF NumWorkers(w, f) = 0 THEN <<9999, 1>>
                    ELSE Score(vs[f], ids[f][ptr[f]])
        fmin == CHOOSE f \in Positions :
                    \A g \in Positions : RatLess(value(f), value(g))
                                         \/ (RatLeq(value(f), value(g)) /\ f <= g)
        cand == <<fmin, ids[fmin][ptr[fmin]]>>
    IN  IF cand \in ToSet(w) THEN cand
        ELSE Sweep(vs, w, ids, [ptr EXCEPT ![fmin] = @ + 1])

LeastPossibleWorker(vs, w) ==
    Sweep(vs, w, [f \in Positions |-> ArgSort(vs[f])], [f \in Positions |-> 1])

-----------------------------------------------------------------------------
(* The get operations of the four caches.  Each one is a whole call of    *)
(* get(f, v) for the next position of the current pipeline; Served is the  *)
(* step of the driver loop around it and the bookkeeping of the history    *)
(* variables.                                                              *)

Request == <<pos, cur[pos]>>
Evicting == Len(ws) > WorkerSetSize

Served(e, hit) ==
    /\ phase = "get" /\ pos < L
    /\ pos' = pos + 1
    /\ clock' = clock + 1
    /\ lastUse' = [lastUse EXCEPT ![e] = clock + 1]
    /\ insertedAt' = IF hit THEN insertedAt
                     ELSE [insertedAt EXCEPT ![e] = clock + 1]
    /\ hits' = [hits EXCEPT ![e] = IF hit THEN @ + 1 ELSE 0]
    /\ UNCHANGED <<policy, vsm, hist, cur, phase, submitted>>

\* An LRU hit that leaves the worker where it is.
LRUHitNoMove ==
    /\ policy = "LRU" /\ phase = "get" /\ pos < L
    /\ Request \in ToSet(ws)
    /\ Served(Request, TRUE)
    /\ UNCHANGED <<ws, freq, time, cold>>

\* LRUCache.get, hit: move the worker to the most recent end.
LRUHit ==
    /\ policy = "LRU" /\ phase = "get" /\ pos < L
    /\ Request \in ToSet(ws)
    /\ ws' = Append(Remove(ws, Request), Request)
    /\ Served(Request, TRUE)
    /\ UNCHANGED <<freq, time, cold>>

\* LRUCache.get, miss: count it, drop the head if the set is over its
\* size, append the new worker.
LRUMiss ==
    /\ policy = "LRU" /\ phase = "get" /\ pos < L
    /\ Request \notin ToSet(ws)
    /\ cold' = cold + 1
    /\ ws' = Append(IF Evicting THEN Tail(ws) ELSE ws, Request)
    /\ Served(Request, FALSE)
    /\ UNCHANGED <<freq, time>>

\* An LFU hit that forgets to count the use.
LFUHitNoCount ==
    /\ policy = "LFU" /\ phase = "get" /\ pos < L
    /\ Request \in ToSet(ws)
    /\ time' = [i \in DOMAIN time |-> time[i] + 1]
    /\ Served(Request, TRUE)
    /\ UNCHANGED <<ws, freq, cold>>

\* LFUCache.get, hit: every entry ages by one, the hit one is counted.
LFUHit ==
    /\ policy = "LFU" /\ phase = "get" /\ pos < L
    /\ Request \in ToSet(ws)
    /\ time' = [i \in DOMAIN time |-> time[i] + 1]
    /\ LET i == SelectInSeq(ws, LAMBDA x : x = Request)
       IN  freq' = [freq EXCEPT ![i] = @ + 1]
    /\ Served(Request, TRUE)
    /\ UNCHANGED <<ws, cold>>

\* The index the LFU eviction loop ends on: the last one whose
\* frequency / age is the least (the loop compares with <=).
LFUVictim(fr, t) ==
    CHOOSE i \in DOMAIN fr :
        \A j \in DOMAIN fr : \/ fr[i] * t[j] < fr[j] * t[i]
                             \/ fr[i] * t[j] = fr[j] * t[i] /\ j <= i

\* An LFU miss that pops the victim from the worker set and the frequency
\* table but not from the age table.
LFUMissKeepTime ==
    /\ policy = "LFU" /\ phase = "get" /\ pos < L
    /\ Request \notin ToSet(ws)
    /\ cold' = cold + 1
    /\ LET t == [i \in DOMAIN time |-> time[i] + 1]
           i == LFUVictim(freq, t)
       IN  /\ ws' = Append(IF Evicting THEN RemoveAt(ws, i) ELSE ws, Request)
           /\ freq' = Append(IF Evicting THEN RemoveAt(freq, i) ELSE freq, 1)
           /\ time' = Append(t, 1)
    /\ Served(Request, FALSE)

\* LFUCache.get, miss: age every entry, evict the least frequency / age
\* from all three lists if the set is over its size, append with
\* frequency 1 and age 1.
LFUMiss ==
    /\ policy = "LFU" /\ phase = "get" /\ pos < L
    /\ Request \notin ToSet(ws)
    /\ cold' = cold + 1
    /\ LET t == [i \in DOMAIN time |-> time[i] + 1]
           i == LFUVictim(freq, t)
           Drop(s) == IF Evicting THEN RemoveAt(s, i) ELSE s
       IN  /\ ws' = Append(Drop(ws), Request)
           /\ freq' = Append(Drop(freq), 1)
           /\ time' = Append(Drop(t), 1)
    /\ Served(Request, FALSE)

\* A FIFO hit that moves the worker to the end, as LRU does.
FIFOHitMoves ==
    /\ policy = "FIFO" /\ phase = "get" /\ pos < L
    /\ Request \in ToSet(ws)
    /\ ws' = Append(Remove(ws, Request), Request)
    /\ Served(Request, TRUE)
    /\ UNCHANGED <<freq, time, cold>>

\* FIFOCache.get, hit: nothing moves.
FIFOHit ==
    /\ policy = "FIFO" /\ phase = "get" /\ pos < L
    /\ Request \in ToSet(ws)
    /\ Served(Request, TRUE)
    /\ UNCHANGED <<ws, freq, time, cold>>

\* FIFOCache.get, miss: as LRU, drop the head when over size.
FIFOMiss ==
    /\ policy = "FIFO" /\ phase = "get" /\ pos < L
    /\ Request \notin ToSet(ws)
    /\ cold' = cold + 1
    /\ ws' = Append(IF Evicting THEN Tail(ws) ELSE ws, Request)
    /\ Served(Request, FALSE)
    /\ UNCHANGED <<freq, time>>

\* PACache.get, hit: nothing moves.
PACHit ==
    /\ policy = "PAC" /\ phase = "get" /\ pos < L
    /\ Request \in ToSet(ws)
    /\ Served(Request, TRUE)
    /\ UNCHANGED <<ws, freq, time, cold>>

\* PACache.get, miss: evict the least possible worker when over size.
PACMiss ==
    /\ policy = "PAC" /\ phase = "get" /\ pos < L
    /\ Request \notin ToSet(ws)
    /\ cold' = cold + 1
    /\ ws' = Append(IF Evicting THEN Remove(ws, LeastPossibleWorker(vsm, ws))
                                ELSE ws, Request)
    /\ Served(Request, FALSE)
    /\ UNCHANGED <<freq, time>>

-----------------------------------------------------------------------------
(* The driver loops of test_pac.py.                                        *)

\* The workload loop hands the next pipeline to pipeline_iter.
NewPipeline(p) ==
    /\ phase = "idle" /\ Len(submitted) < MaxPipelines
    /\ cur' = p /\ pos' = 0 /\ phase' = "get"
    /\ submitted' = Append(submitted, p)
    /\ UNCHANGED <<policy, ws, freq, time, cold, vsm, hist,
                   clock, lastUse, insertedAt, hits>>

\* pipeline_iter of test_traditional returns after the last get.
EndTraditional ==
    /\ policy # "PAC" /\ phase = "get" /\ pos = L
    /\ phase' = "idle"
    /\ UNCHANGED <<policy, ws, freq, time, cold, vsm, hist, cur, pos,
                   submitted, clock, lastUse, insertedAt, hits>>

\* pipeline_iter of test_vsm_transform, after the last get: append the
\* pipeline to the history, then update the matrices with SL and then
\* with UL, each if enabled.
EndPAC ==
    /\ policy = "PAC" /\ phase = "get" /\ pos = L
    /\ phase' = "idle"
    /\ hist' = HistoryAppend(hist, cur)
    /\ LET afterSL == IF EnableSL THEN TransformSL(vsm, hist') ELSE vsm
       IN  vsm' = IF EnableUL THEN TransformUL(afterSL, hist') ELSE afterSL
    /\ UNCHANGED <<policy, ws, freq, time, cold, cur, pos,
                   submitted, clock, lastUse, insertedAt, hits>>

\* The driver constructs one cache of the chosen class: an empty worker
\* set, no cold starts, uniform matrices and an empty history.
Init ==
    /\ policy \in Policies
    /\ ws = <<>> /\ freq = <<>> /\ time = <<>> /\ cold = 0
    /\ vsm = [f \in Positions |-> UniformVSM]
    /\ hist = <<>>
    /\ cur = CHOOSE p \in Inputs : TRUE
    /\ pos = 0 /\ phase = "idle"
    /\ submitted = <<>> /\ clock = 0
    /\ lastUse = [e \in Entries |-> 0]
    /\ insertedAt = [e \in Entries |-> 0]
    /\ hits = [e \in Entries |-> 0]

Next ==
    \/ \E p \in Inputs : NewPipeline(p)
    \/ LRUHit \/ LRUMiss
    \/ LFUHit \/ LFUMiss
    \/ FIFOHit \/ FIFOMiss
    \/ PACHit \/ PACMiss
    \/ EndTraditional \/ EndPAC

\* The simulator is a single-threaded loop; no fairness is needed for the
\* safety properties below.
Spec == Init /\ [][Next]_vars

-----------------------------------------------------------------------------
(* Properties.                                                             *)

TypeOK ==
    /\ ws \in Seq(Entries)
    /\ freq \in Seq(Nat \ {0}) /\ time \in Seq(Nat \ {0})
    /\ policy = "LFU" => Len(freq) = Len(ws) /\ Len(time) = Len(ws)
    /\ cold \in Nat
    /\ vsm \in [Positions -> [n : [Versions -> Nat], d : Nat \ {0}]]
    /\ hist \in Seq(Pipelines)
    /\ policy \in Policies
    /\ cur \in Pipelines /\ pos \in 0..L /\ phase \in {"idle", "get"}

\* The worker removed from the set by a step.
Evicted == ToSet(ws) \ ToSet(ws')

\* The score the matrices give worker e.
Likeliness(e) == Score(vsm[e[1]], e[2])

\* LRUCache evicts the worker whose last request is the oldest: the order
\* of _worker_set, kept by the hit path's remove-and-append, agrees with
\* the times at which the workers were last asked for.
LRUEvictsLeastRecent ==
    [][policy = "LRU" =>
          \A x \in Evicted : \A y \in ToSet(ws) : lastUse[x] <= lastUse[y]]_vars

\* FIFOCache evicts the worker inserted first, whatever hits came since.
FIFOEvictsOldest ==
    [][policy = "FIFO" =>
          \A x \in Evicted : \A y \in ToSet(ws) : insertedAt[x] <= insertedAt[y]]_vars

\* LFUCache evicts a worker with the least (1 + hits) / age, age counted
\* in get calls since its insertion: the three parallel lists of the cache
\* (worker set, frequency table, ages) stay aligned through the pops.
LFUEvictsLeastFrequent ==
    [][policy = "LFU" => \A x \in Evicted : \A y \in ToSet(ws) :
          RatLeq(<<1 + hits[x], clock + 2 - insertedAt[x]>>,
                 <<1 + hits[y], clock + 2 - insertedAt[y]>>)]_vars

\* The sweep of PACache._least_possible_worker returns a worker of the
\* least score among all workers of the set, over all positions.
PACEvictsLeastLikely ==
    [][policy = "PAC" => \A x \in Evicted : \A y \in ToSet(ws) :
          RatLeq(Likeliness(x), Likeliness(y))]_vars

\* Every score matrix stays a probability distribution (its entries sum
\* to 1) through any sequence of scale_entry and scale_batch calls made by
\* the SL and UL updates.
VSMNormalised ==
    \A f \in Positions : SumFunction(vsm[f].n) = vsm[f].d

\* The newest n elements of s.
LastN(s, n) == SubSeq(s, IF Len(s) > n THEN Len(s) - n + 1 ELSE 1, Len(s))

\* Spec 4.F: the History ring holds the last C submitted pipelines.
\* History.append deletes a column as soon as the array, dummy column
\* included, is longer than C, so it keeps C - 1.
HistoryHoldsLastC ==
    (policy = "PAC" /\ phase = "idle") => hist = LastN(submitted, HistoryCapacity)

\* Spec invariant 1 and 4.F knobs: the worker set is bounded by its size
\* (and a size of 0 makes every request a miss).  The caches evict only
\* when the set is already longer than the size, before appending.
WorkerSetWithinSize == Len(ws) <= WorkerSetSize

\* Spec 4.F, UL step 2: when only the minor version at position k moved
\* between the two newest pipelines, (m1, 2 n2 - n1) gains score.  Stated
\* for the last position, whose matrix no later iteration touches, and
\* with SL off, so that UL is the only update of the step.
ULExtrapolatesMinor ==
    [][(policy = "PAC" /\ ~EnableSL /\ phase = "get" /\ phase' = "idle"
        /\ Len(hist') > 2) =>
          LET pt  == hist'[Len(hist')]
              pt1 == hist'[Len(hist') - 1]
              k   == L - 1
              t   == <<pt[k][1], 2 * pt1[k][2] - pt[k][2]>>
          IN  (pt[k][1] = pt1[k][1] /\ pt[k][2] # pt1[k][2] /\ t \in Versions)
                  => RatLess(Score(vsm[k], t), Score(vsm'[k], t))]_vars

=============================================================================
