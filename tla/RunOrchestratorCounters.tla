----------------------- MODULE RunOrchestratorCounters -----------------------
(* The limits of RunOrchestrator: the counters of the request gate and of   *)
(* the hosts, taken in two places of the code and given back in seven, are   *)
(* exact, and so never exceed the limits; and the gate's queue holds nobody  *)
(* for nothing.                                                             *)
EXTENDS RunOrchestratorProofs, FiniteSetTheorems, SequenceTheorems

USE DEF Terminal

-----------------------------------------------------------------------------
(* Counting.                                                                *)

(* The requests that hold a lease of a host.                                *)
Leased(h) == {q \in Request : HostOf[q] = h /\ req[q] \in {"queued", "fetch"}}

(* Every set of requests is finite, so it has a size.                       *)
LEMMA RequestSetsFinite ==
  ASSUME NEW S \in SUBSET Request
  PROVE  IsFiniteSet(S) /\ Cardinality(S) \in Nat
  BY RequestAssumption, FS_Subset, FS_CardinalityType

(* A part that is taken away is subtracted.                                 *)
LEMMA Subtracted ==
  ASSUME NEW S \in SUBSET Request, NEW P \in SUBSET S
  PROVE  Cardinality(S \ P) = Cardinality(S) - Cardinality(P)
<1>1. S \cap P = P
  OBVIOUS
<1> QED
  BY <1>1, RequestSetsFinite, FS_Difference

(* The futures that end give the gate back, the leases that end their host.  *)
LEMMA GateReleased ==
  ASSUME CountsExact, NEW Q \in SUBSET RequestFutures,
         RequestFutures' = RequestFutures \ Q, active' = active - Cardinality(Q)
  PROVE  active' = Cardinality(RequestFutures')
<1>1. RequestFutures \in SUBSET Request
  BY DEF RequestFutures
<1> QED
  BY <1>1, Subtracted DEF CountsExact

LEMMA HostsReleased ==
  ASSUME CountsExact, NEW h \in Host,
         NEW L \in SUBSET {q \in Request : req[q] \in {"queued", "fetch"}},
         Leased(h)' = Leased(h) \ L, ReleaseHosts(L)
  PROVE  users'[h] = Cardinality(Leased(h)')
<1> DEFINE lost == {q \in L : HostOf[q] = h}
<1>1. Leased(h) \ L = Leased(h) \ lost /\ lost \in SUBSET Leased(h)
  BY DEF Leased
<1>2. Leased(h) \in SUBSET Request
  BY DEF Leased
<1>3. Cardinality(Leased(h) \ lost) = Cardinality(Leased(h)) - Cardinality(lost)
  BY <1>1, <1>2, Subtracted
<1>4. users[h] = Cardinality(Leased(h))
  BY DEF CountsExact, Leased
<1>5. users'[h] = users[h] - Cardinality(lost)
  BY DEF ReleaseHosts
<1> QED
  BY <1>1, <1>3, <1>4, <1>5

(* The two counters, from what they count.                                  *)
LEMMA CountsFrom ==
  ASSUME active' = Cardinality(RequestFutures'),
         \A h \in Host : users'[h] = Cardinality(Leased(h)')
  PROVE  CountsExact'
  BY DEF CountsExact, Leased

(* A step that moves no request into or out of the counted states.          *)
LEMMA CountsKept ==
  ASSUME CountsExact, UNCHANGED <<active, users>>,
         \A q \in Request : \/ req'[q] = req[q]
                            \/ req[q] = "done" /\ req'[q] = "gone"
                            \/ req[q] = "queued" /\ req'[q] = "fetch"
  PROVE  CountsExact'
<1>1. RequestFutures' = RequestFutures
  BY DEF RequestFutures
<1>2. \A h \in Host : Leased(h)' = Leased(h)
  BY DEF Leased
<1>3. \A h \in Host : users[h] = Cardinality(Leased(h))
  BY DEF CountsExact, Leased
<1> QED
  BY <1>1, <1>2, <1>3, CountsFrom DEF CountsExact

LEMMA EndRunCounts ==
  ASSUME CountsExact, NEW r \in Runs, NEW outcome, NEW tokens, EndRun(r, outcome, tokens)
  PROVE  CountsExact'
<1> DEFINE queued == RequestsOf(r, "queued")
<1>1. /\ req' = [q \in Request |-> IF RunOf[q] = r /\ q \notin RequestFutures \ queued
                                   THEN "gone" ELSE req[q]]
      /\ active' = active - Cardinality(queued)
      /\ ReleaseHosts(queued)
  BY DEF EndRun, Release
<1>2. /\ queued \in SUBSET RequestFutures
      /\ queued \in SUBSET {q \in Request : req[q] \in {"queued", "fetch"}}
  BY DEF RequestFutures, RequestsOf
<1>3. \A q \in Request : req'[q] = IF q \in queued THEN "gone"
                                   ELSE IF RunOf[q] = r /\ q \notin RequestFutures THEN "gone" ELSE req[q]
  BY <1>1, <1>2 DEF RequestsOf
<1>4. RequestFutures' = RequestFutures \ queued
  BY <1>3 DEF RequestFutures
<1>5. \A h \in Host : Leased(h)' = Leased(h) \ queued
  BY <1>3 DEF Leased, RequestFutures
<1> HIDE DEF queued
<1>6. active' = Cardinality(RequestFutures')
  BY <1>1, <1>2, <1>4, GateReleased
<1>7. \A h \in Host : users'[h] = Cardinality(Leased(h)')
  BY <1>1, <1>2, <1>5, HostsReleased
<1> QED
  BY <1>6, <1>7, CountsFrom

LEMMA EndRequestsCounts ==
  ASSUME CountsExact, NEW Q \in SUBSET RequestFutures, NEW L \in SUBSET Q, EndRequests(Q, L),
         \A q \in Q : q \in L <=> req[q] \in {"queued", "fetch"}
  PROVE  CountsExact'
<1>1. /\ active' = active - Cardinality(Q) /\ ReleaseHosts(L)
      /\ \A q \in Request : req'[q] = IF q \notin Q THEN req[q]
                                      ELSE IF Abandoned(q) THEN "gone" ELSE "done"
  BY DEF EndRequests, Release
<1>2. RequestFutures' = RequestFutures \ Q
  BY <1>1 DEF RequestFutures
<1>3. \A h \in Host : Leased(h)' = Leased(h) \ L
  BY <1>1 DEF Leased
<1>4. L \in SUBSET {q \in Request : req[q] \in {"queued", "fetch"}}
  BY DEF RequestFutures
<1>5. active' = Cardinality(RequestFutures')
  BY <1>1, <1>2, GateReleased
<1>6. \A h \in Host : users'[h] = Cardinality(Leased(h)')
  BY <1>1, <1>3, <1>4, HostsReleased
<1> QED
  BY <1>5, <1>6, CountsFrom

LEMMA AdmitCounts ==
  ASSUME Tables, CountsExact, users \in [Host -> Int],
         NEW r \in Runs, NEW q \in Request, Admit(r, q)
  PROVE  CountsExact'
<1>1. /\ req[q] = "pending" /\ req' = [req EXCEPT ![q] = "queued"]
      /\ active' = active + 1 /\ users' = [users EXCEPT ![HostOf[q]] = @ + 1]
  BY DEF Admit, Asks
<1>2. req \in [Request -> {"pending", "queued", "fetch", "parse", "done", "gone"}]
  BY DEF Tables
<1>3. RequestFutures' = RequestFutures \cup {q} /\ q \notin RequestFutures
  BY <1>1, <1>2 DEF RequestFutures
<1>4. active' = Cardinality(RequestFutures')
  <2>1. RequestFutures \in SUBSET Request
    BY DEF RequestFutures
  <2> QED
    BY <1>1, <1>3, <2>1, RequestSetsFinite, FS_AddElement DEF CountsExact
<1>5. ASSUME NEW h \in Host PROVE users'[h] = Cardinality(Leased(h)')
  <2>1. Leased(h) \in SUBSET Request /\ users[h] = Cardinality(Leased(h))
    BY DEF Leased, CountsExact
  <2>2. CASE h = HostOf[q]
    <3>1. Leased(h)' = Leased(h) \cup {q} /\ q \notin Leased(h)
      BY <1>1, <1>2, <2>2 DEF Leased
    <3> QED
      BY <1>1, <2>1, <2>2, <3>1, RequestSetsFinite, FS_AddElement
  <2>3. CASE h # HostOf[q]
    <3>1. Leased(h)' = Leased(h)
      BY <1>1, <1>2, <2>3 DEF Leased
    <3> QED
      BY <1>1, <2>1, <2>3, <3>1
  <2> QED
    BY <2>2, <2>3
<1> QED
  BY <1>4, <1>5, CountsFrom
-----------------------------------------------------------------------------
(* The queue of the gate.                                                   *)

(* What follows the head of a queue without repetitions.                    *)
LEMMA TailOfQueue ==
  ASSUME NEW s \in Seq(Runs), IsInjective(s), s # <<>>
  PROVE  /\ Tail(s) \in Seq(Runs) /\ IsInjective(Tail(s))
         /\ Range(Tail(s)) \subseteq Range(s) \ {Head(s)}
<1>1. /\ Len(s) \in Nat \ {0} /\ DOMAIN s = 1 .. Len(s) /\ Head(s) = s[1]
  BY EmptySeq, LenProperties, HeadTailProperties
<1>2. /\ Tail(s) \in Seq(Runs) /\ DOMAIN Tail(s) = 1 .. Len(s) - 1
      /\ \A i \in 1 .. Len(s) - 1 : Tail(s)[i] = s[i + 1]
  BY <1>1, HeadTailProperties, LenProperties
<1>3. \A i \in 1 .. Len(s) - 1 : i + 1 \in 1 .. Len(s) /\ i + 1 # 1
  BY <1>1
<1>4. IsInjective(Tail(s))
  <2> SUFFICES ASSUME NEW i \in 1 .. Len(s) - 1, NEW j \in 1 .. Len(s) - 1, Tail(s)[i] = Tail(s)[j]
               PROVE  i = j
    BY <1>2 DEF IsInjective
  <2>1. i + 1 = j + 1
    BY <1>1, <1>2, <1>3 DEF IsInjective
  <2> QED
    BY <2>1
<1>5. Range(Tail(s)) \subseteq Range(s) \ {Head(s)}
  <2> SUFFICES ASSUME NEW i \in 1 .. Len(s) - 1
               PROVE  Tail(s)[i] \in Range(s) /\ Tail(s)[i] # Head(s)
    BY <1>2 DEF Range
  <2>1. Tail(s)[i] = s[i + 1] /\ i + 1 \in DOMAIN s /\ 1 \in DOMAIN s
    BY <1>1, <1>2, <1>3
  <2> QED
    BY <1>1, <1>3, <2>1 DEF Range, IsInjective
<1> QED
  BY <1>2, <1>4, <1>5

(* The queue with an owner that asks.                                       *)
LEMMA QueueOfGate ==
  ASSUME NEW r \in Runs, waiters \in Seq(Runs), IsInjective(waiters)
  PROVE  /\ Queue(r) \in Seq(Runs) /\ IsInjective(Queue(r)) /\ Queue(r) # <<>>
         /\ Range(Queue(r)) = Range(waiters) \cup {r}
<1>1. CASE r \in Range(waiters)
  BY <1>1, EmptySeq, LenProperties DEF Queue, Range
<1>2. CASE r \notin Range(waiters)
  <2>1. Queue(r) = Append(waiters, r)
    BY <1>2 DEF Queue
  <2>2. /\ Queue(r) \in Seq(Runs) /\ Queue(r) # <<>> /\ Len(waiters) \in Nat
        /\ DOMAIN Queue(r) = 1 .. Len(waiters) + 1 /\ DOMAIN waiters = 1 .. Len(waiters)
        /\ \A i \in 1 .. Len(waiters) : Queue(r)[i] = waiters[i]
        /\ Queue(r)[Len(waiters) + 1] = r
    BY <2>1, AppendProperties, LenProperties, EmptySeq
  <2>3. \A i \in 1 .. Len(waiters) + 1 : i \in 1 .. Len(waiters) \/ i = Len(waiters) + 1
    BY <2>2
  <2>4. \A i \in 1 .. Len(waiters) : i \in 1 .. Len(waiters) + 1
    BY <2>2
  <2>5. Len(waiters) + 1 \in 1 .. Len(waiters) + 1
    BY <2>2
  <2>6. IsInjective(Queue(r))
    <3> SUFFICES ASSUME NEW i \in 1 .. Len(waiters) + 1, NEW j \in 1 .. Len(waiters) + 1,
                        Queue(r)[i] = Queue(r)[j]
                 PROVE  i = j
      BY <2>2 DEF IsInjective
    <3> QED
      BY <1>2, <2>2, <2>3 DEF IsInjective, Range
  <2>7. Range(Queue(r)) = Range(waiters) \cup {r}
    BY <2>2, <2>3, <2>4, <2>5 DEF Range
  <2> QED
    BY <2>2, <2>6, <2>7
<1> QED
  BY <1>1, <1>2

(* An owner that withdraws.                                                 *)
LEMMA QueueWithdrawn ==
  ASSUME NEW s \in Seq(Runs), IsInjective(s), NEW r
  PROVE  /\ RemoveFirst(s, r) \in Seq(Runs) /\ IsInjective(RemoveFirst(s, r))
         /\ Range(RemoveFirst(s, r)) \subseteq Range(s) \ {r}
<1>1. Len(s) \in Nat /\ DOMAIN s = 1 .. Len(s)
  BY LenProperties
<1>2. CASE ~\E i \in 1 .. Len(s) : s[i] = r
  BY <1>1, <1>2 DEF RemoveFirst, Range
<1>3. CASE \E i \in 1 .. Len(s) : s[i] = r
  <2> DEFINE k == SelectInSeq(s, LAMBDA v : v = r)
             t == RemoveAt(s, k)
  <2>1. RemoveFirst(s, r) = t
    BY <1>3 DEF RemoveFirst
  <2>2. PICK i \in 1 .. Len(s) : s[i] = r
    BY <1>3
  <2>3. {j \in 1 .. Len(s) : s[j] = r} = {i}
    BY <1>1, <2>2 DEF IsInjective
  <2>4. k = i
    BY <2>3 DEF SelectInSeq, Min
  <2> HIDE DEF k
  <2>5. /\ SubSeq(s, 1, i - 1) \in Seq(Runs) /\ Len(SubSeq(s, 1, i - 1)) = i - 1
        /\ \A j \in 1 .. i - 1 : SubSeq(s, 1, i - 1)[j] = s[j]
    BY <1>1, <2>2, SubSeqProperties
  <2>6. /\ SubSeq(s, i + 1, Len(s)) \in Seq(Runs) /\ Len(SubSeq(s, i + 1, Len(s))) = Len(s) - i
        /\ \A j \in 1 .. Len(s) - i : SubSeq(s, i + 1, Len(s))[j] = s[i + j]
    <3>1. /\ i + 1 \in Int /\ Len(s) \in Int
          /\ \A m \in i + 1 .. Len(s) : s[m] \in Runs
      BY <1>1, <2>2
    <3>2. /\ SubSeq(s, i + 1, Len(s)) \in Seq(Runs)
          /\ Len(SubSeq(s, i + 1, Len(s))) = IF i + 1 <= Len(s) THEN Len(s) - (i + 1) + 1 ELSE 0
          /\ \A j \in 1 .. Len(s) - (i + 1) + 1 : SubSeq(s, i + 1, Len(s))[j] = s[(i + 1) + j - 1]
      BY <3>1, SubSeqProperties
    <3>3. Len(s) - (i + 1) + 1 = Len(s) - i /\ \A j \in Int : (i + 1) + j - 1 = i + j
      BY <1>1, <2>2
    <3>4. Len(SubSeq(s, i + 1, Len(s))) = Len(s) - i
      <4>1. (IF i + 1 <= Len(s) THEN Len(s) - (i + 1) + 1 ELSE 0) = Len(s) - i
        <5>1. \A n \in Nat : \A m \in 1 .. n :
                (IF m + 1 <= n THEN n - (m + 1) + 1 ELSE 0) = n - m
          OBVIOUS
        <5> QED
          BY <1>1, <2>2, <5>1
      <4> QED
        BY <3>2, <4>1
    <3>5. \A j \in 1 .. Len(s) - i : SubSeq(s, i + 1, Len(s))[j] = s[i + j]
      BY <1>1, <2>2, <3>2, <3>3
    <3> QED
      BY <3>2, <3>4, <3>5
  <2>7. t = SubSeq(s, 1, i - 1) \o SubSeq(s, i + 1, Len(s))
    BY <2>4 DEF RemoveAt
  <2> HIDE DEF t
  <2>8. /\ t \in Seq(Runs) /\ DOMAIN t = 1 .. Len(s) - 1
        /\ \A j \in 1 .. Len(s) - 1 : t[j] = IF j < i THEN s[j] ELSE s[j + 1]
    <3> DEFINE a == SubSeq(s, 1, i - 1)
               b == SubSeq(s, i + 1, Len(s))
    <3> HIDE DEF a, b
    <3>1. /\ a \in Seq(Runs) /\ Len(a) = i - 1 /\ \A j \in 1 .. i - 1 : a[j] = s[j]
          /\ b \in Seq(Runs) /\ Len(b) = Len(s) - i /\ \A j \in 1 .. Len(s) - i : b[j] = s[i + j]
          /\ t = a \o b
      BY <2>5, <2>6, <2>7 DEF a, b
    <3>2. /\ t \in Seq(Runs) /\ Len(t) = Len(s) - 1
          /\ \A j \in 1 .. Len(s) - 1 : t[j] = IF j <= i - 1 THEN a[j] ELSE b[j - (i - 1)]
      <4>1. /\ t \in Seq(Runs) /\ Len(t) = Len(a) + Len(b)
            /\ \A j \in 1 .. Len(a) + Len(b) : t[j] = IF j <= Len(a) THEN a[j] ELSE b[j - Len(a)]
        BY <3>1, ConcatProperties
      <4>2. Len(a) + Len(b) = Len(s) - 1
        BY <1>1, <2>2, <3>1
      <4> QED
        BY <3>1, <4>1, <4>2
    <3>3. DOMAIN t = 1 .. Len(s) - 1
      BY <3>2, LenProperties
    <3>4. ASSUME NEW j \in 1 .. Len(s) - 1
          PROVE  t[j] = IF j < i THEN s[j] ELSE s[j + 1]
      <4>1. CASE j < i
        BY <1>1, <2>2, <3>1, <3>2, <4>1
      <4>2. CASE ~(j < i)
        <5>1. j - (i - 1) \in 1 .. Len(s) - i /\ i + (j - (i - 1)) = j + 1
          BY <1>1, <2>2, <4>2
        <5>2. t[j] = b[j - (i - 1)]
          BY <1>1, <2>2, <3>2, <4>2
        <5> QED
          BY <3>1, <4>2, <5>1, <5>2
      <4> QED
        BY <4>1, <4>2
    <3> QED
      BY <3>2, <3>3, <3>4
  <2>9. ASSUME NEW j \in 1 .. Len(s) - 1
        PROVE  \E m \in 1 .. Len(s) : m # i /\ t[j] = s[m] /\ m = IF j < i THEN j ELSE j + 1
    BY <1>1, <2>2, <2>8
  <2>10. IsInjective(t)
    <3> SUFFICES ASSUME NEW a \in 1 .. Len(s) - 1, NEW b \in 1 .. Len(s) - 1, t[a] = t[b]
                 PROVE  a = b
      BY <2>8 DEF IsInjective
    <3>1. PICK m \in 1 .. Len(s) : t[a] = s[m] /\ m = IF a < i THEN a ELSE a + 1
      BY <2>9
    <3>2. PICK n \in 1 .. Len(s) : t[b] = s[n] /\ n = IF b < i THEN b ELSE b + 1
      BY <2>9
    <3>3. m = n
      BY <1>1, <3>1, <3>2 DEF IsInjective
    <3> QED
      BY <1>1, <2>2, <3>1, <3>2, <3>3
  <2>11. Range(t) \subseteq Range(s) \ {r}
    <3> SUFFICES ASSUME NEW j \in 1 .. Len(s) - 1 PROVE t[j] \in Range(s) \ {r}
      BY <2>8 DEF Range
    <3>1. PICK m \in 1 .. Len(s) : m # i /\ t[j] = s[m]
      BY <2>9
    <3> QED
      BY <1>1, <2>2, <3>1 DEF Range, IsInjective
  <2> QED
    BY <2>1, <2>8, <2>10, <2>11
<1> QED
  BY <1>2, <1>3
-----------------------------------------------------------------------------
(* The inductive invariant.                                                 *)

Limits == active \in 0 .. GateLimit /\ users \in [Host -> 0 .. HostLimit]

Waiting ==
    /\ waiters \in Seq(Runs) /\ IsInjective(waiters)
    /\ \A r \in Range(waiters) : work[r] \in Looping /\ RequestsOf(r, "pending") # {}

Tokens == cancelled \subseteq Runs /\ paused \subseteq Runs \ cancelled

(* A retirement that is run is not one that failed.                         *)
Registry ==
    /\ failed \subseteq handles
    /\ \A r \in Runs : retirer[r] # "none" => r \notin failed

Bounds ==
    /\ refused \in [Runs -> SUBSET Host]
    /\ control \in [Runs -> {"idle", "pausing", "unpause", "resuming", "unresume"}]
    /\ closed \in BOOLEAN
    /\ shut \in {"idle", "signal", "cancel"}
    /\ started \in BOOLEAN /\ shutFailed \in BOOLEAN
    /\ toRetry \subseteq Runs /\ toCancel \subseteq Runs
    /\ fetcher \in {"open", "closing", "closed"}
    /\ controls \in 0 .. MaxControls
    /\ delays \in 0 .. MaxDelays
    /\ faults \in 0 .. MaxFaults

(* The items that failed submits left behind.                               *)
Strays ==
    /\ stray \in [Request -> {"none", "queued", "fetch"}]
    /\ threadFailures \in 0 .. MaxThreadFailures

LimitInv == Limits /\ CountsExact /\ Waiting /\ Tokens /\ Registry /\ Bounds /\ Strays

-----------------------------------------------------------------------------
(* Every step is of one of five kinds to the gate and the hosts.            *)

KeepsGate ==
    /\ UNCHANGED <<active, users>>
    /\ \A q \in Request :
        \/ req'[q] = req[q]
        \/ req[q] = "done" /\ req'[q] = "gone"
        \/ req[q] = "queued" /\ req'[q] = "fetch"

EndsRun(r) ==
    /\ work[r] \in Looping
    /\ \E outcome \in Terminal : EndRun(r, outcome, {}) \/ EndRun(r, outcome, {r})

EndsRequests ==
    \E Q \in SUBSET RequestFutures :
        \E L \in SUBSET Q :
            /\ \A q \in Q : q \in L <=> req[q] \in {"queued", "fetch"}
            /\ EndRequests(Q, L)

Fetched(q) ==
    /\ req[q] = "fetch" /\ req' = [req EXCEPT ![q] = "parse"]
    /\ ReleaseHosts({q}) /\ UNCHANGED active

LEMMA RunStepKinds ==
  ASSUME Tables, NEW r \in Runs, RunStep(r)
  PROVE  KeepsGate \/ EndsRun(r) \/ \E q \in Request : Admit(r, q)
<1>1. CASE Start(r) \/ SnapshotFirst(r) \/ CheckpointPasses(r) \/ PassEnds(r) \/ Finish(r)
  BY <1>1 DEF Start, SnapshotFirst, CheckpointPasses, PassEnds, Finish, KeepsGate, gateVars
<1>2. CASE CheckpointCancels(r) \/ ResourcePressure(r) \/ Commit(r)
  <2>1. work[r] \in Looping
    BY <1>2 DEF CheckpointCancels, ResourcePressure, Commit, Looping
  <2>2. EndRun(r, "cancelled", {}) \/ EndRun(r, "failed", {}) \/ EndRun(r, "completed", {})
    BY <1>2 DEF CheckpointCancels, ResourcePressure, Commit
  <2> QED
    BY <2>1, <2>2 DEF EndsRun
<1>3. CASE WriteProgress(r)
  <2>1. work[r] \in Looping
    BY <1>3 DEF WriteProgress, Looping
  <2>2. EndRun(r, "failed", {}) \/ UNCHANGED gateVars
    BY <1>3 DEF WriteProgress
  <2> QED
    BY <2>1, <2>2 DEF EndsRun, KeepsGate, gateVars
<1>4. ASSUME NEW q \in RequestsOf(r, "done"), Collect(r, q) PROVE KeepsGate \/ EndsRun(r)
  <2>1. CASE \E outcome \in Terminal : EndRun(r, outcome, {})
    BY <1>4, <2>1 DEF Collect, EndsRun, Looping
  <2>2. CASE req' = [req EXCEPT ![q] = "gone"] /\ UNCHANGED <<active, users>>
    BY <1>4, <2>2 DEF Collect, KeepsGate, RequestsOf, Tables
  <2>3. \/ EndRun(r, "cancelled", {}) \/ EndRun(r, "failed", {})
        \/ req' = [req EXCEPT ![q] = "gone"] /\ UNCHANGED <<active, users>>
    BY <1>4 DEF Collect
  <2> QED
    BY <2>1, <2>2, <2>3
<1>5. ASSUME NEW q \in RequestsOf(r, "pending"),
             \/ AdmitClosed(r, q) \/ AdmitHostFull(r, q) \/ AdmitRaises(r, q)
             \/ AdmitGateRefuses(r, q) \/ AdmitDelayed(r, q)
      PROVE  KeepsGate \/ EndsRun(r)
  <2>1. CASE AdmitClosed(r, q)
    <3>1. work[r] \in Looping /\ EndRun(r, "cancelled", {r})
      BY <2>1 DEF AdmitClosed, Asks, Looping
    <3> QED
      BY <3>1 DEF EndsRun
  <2>3. CASE AdmitRaises(r, q)
    <3>1. work[r] \in Looping /\ \E outcome \in Terminal : EndRun(r, outcome, {})
      BY <2>3 DEF AdmitRaises, Asks, Looping
    <3> QED
      BY <3>1 DEF EndsRun
  <2>2. CASE AdmitHostFull(r, q) \/ AdmitGateRefuses(r, q) \/ AdmitDelayed(r, q)
    BY <2>2 DEF AdmitHostFull, AdmitGateRefuses, AdmitDelayed, KeepsGate, gateVars
  <2> QED
    BY <1>5, <2>1, <2>2, <2>3
<1> QED
  BY <1>1, <1>2, <1>3, <1>4, <1>5 DEF RunStep, RequestsOf

LEMMA GateKinds ==
  ASSUME Tables, [Next]_vars
  PROVE  \/ KeepsGate
         \/ \E r \in Runs : EndsRun(r)
         \/ EndsRequests
         \/ \E q \in Request : Fetched(q)
         \/ \E r \in Runs, q \in Request : Admit(r, q)
<1>1. ASSUME NEW r \in Runs,
             \/ Submit(r) \/ SubmitStep(r) \/ RetireStep(r)
             \/ Pause(r) \/ Resume(r) \/ Cancel(r) \/ ControlStep(r)
      PROVE  KeepsGate
  BY <1>1 DEF Submit, SubmitStep, CreateRow, HandOff, HandOffRaises, Reject, SnapshotRejected,
     SaveRejected, Hook, Leave, RetireStep, RetireSucceeds, RetireFails, Pause, Resume, Cancel,
     ControlStep, PersistControl, RollBackControl, KeepsGate, gateVars
<1>2. ASSUME NEW r \in Runs, RunStep(r)
      PROVE  KeepsGate \/ EndsRun(r) \/ \E q \in Request : Admit(r, q)
  BY <1>2, RunStepKinds
<1>3. ASSUME NEW q \in Request, RequestStep(q)
      PROVE  KeepsGate \/ EndsRequests \/ Fetched(q)
  <2>1. CASE FetchStarts(q)
    BY <2>1 DEF FetchStarts, KeepsGate, Tables
  <2>2. CASE FetchEnds(q)
    <3>1. CASE EndRequests({q}, {q})
      BY <2>2, <3>1 DEF FetchEnds, EndsRequests, RequestFutures
    <3>2. CASE req' = [req EXCEPT ![q] = "parse"] /\ ReleaseHosts({q}) /\ UNCHANGED active
      BY <2>2, <3>2 DEF FetchEnds, Fetched
    <3> QED
      BY <2>2, <3>1, <3>2 DEF FetchEnds
  <2>3. CASE ParseEnds(q)
    BY <2>3 DEF ParseEnds, EndsRequests, RequestFutures
  <2> QED
    BY <1>3, <2>1, <2>2, <2>3 DEF RequestStep
<1>4. CASE Signal \/ SignalFails
  <2> DEFINE queued == {q \in Request : req[q] = "queued"}
  <2>1. EndRequests(queued, queued)
    BY <1>4 DEF Signal, SignalFails
  <2>2. queued \in SUBSET RequestFutures /\ \A q \in queued : req[q] \in {"queued", "fetch"}
    BY DEF RequestFutures
  <2> QED
    BY <2>1, <2>2 DEF EndsRequests
<1>5. ASSUME \/ BeginShutdown \/ EndShutdown \/ DrainReturns \/ CloseFetcher
             \/ \E r \in Runs : RetryOne(r) \/ CancelOne(r)
             \/ \E q \in Request : StrayStep(q)
             \/ UNCHANGED vars
      PROVE  KeepsGate
  BY <1>5 DEF BeginShutdown, EndShutdown, DrainReturns, CloseFetcher, RetryOne, CancelOne,
     StrayStep, StrayStarts, StrayEnds, KeepsGate, gateVars, vars
<1> QED
  BY <1>1, <1>2, <1>3, <1>4, <1>5 DEF Next, ShutdownStep

(* The counters stay exact.                                                 *)
LEMMA CountsNext ==
  ASSUME Tables, Limits, CountsExact, [Next]_vars
  PROVE  CountsExact'
<1>1. CASE KeepsGate
  BY <1>1, CountsKept DEF KeepsGate
<1>2. ASSUME NEW r \in Runs, EndsRun(r) PROVE CountsExact'
  BY <1>2, EndRunCounts DEF EndsRun
<1>3. CASE EndsRequests
  BY <1>3, EndRequestsCounts DEF EndsRequests
<1>4. ASSUME NEW q \in Request, Fetched(q) PROVE CountsExact'
  <2>1. /\ req[q] = "fetch" /\ req' = [req EXCEPT ![q] = "parse"] /\ ReleaseHosts({q})
        /\ req \in [Request -> {"pending", "queued", "fetch", "parse", "done", "gone"}]
        /\ active' = active
    BY <1>4 DEF Fetched, Tables
  <2>2. RequestFutures' = RequestFutures
    BY <2>1 DEF RequestFutures
  <2>3. \A h \in Host : Leased(h)' = Leased(h) \ {q}
    BY <2>1 DEF Leased
  <2>4. {q} \in SUBSET {x \in Request : req[x] \in {"queued", "fetch"}}
    BY <2>1
  <2>5. \A h \in Host : users'[h] = Cardinality(Leased(h)')
    BY <2>1, <2>3, <2>4, HostsReleased
  <2> QED
    BY <2>1, <2>2, <2>5, CountsFrom DEF CountsExact
<1>5. ASSUME NEW r \in Runs, NEW q \in Request, Admit(r, q) PROVE CountsExact'
  <2>1. users \in [Host -> Int]
    BY BoundAssumption DEF Limits
  <2> QED
    BY <1>5, <2>1, AdmitCounts
<1> QED
  BY <1>1, <1>2, <1>3, <1>4, <1>5, GateKinds

(* Exact counters are not negative, and only an admission raises them, below *)
(* the limit.                                                               *)
LEMMA CountsAreNatural ==
  ASSUME CountsExact
  PROVE  active \in Nat /\ \A h \in Host : users[h] \in Nat
<1>1. RequestFutures \in SUBSET Request /\ \A h \in Host : Leased(h) \in SUBSET Request
  BY DEF RequestFutures, Leased
<1>2. \A h \in Host : users[h] = Cardinality(Leased(h))
  BY DEF CountsExact, Leased
<1> QED
  BY <1>1, <1>2, RequestSetsFinite DEF CountsExact

LEMMA ReleaseLowers ==
  ASSUME Limits, NEW L \in SUBSET Request, ReleaseHosts(L), \A h \in Host : users'[h] \in Nat
  PROVE  users' \in [Host -> 0 .. HostLimit]
<1>1. ASSUME NEW h \in Host PROVE users'[h] \in 0 .. HostLimit
  <2> DEFINE lost == {q \in L : HostOf[q] = h}
  <2>1. Cardinality(lost) \in Nat
    BY RequestSetsFinite
  <2>2. users'[h] = users[h] - Cardinality(lost) /\ users[h] \in 0 .. HostLimit
    BY DEF ReleaseHosts, Limits
  <2> HIDE DEF lost
  <2> QED
    BY <2>1, <2>2, BoundAssumption
<1> QED
  BY <1>1 DEF ReleaseHosts

LEMMA LimitsNext ==
  ASSUME Tables, Limits, CountsExact, [Next]_vars
  PROVE  Limits'
<1>1. active' \in Nat /\ \A h \in Host : users'[h] \in Nat
  <2>1. CountsExact'
    BY CountsNext
  <2>2. (active \in Nat /\ \A h \in Host : users[h] \in Nat)'
    BY <2>1, CountsAreNatural, PTL
  <2> QED
    BY <2>2
<1>2. active \in 0 .. GateLimit /\ users \in [Host -> 0 .. HostLimit]
      /\ GateLimit \in Nat \ {0} /\ HostLimit \in Nat \ {0}
  BY BoundAssumption DEF Limits
<1>3. ASSUME NEW Q \in SUBSET Request, active' = active - Cardinality(Q)
      PROVE  active' \in 0 .. GateLimit
  <2>1. Cardinality(Q) \in Nat
    BY RequestSetsFinite
  <2> QED
    BY <1>1, <1>2, <1>3, <2>1
<1>4. CASE KeepsGate
  BY <1>2, <1>4 DEF KeepsGate, Limits
<1>5. ASSUME NEW r \in Runs, EndsRun(r) PROVE Limits'
  <2>1. /\ active' = active - Cardinality(RequestsOf(r, "queued"))
        /\ ReleaseHosts(RequestsOf(r, "queued"))
        /\ RequestsOf(r, "queued") \in SUBSET Request
    BY <1>5 DEF EndsRun, EndRun, Release, RequestsOf
  <2> QED
    BY <1>1, <1>3, <2>1, ReleaseLowers DEF Limits
<1>6. CASE EndsRequests
  <2>1. PICK Q \in SUBSET RequestFutures : \E L \in SUBSET Q : EndRequests(Q, L)
    BY <1>6 DEF EndsRequests
  <2>2. PICK L \in SUBSET Q : EndRequests(Q, L)
    BY <2>1
  <2>3. /\ active' = active - Cardinality(Q) /\ ReleaseHosts(L)
        /\ Q \in SUBSET Request /\ L \in SUBSET Request
    BY <2>2 DEF EndRequests, Release, RequestFutures
  <2> QED
    BY <1>1, <1>3, <2>3, ReleaseLowers DEF Limits
<1>7. ASSUME NEW q \in Request, Fetched(q) PROVE Limits'
  <2>1. {q} \in SUBSET Request /\ ReleaseHosts({q}) /\ active' = active
    BY <1>7 DEF Fetched
  <2> QED
    BY <1>1, <1>2, <2>1, ReleaseLowers DEF Limits
<1>8. ASSUME NEW r \in Runs, NEW q \in Request, Admit(r, q) PROVE Limits'
  <2>1. /\ active' = active + 1 /\ users' = [users EXCEPT ![HostOf[q]] = @ + 1]
        /\ \E limit \in 1 .. HostLimit : users[HostOf[q]] < limit
        /\ \E limit \in 1 .. GateLimit : active < limit
    BY <1>8 DEF Admit, GateOpens, HostLimitRead, GateLimitRead
  <2>2. HostOf[q] \in Host
    BY RequestAssumption
  <2>3. active' \in 0 .. GateLimit
    BY <1>2, <2>1
  <2>4. users[HostOf[q]] + 1 \in 0 .. HostLimit
    BY <1>2, <2>1, <2>2
  <2> QED
    BY <1>2, <2>1, <2>3, <2>4 DEF Limits
<1> QED
  BY <1>4, <1>5, <1>6, <1>7, <1>8, GateKinds
-----------------------------------------------------------------------------
(* The gate's queue.                                                        *)

LEMMA WaitingKept ==
  ASSUME Waiting, UNCHANGED waiters,
         \A r \in Runs : work[r] \in Looping => work'[r] \in Looping,
         \A q \in Request : req[q] = "pending" => req'[q] = "pending"
  PROVE  Waiting'
<1>1. \A i \in DOMAIN waiters : waiters[i] \in Runs
  BY LenProperties, ElementOfSeq DEF Waiting
<1>2. Range(waiters) \subseteq Runs
  BY <1>1 DEF Range
<1> QED
  BY <1>2 DEF Waiting, RequestsOf

(* Who is left in a queue that lost one run keeps what it waits for.         *)
LEMMA WaitingLeft ==
  ASSUME Waiting, NEW r \in Runs,
         waiters' \in Seq(Runs), IsInjective(waiters'),
         Range(waiters') \subseteq (Range(waiters) \cup {r}) \ {r},
         \A x \in Runs \ {r} : work'[x] = work[x],
         \A q \in Request : RunOf[q] # r => req'[q] = req[q]
  PROVE  Waiting'
<1>1. \A i \in DOMAIN waiters' : waiters'[i] \in Runs
  BY LenProperties, ElementOfSeq
<1>2. Range(waiters') \subseteq Runs
  BY <1>1 DEF Range
<1> QED
  BY <1>2 DEF Waiting, RequestsOf

LEMMA WaitingRun ==
  ASSUME Tables, Waiting, NEW r \in Runs, RunStep(r)
  PROVE  Waiting'
<1>1. waiters \in Seq(Runs) /\ IsInjective(waiters)
  BY DEF Waiting
<1>2. CASE EndsRun(r)
  <2>1. PICK outcome \in Terminal : EndRun(r, outcome, {}) \/ EndRun(r, outcome, {r})
    BY <1>2 DEF EndsRun
  <2>2. /\ waiters' = RemoveFirst(waiters, r)
        /\ \A q \in Request : RunOf[q] # r => req'[q] = req[q]
    BY <2>1 DEF EndRun
  <2>3. \A x \in Runs \ {r} : work'[x] = work[x]
    BY <2>1, Ended
  <2>4. /\ waiters' \in Seq(Runs) /\ IsInjective(waiters')
        /\ Range(waiters') \subseteq Range(waiters) \ {r}
    BY <1>1, <2>2, QueueWithdrawn
  <2> QED
    BY <2>2, <2>3, <2>4, WaitingLeft
<1>3. ASSUME NEW q \in RequestsOf(r, "pending"), AdmitDelayed(r, q) \/ Admit(r, q)
      PROVE  Waiting'
  <2>1. /\ Head(Queue(r)) = r /\ waiters' = Tail(Queue(r)) /\ UNCHANGED work
        /\ req' = req \/ req' = [req EXCEPT ![q] = "queued"]
    BY <1>3 DEF AdmitDelayed, Admit, GateOpens, runVars
  <2>2. /\ Queue(r) \in Seq(Runs) /\ IsInjective(Queue(r)) /\ Queue(r) # <<>>
        /\ Range(Queue(r)) = Range(waiters) \cup {r}
    BY <1>1, QueueOfGate
  <2>3. /\ waiters' \in Seq(Runs) /\ IsInjective(waiters')
        /\ Range(waiters') \subseteq (Range(waiters) \cup {r}) \ {r}
    BY <2>1, <2>2, TailOfQueue
  <2>4. \A x \in Request : RunOf[x] # r => req'[x] = req[x]
    BY <2>1 DEF RequestsOf, Tables
  <2> QED
    BY <2>1, <2>3, <2>4, WaitingLeft
<1>4. ASSUME NEW q \in RequestsOf(r, "pending"), AdmitGateRefuses(r, q)
      PROVE  Waiting'
  <2>1. /\ waiters' = Queue(r) /\ UNCHANGED req
        /\ work[r] = "fill" /\ work' = [work EXCEPT ![r] = "check"]
    BY <1>4 DEF AdmitGateRefuses, Asks
  <2>2. /\ waiters' \in Seq(Runs) /\ IsInjective(waiters')
        /\ Range(waiters') = Range(waiters) \cup {r}
    BY <1>1, <2>1, QueueOfGate
  <2>3. \A x \in Range(waiters') : work'[x] \in Looping
    BY <2>1, <2>2 DEF Waiting, Tables, Looping
  <2>4. \A x \in Range(waiters') : RequestsOf(x, "pending") # {}
    BY <2>2 DEF Waiting
  <2>5. \A x \in Range(waiters') : RequestsOf(x, "pending")' # {}
    BY <2>1, <2>4 DEF RequestsOf
  <2> QED
    BY <2>2, <2>3, <2>5 DEF Waiting
<1>5. CASE \/ Start(r) \/ SnapshotFirst(r) \/ CheckpointPasses(r) \/ PassEnds(r) \/ Finish(r)
           \/ \E q \in RequestsOf(r, "pending") : AdmitHostFull(r, q)
  <2>1. UNCHANGED gateVars
    BY <1>5 DEF Start, SnapshotFirst, CheckpointPasses, PassEnds, Finish, AdmitHostFull
  <2>2. \A x \in Runs : work[x] \in Looping => work'[x] \in Looping
    BY <1>5 DEF Start, SnapshotFirst, CheckpointPasses, PassEnds, Finish, AdmitHostFull, Tables,
                Looping
  <2> QED
    BY <2>1, <2>2, WaitingKept DEF gateVars
<1>6. CASE WriteProgress(r) /\ ~EndsRun(r)
  <2>1. work[r] \in Looping /\ ~EndRun(r, "failed", {})
    BY <1>6 DEF WriteProgress, EndsRun, Looping
  <2>2. UNCHANGED gateVars /\ \E to \in Looping : work' = [work EXCEPT ![r] = to]
    BY <1>6, <2>1 DEF WriteProgress, CollectsMore, Looping
  <2> QED
    BY <2>2, WaitingKept DEF gateVars, Tables
<1>7. ASSUME NEW q \in RequestsOf(r, "done"), Collect(r, q), ~EndsRun(r)
      PROVE  Waiting'
  <2>1. /\ work[r] \in Looping
        /\ ~EndRun(r, "failed", {}) /\ ~EndRun(r, "cancelled", {})
    BY <1>7 DEF Collect, EndsRun, Looping
  <2>2. /\ req' = [req EXCEPT ![q] = "gone"] /\ UNCHANGED waiters
        /\ \E to \in Looping : work' = [work EXCEPT ![r] = to]
    BY <1>7, <2>1 DEF Collect, CollectsMore, Looping
  <2>3. \A x \in Request : req[x] = "pending" => req'[x] = "pending"
    BY <2>2 DEF RequestsOf, Tables
  <2> QED
    BY <2>2, <2>3, WaitingKept DEF Tables
<1>8. CASE CheckpointCancels(r) \/ ResourcePressure(r) \/ Commit(r)
  <2>1. work[r] \in Looping
    BY <1>8 DEF CheckpointCancels, ResourcePressure, Commit, Looping
  <2>2. EndRun(r, "cancelled", {}) \/ EndRun(r, "failed", {}) \/ EndRun(r, "completed", {})
    BY <1>8 DEF CheckpointCancels, ResourcePressure, Commit
  <2>3. EndsRun(r)
    BY <2>1, <2>2 DEF EndsRun
  <2> QED
    BY <1>2, <2>3
<1>9. ASSUME NEW q \in RequestsOf(r, "pending"), AdmitClosed(r, q) \/ AdmitRaises(r, q)
      PROVE  Waiting'
  <2>1. /\ work[r] \in Looping
        /\ \E outcome \in Terminal : EndRun(r, outcome, {}) \/ EndRun(r, outcome, {r})
    BY <1>9 DEF AdmitClosed, AdmitRaises, Asks, Looping
  <2>2. EndsRun(r)
    BY <2>1 DEF EndsRun
  <2> QED
    BY <1>2, <2>2
<1> QED
  BY <1>2, <1>3, <1>4, <1>5, <1>6, <1>7, <1>8, <1>9 DEF RunStep
LEMMA WaitingNext ==
  ASSUME RunInv, Waiting, [Next]_vars
  PROVE  Waiting'
<1>1. Tables
  BY DEF RunInv
<1>2. ASSUME NEW r \in Runs, RunStep(r) PROVE Waiting'
  BY <1>1, <1>2, WaitingRun
<1>3. ASSUME NEW r \in Runs, HandOff(r) \/ HandOffRaises(r) PROVE Waiting'
  <2>1. work[r] = "none"
    BY <1>3 DEF HandOff, HandOffRaises, RunInv, Owned, Rejection
  <2>2. UNCHANGED gateVars /\ (UNCHANGED work \/ work' = [work EXCEPT ![r] = "queued"])
    BY <1>3 DEF HandOff, HandOffRaises
  <2>3. \A x \in Runs : work[x] \in Looping => work'[x] \in Looping
    BY <1>1, <2>1, <2>2 DEF Tables, Looping
  <2> QED
    BY <2>2, <2>3, WaitingKept DEF gateVars
<1>4. ASSUME NEW r \in Runs, Cancel(r) \/ CancelOne(r) PROVE Waiting'
  <2>1. UNCHANGED gateVars /\ (UNCHANGED work \/ work' = [work EXCEPT ![r] = "cancelled"])
    BY <1>4 DEF Cancel, CancelOne, CancelHandle
  <2>2. UNCHANGED work \/ work[r] = "queued"
    BY <1>4 DEF Cancel, CancelOne, CancelHandle
  <2>3. \A x \in Runs : work[x] \in Looping => work'[x] \in Looping
    BY <1>1, <2>1, <2>2 DEF Tables, Looping
  <2> QED
    BY <2>1, <2>3, WaitingKept DEF gateVars
<1>5. ASSUME NEW r \in Runs,
             \/ Submit(r) \/ CreateRow(r) \/ Reject(r) \/ SnapshotRejected(r) \/ SaveRejected(r)
             \/ Hook(r) \/ Leave(r) \/ RetireStep(r)
             \/ Pause(r) \/ Resume(r) \/ ControlStep(r) \/ RetryOne(r)
      PROVE  Waiting'
  <2>1. UNCHANGED gateVars /\ UNCHANGED work
    BY <1>5 DEF Submit, CreateRow, Reject, SnapshotRejected, SaveRejected, Hook, Leave, RetireStep,
       RetireSucceeds, RetireFails, Pause, Resume, ControlStep, PersistControl, RollBackControl,
       RetryOne, runVars
  <2> QED
    BY <2>1, WaitingKept DEF gateVars
<1>6. CASE \/ BeginShutdown \/ EndShutdown \/ DrainReturns \/ CloseFetcher \/ UNCHANGED vars
           \/ \E q \in Request : StrayStep(q)
  <2>1. UNCHANGED gateVars /\ \A x \in Runs : work[x] \in Looping => work'[x] \in Looping
    BY <1>6 DEF BeginShutdown, EndShutdown, DrainReturns, CloseFetcher, StrayStep, StrayStarts,
       StrayEnds, Looping, runVars, vars
  <2> QED
    BY <2>1, WaitingKept DEF gateVars
<1>7. CASE Signal \/ SignalFails \/ \E q \in Request : RequestStep(q)
  <2>1. UNCHANGED waiters /\ UNCHANGED work
    BY <1>7 DEF Signal, SignalFails, RequestStep, FetchStarts, FetchEnds, ParseEnds, runVars
  <2>2. \A q \in Request : req[q] = "pending" => req'[q] = "pending"
    <3>1. ASSUME NEW Q, NEW L, EndRequests(Q, L), \A q \in Q : req[q] # "pending"
          PROVE  \A q \in Request : req[q] = "pending" => req'[q] = "pending"
      BY <3>1 DEF EndRequests
    <3>2. CASE Signal \/ SignalFails
      <4> DEFINE queued == {q \in Request : req[q] = "queued"}
      <4>1. EndRequests(queued, queued) /\ \A q \in queued : req[q] # "pending"
        BY <3>2 DEF Signal, SignalFails
      <4> QED
        BY <3>1, <4>1
    <3>3. ASSUME NEW q \in Request, FetchStarts(q)
          PROVE  \A x \in Request : req[x] = "pending" => req'[x] = "pending"
      BY <1>1, <3>3 DEF FetchStarts, Tables
    <3>4. ASSUME NEW q \in Request, FetchEnds(q)
          PROVE  \A x \in Request : req[x] = "pending" => req'[x] = "pending"
      <4>1. req[q] = "fetch" /\ (req' = [req EXCEPT ![q] = "parse"] \/ EndRequests({q}, {q}))
        BY <3>4 DEF FetchEnds
      <4> QED
        BY <1>1, <3>1, <4>1 DEF Tables
    <3>5. ASSUME NEW q \in Request, ParseEnds(q)
          PROVE  \A x \in Request : req[x] = "pending" => req'[x] = "pending"
      BY <3>1, <3>5 DEF ParseEnds
    <3> QED
      BY <1>7, <3>2, <3>3, <3>4, <3>5 DEF RequestStep
  <2> QED
    BY <2>1, <2>2, WaitingKept
<1> QED
  BY <1>2, <1>3, <1>4, <1>5, <1>6, <1>7 DEF Next, SubmitStep, ShutdownStep

-----------------------------------------------------------------------------
(* Tokens, the failed retirements and the bounds.                           *)

LEMMA TokensNext ==
  ASSUME Tables, Bounds, Tokens, [Next]_vars
  PROVE  Tokens'
<1>1. ASSUME NEW R \in SUBSET Runs, CancelTokens(R) PROVE Tokens'
  BY <1>1 DEF CancelTokens, Tokens
<1>2. ASSUME NEW r \in Runs, EndsRun(r) PROVE Tokens'
  <2>1. PICK outcome \in Terminal : EndRun(r, outcome, {}) \/ EndRun(r, outcome, {r})
    BY <1>2 DEF EndsRun
  <2>2. CancelTokens({}) \/ CancelTokens({r})
    BY <2>1 DEF EndRun
  <2> QED
    BY <1>1, <2>2
<1>3. ASSUME NEW r \in Runs, RunStep(r) PROVE Tokens' \/ EndsRun(r)
  <2>1. CASE UNCHANGED tokenVars
    BY <2>1 DEF Tokens, tokenVars
  <2>2. UNCHANGED tokenVars \/ \E outcome \in Terminal : EndRun(r, outcome, {}) \/ EndRun(r, outcome, {r})
    BY <1>3 DEF RunStep, Start, SnapshotFirst, WriteProgress, CheckpointCancels, CheckpointPasses,
       ResourcePressure, PassEnds, Commit, Finish, Collect, AdmitClosed, AdmitHostFull,
       AdmitGateRefuses, AdmitDelayed, Admit, AdmitRaises, tokenVars
  <2>3. ASSUME ~UNCHANGED tokenVars PROVE work[r] \in Looping
    BY <1>3, <2>3 DEF RunStep, Start, SnapshotFirst, WriteProgress, CheckpointCancels, CheckpointPasses,
       ResourcePressure, PassEnds, Commit, Finish, Collect, AdmitClosed, AdmitHostFull,
       AdmitGateRefuses, AdmitDelayed, Admit, AdmitRaises, Asks, tokenVars, Looping
  <2> QED
    BY <2>1, <2>2, <2>3 DEF EndsRun
<1>4. ASSUME NEW r \in Runs, Cancel(r) \/ CancelOne(r) PROVE Tokens'
  <2>1. UNCHANGED tokenVars \/ CancelTokens({r})
    BY <1>4 DEF Cancel, CancelOne, CancelHandle
  <2> QED
    BY <1>1, <2>1 DEF Tokens, tokenVars
<1>5. CASE Signal \/ SignalFails
  BY <1>1, <1>5 DEF Signal, SignalFails, Bounds
<1>6. ASSUME NEW r \in Runs, Pause(r) \/ Resume(r) \/ ControlStep(r) PROVE Tokens'
  BY <1>6 DEF Pause, Resume, Controllable, ControlStep, PersistControl, RollBackControl, Tokens,
     tokenVars
<1>7. ASSUME NEW r \in Runs, Submit(r) \/ SubmitStep(r) \/ RetireStep(r) \/ RetryOne(r)
      PROVE  Tokens'
  BY <1>7 DEF Submit, SubmitStep, CreateRow, HandOff, HandOffRaises, Reject, SnapshotRejected,
     SaveRejected, Hook, Leave, RetireStep, RetireSucceeds, RetireFails, RetryOne, Tokens, tokenVars
<1>8. CASE \/ BeginShutdown \/ EndShutdown \/ DrainReturns \/ CloseFetcher \/ UNCHANGED vars
           \/ \E q \in Request : RequestStep(q) \/ StrayStep(q)
  BY <1>8 DEF BeginShutdown, EndShutdown, DrainReturns, CloseFetcher, vars, RequestStep,
     FetchStarts, FetchEnds, ParseEnds, StrayStep, StrayStarts, StrayEnds, Tokens, tokenVars
<1> QED
  BY <1>2, <1>3, <1>4, <1>5, <1>6, <1>7, <1>8 DEF Next, ShutdownStep
LEMMA RegistryNext ==
  ASSUME RunInv, Registry, [Next]_vars
  PROVE  Registry'
<1>1. \A r \in Runs : retirer[r] # "none" => r \in handles
  BY DEF RunInv, Owned
<1>2. retirer \in [Runs -> {"none", "submitter", "worker", "user", "shutdown"}]
  BY DEF RunInv, Tables
<1>3. ASSUME NEW r \in Runs, NEW who, EnterRetire(r, who), UNCHANGED handles PROVE Registry'
  BY <1>1, <1>2, <1>3 DEF EnterRetire, Registry
<1>4. CASE handles \subseteq handles' /\ UNCHANGED <<retirer, failed>>
  BY <1>4 DEF Registry
<1>5. ASSUME NEW r \in Runs, RetireStep(r) PROVE Registry'
  BY <1>1, <1>2, <1>5 DEF RetireStep, RetireSucceeds, RetireFails, Registry
<1>6. ASSUME NEW r \in Runs,
             \/ Submit(r) \/ CreateRow(r) \/ HandOff(r) \/ HandOffRaises(r)
             \/ Reject(r) \/ SnapshotRejected(r) \/ SaveRejected(r) \/ Leave(r)
      PROVE  Registry'
  BY <1>4, <1>6 DEF Submit, CreateRow, HandOff, HandOffRaises, Reject, SnapshotRejected,
     SaveRejected, Leave, retireVars
<1>7. ASSUME NEW r \in Runs, Hook(r) \/ Cancel(r) \/ CancelOne(r) \/ RetryOne(r) PROVE Registry'
  <2>1. /\ UNCHANGED handles
        /\ \/ UNCHANGED <<retirer, failed>>
           \/ \E who \in {"submitter", "user", "shutdown"} : EnterRetire(r, who)
    BY <1>7 DEF Hook, Cancel, CancelOne, RetryOne, CancelHandle
  <2> QED
    BY <1>3, <1>4, <2>1
<1>8. ASSUME NEW r \in Runs, Pause(r) \/ Resume(r) \/ ControlStep(r) PROVE Registry'
  BY <1>4, <1>8 DEF Pause, Resume, ControlStep, PersistControl, RollBackControl, retireVars
<1>9. ASSUME NEW r \in Runs, RunStep(r) PROVE Registry'
  <2>1. CASE Finish(r)
    <3>1. UNCHANGED handles /\ (EnterRetire(r, "worker") \/ UNCHANGED <<retirer, failed>>)
      BY <2>1 DEF Finish
    <3> QED
      BY <1>3, <1>4, <3>1
  <2>2. CASE ~Finish(r)
    BY <1>4, <1>9, <2>2 DEF RunStep, Start, SnapshotFirst, WriteProgress, CheckpointCancels,
       CheckpointPasses, ResourcePressure, PassEnds, Commit, Collect, AdmitClosed, AdmitHostFull,
       AdmitGateRefuses, AdmitDelayed, Admit, AdmitRaises, retireVars
  <2> QED
    BY <2>1, <2>2
<1>10. CASE \/ BeginShutdown \/ EndShutdown \/ DrainReturns \/ CloseFetcher \/ UNCHANGED vars
            \/ Signal \/ SignalFails \/ \E q \in Request : RequestStep(q) \/ StrayStep(q)
  BY <1>4, <1>10 DEF BeginShutdown, EndShutdown, DrainReturns, CloseFetcher, vars, Signal, SignalFails,
     RequestStep, FetchStarts, FetchEnds, ParseEnds, StrayStep, StrayStarts, StrayEnds, retireVars
<1> QED
  BY <1>5, <1>6, <1>7, <1>8, <1>9, <1>10 DEF Next, SubmitStep, ShutdownStep

LEMMA BoundsRun ==
  ASSUME Tables, Bounds, NEW r \in Runs, RunStep(r)
  PROVE  Bounds'
<1>1. MaxDelays \in Nat /\ MaxFaults \in Nat
  BY BoundAssumption
<1>2. Fault => faults' \in 0 .. MaxFaults
  BY <1>1 DEF Fault, Bounds
<1>3. /\ UNCHANGED <<control, shutVars, controls>>
      /\ faults' = faults \/ Fault
      /\ delays' = delays \/ (delays < MaxDelays /\ delays' = delays + 1)
      /\ UNCHANGED <<started, shutFailed>>
  BY DEF RunStep, Start, SnapshotFirst, WriteProgress, CheckpointCancels, CheckpointPasses,
     ResourcePressure, PassEnds, Commit, Finish, Collect, AdmitClosed, AdmitHostFull,
     AdmitGateRefuses, AdmitDelayed, Admit, AdmitRaises, SaveRun, SaveRaises, retireVars, Fault
<1>4. refused' \in [Runs -> SUBSET Host]
  <2>1. \/ refused' = refused \/ refused' = [refused EXCEPT ![r] = {}]
        \/ \E q \in Request : refused' = [refused EXCEPT ![r] = @ \cup {HostOf[q]}]
    BY DEF RunStep, Start, SnapshotFirst, WriteProgress, CheckpointCancels, CheckpointPasses,
       ResourcePressure, PassEnds, Commit, Finish, Collect, AdmitClosed, AdmitHostFull,
       AdmitGateRefuses, AdmitDelayed, Admit, AdmitRaises, EndRun, runVars, RequestsOf
  <2> QED
    BY <2>1, RequestAssumption DEF Bounds
<1>5. faults' \in 0 .. MaxFaults /\ delays' \in 0 .. MaxDelays
  BY <1>1, <1>2, <1>3 DEF Bounds
<1> QED
  BY <1>3, <1>4, <1>5 DEF Bounds, shutVars

LEMMA BoundsNext ==
  ASSUME Tables, Registry, Bounds, [Next]_vars
  PROVE  Bounds'
<1>1. MaxControls \in Nat /\ MaxFaults \in Nat
  BY BoundAssumption
<1>2. Fault => faults' \in 0 .. MaxFaults
  BY <1>1 DEF Fault, Bounds
<1>3. ASSUME NEW r \in Runs, Submit(r) \/ SubmitStep(r) \/ RetireStep(r) PROVE Bounds'
  BY <1>2, <1>3 DEF Submit, SubmitStep, CreateRow, HandOff, HandOffRaises, Reject, SnapshotRejected,
     SaveRejected, Hook, Leave, RetireStep, RetireSucceeds, RetireFails, SaveRun, SaveRaises, Bounds,
     runVars, retireVars, shutVars
<1>4. ASSUME NEW r \in Runs, Pause(r) \/ Resume(r) \/ Cancel(r) PROVE Bounds'
  <2>1. controls' \in 0 .. MaxControls
    BY <1>1, <1>4 DEF Pause, Resume, Cancel, ControlCall, Bounds
  <2> QED
    BY <1>4, <2>1 DEF Pause, Resume, Cancel, Bounds, retireVars, shutVars
<1>5. ASSUME NEW r \in Runs, ControlStep(r) PROVE Bounds'
  BY <1>2, <1>5 DEF ControlStep, PersistControl, RollBackControl, Bounds, runVars, retireVars, shutVars
<1>6. ASSUME NEW r \in Runs, RunStep(r) PROVE Bounds'
  BY <1>6, BoundsRun
<1>7. ASSUME NEW q \in Request, RequestStep(q) \/ StrayStep(q) PROVE Bounds'
  BY <1>7 DEF RequestStep, FetchStarts, FetchEnds, ParseEnds, StrayStep, StrayStarts, StrayEnds,
     Bounds, runVars, retireVars, shutVars
<1>8. CASE BeginShutdown
  <2>1. failed \subseteq Runs /\ handles \subseteq Runs
    BY DEF Tables, Registry
  <2> QED
    BY <1>8, <2>1 DEF BeginShutdown, Bounds, runVars
<1>9. CASE Signal \/ SignalFails \/ EndShutdown
  BY <1>2, <1>9 DEF Signal, SignalFails, EndShutdown, Bounds, runVars, retireVars
<1>10. CASE DrainReturns \/ CloseFetcher
  BY <1>2, <1>10 DEF DrainReturns, CloseFetcher, Bounds, runVars, retireVars
<1>11. ASSUME NEW r \in Runs, RetryOne(r) \/ CancelOne(r) PROVE Bounds'
  BY <1>11 DEF RetryOne, CancelOne, Bounds, runVars
<1>12. CASE UNCHANGED vars
  BY <1>12 DEF vars, Bounds, runVars, retireVars, shutVars
<1> QED
  BY <1>3, <1>4, <1>5, <1>6, <1>7, <1>8, <1>9, <1>10, <1>11, <1>12 DEF Next, ShutdownStep

(* Only an admission whose submit raises leaves an item behind, and only the *)
(* threads of the pool and the end of a shutdown take one away.              *)
LEMMA StraysNext ==
  ASSUME Strays, [Next]_vars
  PROVE  Strays'
<1>1. MaxThreadFailures \in Nat
  BY BoundAssumption
<1>2. threadFailures' = threadFailures \/ ThreadFails => threadFailures' \in 0 .. MaxThreadFailures
  BY <1>1 DEF Strays, ThreadFails
<1>3. CASE UNCHANGED strayVars
  BY <1>3 DEF Strays, strayVars
<1>4. ASSUME NEW r \in Runs, SubmitStep(r) PROVE Strays'
  BY <1>2, <1>3, <1>4 DEF SubmitStep, CreateRow, HandOff, HandOffRaises, Reject, SnapshotRejected,
     SaveRejected, Hook, Leave, Strays
<1>5. ASSUME NEW r \in Runs, RunStep(r) PROVE Strays'
  <2>1. CASE \E q \in RequestsOf(r, "pending") : AdmitRaises(r, q)
    BY <1>2, <2>1 DEF AdmitRaises, RequestsOf, Strays
  <2>2. CASE ~\E q \in RequestsOf(r, "pending") : AdmitRaises(r, q)
    BY <1>3, <1>5, <2>2 DEF RunStep, Start, SnapshotFirst, WriteProgress, CheckpointCancels,
       CheckpointPasses, ResourcePressure, PassEnds, Commit, Finish, Collect, AdmitClosed,
       AdmitHostFull, AdmitGateRefuses, AdmitDelayed, Admit
  <2> QED
    BY <2>1, <2>2
<1>6. ASSUME NEW r \in Runs,
             \/ Submit(r) \/ RetireStep(r) \/ Pause(r) \/ Resume(r) \/ Cancel(r)
             \/ ControlStep(r) \/ RetryOne(r) \/ CancelOne(r)
      PROVE  Strays'
  BY <1>3, <1>6 DEF Submit, RetireStep, RetireSucceeds, RetireFails, Pause, Resume, Cancel,
     ControlStep, PersistControl, RollBackControl, RetryOne, CancelOne
<1>7. ASSUME NEW q \in Request, RequestStep(q) \/ StrayStep(q) PROVE Strays'
  BY <1>3, <1>7 DEF RequestStep, FetchStarts, FetchEnds, ParseEnds, StrayStep, StrayStarts,
     StrayEnds, Strays
<1>8. CASE \/ BeginShutdown \/ Signal \/ SignalFails \/ EndShutdown \/ DrainReturns \/ CloseFetcher
           \/ UNCHANGED vars
  BY <1>3, <1>8 DEF BeginShutdown, Signal, SignalFails, EndShutdown, DrainReturns, CloseFetcher,
     vars, Strays
<1> QED
  BY <1>4, <1>5, <1>6, <1>7, <1>8 DEF Next, ShutdownStep

-----------------------------------------------------------------------------
LEMMA InitLimits == Init => LimitInv
<1> SUFFICES ASSUME Init PROVE LimitInv
  OBVIOUS
<1>1. Limits
  BY BoundAssumption DEF Init, Limits
<1>2. CountsExact
  <2>1. /\ RequestFutures = {}
        /\ \A h \in Host : {q \in Request : HostOf[q] = h /\ req[q] \in {"queued", "fetch"}} = {}
    BY DEF Init, RequestFutures
  <2> QED
    BY <2>1, FS_EmptySet DEF Init, CountsExact
<1>3. Waiting
  <2>1. waiters = <<>> /\ waiters \in Seq(Runs) /\ DOMAIN waiters = {}
    BY EmptySeq, LenProperties DEF Init
  <2> QED
    BY <2>1 DEF Waiting, Range, IsInjective
<1>4. Tokens /\ Registry
  BY DEF Init, Tokens, Registry
<1>5. Bounds
  <2>1. 0 \in 0 .. MaxControls /\ 0 \in 0 .. MaxDelays /\ 0 \in 0 .. MaxFaults
    BY BoundAssumption
  <2>2. refused \in [Runs -> SUBSET Host] /\ control \in [Runs -> {"idle"}]
    BY DEF Init
  <2> QED
    BY <2>1, <2>2 DEF Init, Bounds
<1>6. Strays
  BY BoundAssumption DEF Init, Strays
<1> QED
  BY <1>1, <1>2, <1>3, <1>4, <1>5, <1>6 DEF LimitInv

(* The inductive invariant holds for ever.                                   *)
THEOREM LimitInvariant == Spec => []LimitInv
<1>1. Init => LimitInv
  BY InitLimits
<1>2. RunInv /\ LimitInv /\ [Next]_vars => LimitInv'
  <2> SUFFICES ASSUME RunInv, LimitInv, [Next]_vars PROVE LimitInv'
    OBVIOUS
  <2>1. Tables
    BY DEF RunInv
  <2> QED
    BY <2>1, LimitsNext, CountsNext, WaitingNext, TokensNext, RegistryNext, BoundsNext, StraysNext
    DEF LimitInv
<1> QED
  BY <1>1, <1>2, RunInvariant, PTL DEF Spec

-----------------------------------------------------------------------------
(* What follows from it.                                                    *)

(* Every variable has its type; in particular the gate and the hosts never   *)
(* serve more requests than their limits.                                    *)
THEOREM RunTypes == Spec => []TypeOK
<1>1. RunInv /\ LimitInv => TypeOK
  BY DEF RunInv, LimitInv, Limits, Waiting, Tokens, Registry, Bounds, Strays, Tables, Looping, TypeOK
<1> QED
  BY <1>1, RunInvariant, LimitInvariant, PTL

(* The counters of the gate and of the hosts count the requests that hold    *)
(* them, over refusals, delays, submits that raise, cancellations, errors    *)
(* and the ends of runs.                                                    *)
THEOREM RunCountsExact == Spec => []CountsExact
<1>1. LimitInv => CountsExact
  BY DEF LimitInv
<1> QED
  BY <1>1, LimitInvariant, PTL

(* A run in the gate's queue executes and has a request to start, so the run *)
(* at its head, whom everybody waits for, does not stay there for nothing.   *)
THEOREM RunWaitersWait == Spec => []WaitersWait
<1>1. RunInv /\ LimitInv => WaitersWait
  <2> SUFFICES ASSUME RunInv, LimitInv, NEW r \in Range(waiters)
               PROVE  r \in Executing /\ RequestsOf(r, "pending") # {}
    BY DEF WaitersWait
  <2>1. r \in Runs
    BY ElementOfSeq, LenProperties DEF LimitInv, Waiting, Range
  <2> QED
    BY <2>1 DEF LimitInv, Waiting, Executing, Looping
<1> QED
  BY <1>1, RunInvariant, LimitInvariant, PTL
==============================================================================
