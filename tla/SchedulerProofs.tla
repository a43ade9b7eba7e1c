---------------------------- MODULE SchedulerProofs ----------------------------
(* Theorems about Scheduler, for every set of schedules, invocations and     *)
(* commanding threads, every pool size and all bounds, restarts included.    *)
EXTENDS Scheduler, FiniteSetTheorems, SequenceTheorems, TLAPS

USE DEF Executing, Times, defVars, poolVars, stopVars

-----------------------------------------------------------------------------
(* The inductive invariant.                                                 *)

Items == [s : Sched, gen : Nat, next : Times]
Dispatches == [s : Sched, gen : Nat, occ : Times, next : Times]
Calls == [st : {"free", "queued", "cancelled"} \cup Executing, s : Sched, gen : Nat,
          occ : Times, next : Times]
Callers == [pc : {"idle", "add", "write", "cancel", "storeOn", "storeOff", "delete"},
            s : Sched, next : Times, victim : Call \cup {NoCall},
            then : {"idle", "storeOn", "storeOff", "delete"}]

(* TypeOK, with the types of the thread's lists and of the bound counters.   *)
Shape ==
    /\ clock \in 0..MaxClock
    /\ counter \in Nat
    /\ generation \in [Sched -> 0..counter]
    /\ due \in [Sched -> Times]
    /\ enabled \in [Sched -> BOOLEAN]
    /\ running \subseteq Sched
    /\ future \in [Sched -> Call \cup {NoCall}]
    /\ stopping \in BOOLEAN /\ closed \in BOOLEAN /\ drained \in BOOLEAN
    /\ io \in {"free", "thread"} \cup Caller \cup Call
    /\ thread \in [pc : {"scan", "work", "write", "dead"}, resched : SUBSET Items,
                   calls : SUBSET Dispatches, item : SUBSET Items]
    /\ call \in [Call -> Calls]
    /\ queue \in Seq(Call) /\ IsInjective(queue)
    /\ caller \in [Caller -> Callers]
    /\ toCancel \subseteq Call
    /\ row \in [Sched -> [there : BOOLEAN, next : Times, on : BOOLEAN]]
    /\ used \in [changes : Nat, faults : Nat, threads : 0..MaxThreadFailures, crashes : Nat]

(* The definition lock has one holder, and it is the one that writes.        *)
Locks ==
    /\ \A c \in Caller : caller[c].pc = "write" <=> io = c
    /\ thread.pc = "write" <=> io = "thread"
    /\ \A n \in Call : call[n].st = "writing" <=> io = n

(* The thread's lists: empty while it scans, one dispatch of a schedule.     *)
Lists ==
    /\ thread.pc \in {"scan", "dead"} => thread.resched = {} /\ thread.calls = {}
    /\ thread.pc # "write" => thread.item = {}
    /\ \A d, e \in thread.calls : d.s = e.s => d = e

Queued == \A n \in Range(queue) : call[n].st = "queued"

(* A registered future is a live invocation of its schedule; every live      *)
(* invocation is registered unless a submission raised; and a schedule to be *)
(* dispatched has none.                                                      *)
Registered ==
    /\ \A s \in Sched : future[s] # NoCall => call[future[s]].st # "free" /\ call[future[s]].s = s
    /\ used.threads = 0 => \A n \in Call : call[n].st # "free" => future[call[n].s] = n
    /\ \A d \in thread.calls : future[d.s] = NoCall

(* After the drain nothing is left that could mark or register a schedule.   *)
Ended == drained => thread.pc = "dead" /\ running = {} /\ \A s \in Sched : future[s] = NoCall

SchedInv ==
    Shape /\ Locks /\ Lists /\ Queued /\ Registered /\ RunningExact /\ WriterIsCurrent /\ Ended

-----------------------------------------------------------------------------
(* Helpers.                                                                  *)

LEMMA Constant ==
    /\ Workers \in Nat \ {0} /\ Period \in Nat \ {0}
    /\ MaxClock \in Nat /\ MaxChanges \in Nat /\ MaxFaults \in Nat
    /\ MaxThreadFailures \in Nat /\ MaxCrashes \in Nat
    /\ NoCall \notin Call /\ Call \cap Caller = {}
    /\ "free" \notin Call \cup Caller /\ "thread" \notin Call \cup Caller
    /\ Sched # {} /\ IsFiniteSet(Sched)
  BY PoolAssumption, BoundAssumption, NameAssumption, ScheduleAssumption

LEMMA Fresh ==
    /\ (CHOOSE s \in Sched : TRUE) \in Sched
    /\ FreeCall \in Calls /\ FreeCall.st = "free"
    /\ IdleCaller \in Callers /\ IdleCaller.pc = "idle"
<1>1. (CHOOSE s \in Sched : TRUE) \in Sched
  BY Constant
<1>2. 0 \in Times
  BY Constant
<1>3. \A s0 \in Sched : [st |-> "free", s |-> s0, gen |-> 0, occ |-> 0, next |-> 0] \in Calls
  BY <1>2 DEF Calls
<1>4. \A s0 \in Sched : [pc |-> "idle", s |-> s0, next |-> 0, victim |-> NoCall, then |-> "idle"] \in Callers
  BY <1>2 DEF Callers
<1> QED
  BY <1>1, <1>3, <1>4 DEF FreeCall, IdleCaller

LEMMA Later == ASSUME Shape PROVE clock + Period \in Times /\ clock \in Times
  BY Constant DEF Shape

(* The writes leave rows and counters of their types, and nothing else.      *)
LEMMA Persisted ==
  ASSUME Shape, NEW s \in Sched, NEW next \in Times, PersistNext(s, next)
  PROVE  /\ row' \in [Sched -> [there : BOOLEAN, next : Times, on : BOOLEAN]]
         /\ used' \in [changes : Nat, faults : Nat, threads : 0..MaxThreadFailures, crashes : Nat]
         /\ used'.threads = used.threads
<1> DEFINE v == IF row[s].there THEN next ELSE row[s].next
<1>1. v \in Times
  BY DEF Shape
<1>2. row' = [row EXCEPT ![s].next = v] \/ row' = row
  BY DEF PersistNext
<1> HIDE DEF v
<1>3. row' \in [Sched -> [there : BOOLEAN, next : Times, on : BOOLEAN]]
  <2>1. row \in [Sched -> [there : BOOLEAN, next : Times, on : BOOLEAN]]
    BY DEF Shape
  <2>2. [row[s] EXCEPT !.next = v] \in [there : BOOLEAN, next : Times, on : BOOLEAN]
    BY <1>1, <2>1
  <2>3. [row EXCEPT ![s].next = v] = [row EXCEPT ![s] = [row[s] EXCEPT !.next = v]]
    OBVIOUS
  <2> QED
    BY <1>2, <2>1, <2>2, <2>3
<1>4. /\ used' \in [changes : Nat, faults : Nat, threads : 0..MaxThreadFailures, crashes : Nat]
      /\ used'.threads = used.threads
  <2>1. used' = used \/ used' = [used EXCEPT !.faults = used.faults + 1]
    BY DEF PersistNext
  <2>2. used \in [changes : Nat, faults : Nat, threads : 0..MaxThreadFailures, crashes : Nat]
    BY DEF Shape
  <2> QED
    BY <2>1, <2>2, Constant
<1> QED
  BY <1>3, <1>4

(* What follows the head of a queue without repetitions.                    *)
LEMMA TailOfQueue ==
  ASSUME queue \in Seq(Call), IsInjective(queue), queue # <<>>
  PROVE  /\ Tail(queue) \in Seq(Call) /\ IsInjective(Tail(queue))
         /\ Head(queue) \in Range(queue)
         /\ Range(Tail(queue)) \subseteq Range(queue) \ {Head(queue)}
<1>1. /\ Len(queue) \in Nat \ {0} /\ DOMAIN queue = 1 .. Len(queue) /\ Head(queue) = queue[1]
  BY EmptySeq, LenProperties, HeadTailProperties
<1>2. /\ Tail(queue) \in Seq(Call) /\ DOMAIN Tail(queue) = 1 .. Len(queue) - 1
      /\ \A i \in 1 .. Len(queue) - 1 : Tail(queue)[i] = queue[i + 1]
  BY <1>1, HeadTailProperties, LenProperties
<1>3. \A i \in 1 .. Len(queue) - 1 : i + 1 \in 1 .. Len(queue) /\ i + 1 # 1
  BY <1>1
<1>4. IsInjective(Tail(queue))
  <2> SUFFICES ASSUME NEW i \in 1 .. Len(queue) - 1, NEW j \in 1 .. Len(queue) - 1,
                      Tail(queue)[i] = Tail(queue)[j]
               PROVE  i = j
    BY <1>2 DEF IsInjective
  <2>1. i + 1 = j + 1
    BY <1>1, <1>2, <1>3 DEF IsInjective
  <2> QED
    BY <2>1
<1>5. Range(Tail(queue)) \subseteq Range(queue) \ {Head(queue)}
  <2> SUFFICES ASSUME NEW i \in 1 .. Len(queue) - 1
               PROVE  Tail(queue)[i] \in Range(queue) /\ Tail(queue)[i] # Head(queue)
    BY <1>2 DEF Range
  <2>1. Tail(queue)[i] = queue[i + 1] /\ i + 1 \in DOMAIN queue /\ 1 \in DOMAIN queue
    BY <1>1, <1>2, <1>3
  <2> QED
    BY <1>1, <1>3, <2>1 DEF Range, IsInjective
<1>6. Head(queue) \in Range(queue)
  BY <1>1 DEF Range
<1> QED
  BY <1>2, <1>4, <1>5, <1>6

LEMMA QueueGrows ==
  ASSUME queue \in Seq(Call), IsInjective(queue), NEW n \in Call, n \notin Range(queue)
  PROVE  /\ Append(queue, n) \in Seq(Call) /\ IsInjective(Append(queue, n))
         /\ Range(Append(queue, n)) = Range(queue) \cup {n}
<1>1. /\ Len(queue) \in Nat /\ DOMAIN queue = 1 .. Len(queue)
      /\ Append(queue, n) \in Seq(Call) /\ DOMAIN Append(queue, n) = 1 .. Len(queue) + 1
      /\ \A i \in 1 .. Len(queue) : Append(queue, n)[i] = queue[i]
      /\ Append(queue, n)[Len(queue) + 1] = n
  BY AppendProperties, LenProperties
<1>2. \A i \in 1 .. Len(queue) + 1 : i \in 1 .. Len(queue) \/ i = Len(queue) + 1
  BY <1>1
<1>3. \A i \in 1 .. Len(queue) : i \in 1 .. Len(queue) + 1 /\ i # Len(queue) + 1
  BY <1>1
<1>4. Len(queue) + 1 \in 1 .. Len(queue) + 1
  BY <1>1
<1>5. IsInjective(Append(queue, n))
  BY <1>1, <1>2, <1>3 DEF IsInjective, Range
<1>6. Range(Append(queue, n)) = Range(queue) \cup {n}
  BY <1>1, <1>2, <1>3, <1>4 DEF Range
<1> QED
  BY <1>1, <1>5, <1>6

(* An item that is taken out of the queue.                                   *)
LEMMA QueueShrinks ==
  ASSUME NEW s \in Seq(Call), IsInjective(s), NEW r
  PROVE  /\ RemoveFirst(s, r) \in Seq(Call) /\ IsInjective(RemoveFirst(s, r))
         /\ Range(RemoveFirst(s, r)) \subseteq Range(s) \ {r}
<1>1. Len(s) \in Nat /\ DOMAIN s = 1 .. Len(s)
  BY LenProperties
<1>2. CASE ~\E i \in 1 .. Len(s) : s[i] = r
  BY <1>1, <1>2 DEF RemoveFirst, Range
<1>3. CASE \E i \in 1 .. Len(s) : s[i] = r
  <2> DEFINE k == SelectInSeq(s, LAMBDA v : v = r)
             t == RemoveAt(s, k)
  <2>1. RemoveFirst(s, r) = t
    BY <1>3 DEF RemoveFirst
  <2>2. PICK i \in 1 .. Len(s) : s[i] = r
    BY <1>3
  <2>3. {j \in 1 .. Len(s) : s[j] = r} = {i}
    BY <1>1, <2>2 DEF IsInjective
  <2>4. k = i
    BY <2>3 DEF SelectInSeq, Min
  <2> HIDE DEF k
  <2>5. /\ SubSeq(s, 1, i - 1) \in Seq(Call) /\ Len(SubSeq(s, 1, i - 1)) = i - 1
        /\ \A j \in 1 .. i - 1 : SubSeq(s, 1, i - 1)[j] = s[j]
    BY <1>1, <2>2, SubSeqProperties
  <2>6. /\ SubSeq(s, i + 1, Len(s)) \in Seq(Call) /\ Len(SubSeq(s, i + 1, Len(s))) = Len(s) - i
        /\ \A j \in 1 .. Len(s) - i : SubSeq(s, i + 1, Len(s))[j] = s[i + j]
    <3>1. /\ i + 1 \in Int /\ Len(s) \in Int
          /\ \A m \in i + 1 .. Len(s) : s[m] \in Call
      BY <1>1, <2>2
    <3>2. /\ SubSeq(s, i + 1, Len(s)) \in Seq(Call)
          /\ Len(SubSeq(s, i + 1, Len(s))) = IF i + 1 <= Len(s) THEN Len(s) - (i + 1) + 1 ELSE 0
          /\ \A j \in 1 .. Len(s) - (i + 1) + 1 : SubSeq(s, i + 1, Len(s))[j] = s[(i + 1) + j - 1]
      BY <3>1, SubSeqProperties
    <3>3. Len(s) - (i + 1) + 1 = Len(s) - i /\ \A j \in Int : (i + 1) + j - 1 = i + j
      BY <1>1, <2>2
    <3>4. Len(SubSeq(s, i + 1, Len(s))) = Len(s) - i
      <4>1. (IF i + 1 <= Len(s) THEN Len(s) - (i + 1) + 1 ELSE 0) = Len(s) - i
        <5>1. \A n \in Nat : \A m \in 1 .. n :
                (IF m + 1 <= n THEN n - (m + 1) + 1 ELSE 0) = n - m
          OBVIOUS
        <5> QED
          BY <1>1, <2>2, <5>1
      <4> QED
        BY <3>2, <4>1
    <3>5. \A j \in 1 .. Len(s) - i : SubSeq(s, i + 1, Len(s))[j] = s[i + j]
      BY <1>1, <2>2, <3>2, <3>3
    <3> QED
      BY <3>2, <3>4, <3>5
  <2>7. t = SubSeq(s, 1, i - 1) \o SubSeq(s, i + 1, Len(s))
    BY <2>4 DEF RemoveAt
  <2> HIDE DEF t
  <2>8. /\ t \in Seq(Call) /\ DOMAIN t = 1 .. Len(s) - 1
        /\ \A j \in 1 .. Len(s) - 1 : t[j] = IF j < i THEN s[j] ELSE s[j + 1]
    <3> DEFINE a == SubSeq(s, 1, i - 1)
               b == SubSeq(s, i + 1, Len(s))
    <3> HIDE DEF a, b
    <3>1. /\ a \in Seq(Call) /\ Len(a) = i - 1 /\ \A j \in 1 .. i - 1 : a[j] = s[j]
          /\ b \in Seq(Call) /\ Len(b) = Len(s) - i /\ \A j \in 1 .. Len(s) - i : b[j] = s[i + j]
          /\ t = a \o b
      BY <2>5, <2>6, <2>7 DEF a, b
    <3>2. /\ t \in Seq(Call) /\ Len(t) = Len(s) - 1
          /\ \A j \in 1 .. Len(s) - 1 : t[j] = IF j <= i - 1 THEN a[j] ELSE b[j - (i - 1)]
      <4>1. /\ t \in Seq(Call) /\ Len(t) = Len(a) + Len(b)
            /\ \A j \in 1 .. Len(a) + Len(b) : t[j] = IF j <= Len(a) THEN a[j] ELSE b[j - Len(a)]
        BY <3>1, ConcatProperties
      <4>2. Len(a) + Len(b) = Len(s) - 1
        BY <1>1, <2>2, <3>1
      <4> QED
        BY <3>1, <4>1, <4>2
    <3>3. DOMAIN t = 1 .. Len(s) - 1
      BY <3>2, LenProperties
    <3>4. ASSUME NEW j \in 1 .. Len(s) - 1
          PROVE  t[j] = IF j < i THEN s[j] ELSE s[j + 1]
      <4>1. CASE j < i
        BY <1>1, <2>2, <3>1, <3>2, <4>1
      <4>2. CASE ~(j < i)
        <5>1. j - (i - 1) \in 1 .. Len(s) - i /\ i + (j - (i - 1)) = j + 1
          BY <1>1, <2>2, <4>2
        <5>2. t[j] = b[j - (i - 1)]
          BY <1>1, <2>2, <3>2, <4>2
        <5> QED
          BY <3>1, <4>2, <5>1, <5>2
      <4> QED
        BY <4>1, <4>2
    <3> QED
      BY <3>2, <3>3, <3>4
  <2>9. ASSUME NEW j \in 1 .. Len(s) - 1
        PROVE  \E m \in 1 .. Len(s) : m # i /\ t[j] = s[m] /\ m = IF j < i THEN j ELSE j + 1
    BY <1>1, <2>2, <2>8
  <2>10. IsInjective(t)
    <3> SUFFICES ASSUME NEW a \in 1 .. Len(s) - 1, NEW b \in 1 .. Len(s) - 1, t[a] = t[b]
                 PROVE  a = b
      BY <2>8 DEF IsInjective
    <3>1. PICK m \in 1 .. Len(s) : t[a] = s[m] /\ m = IF a < i THEN a ELSE a + 1
      BY <2>9
    <3>2. PICK n \in 1 .. Len(s) : t[b] = s[n] /\ n = IF b < i THEN b ELSE b + 1
      BY <2>9
    <3>3. m = n
      BY <1>1, <3>1, <3>2 DEF IsInjective
    <3> QED
      BY <1>1, <2>2, <3>1, <3>2, <3>3
  <2>11. Range(t) \subseteq Range(s) \ {r}
    <3> SUFFICES ASSUME NEW j \in 1 .. Len(s) - 1 PROVE t[j] \in Range(s) \ {r}
      BY <2>8 DEF Range
    <3>1. PICK m \in 1 .. Len(s) : m # i /\ t[j] = s[m]
      BY <2>9
    <3> QED
      BY <1>1, <2>2, <3>1 DEF Range, IsInjective
  <2> QED
    BY <2>1, <2>8, <2>10, <2>11
<1> QED
  BY <1>2, <1>3

Threads == [pc : {"scan", "work", "write", "dead"}, resched : SUBSET Items,
            calls : SUBSET Dispatches, item : SUBSET Items]
Rows == [there : BOOLEAN, next : Times, on : BOOLEAN]
Bound == [changes : Nat, faults : Nat, threads : 0..MaxThreadFailures, crashes : Nat]

(* An invocation goes on.                                                   *)
LEMMA CallMoves ==
  ASSUME call \in [Call -> Calls], NEW n \in Call,
         NEW to \in {"free", "queued", "cancelled"} \cup Executing, call' = [call EXCEPT ![n].st = to]
  PROVE  /\ call' \in [Call -> Calls]
         /\ call'[n].st = to /\ call'[n].s = call[n].s /\ call'[n].gen = call[n].gen
         /\ call'[n].occ = call[n].occ /\ call'[n].next = call[n].next
         /\ \A m \in Call \ {n} : call'[m] = call[m]
<1> DEFINE e == [call[n] EXCEPT !.st = to]
<1>1. /\ e \in Calls /\ e.st = to /\ e.s = call[n].s /\ e.gen = call[n].gen
      /\ e.occ = call[n].occ /\ e.next = call[n].next
  BY DEF Calls
<1>2. call' = [call EXCEPT ![n] = e]
  OBVIOUS
<1> HIDE DEF e
<1> QED
  BY <1>1, <1>2

(* The thread goes back to its scan when its lists are empty.                *)
LEMMA OnwardKeeps ==
  ASSUME NEW t \in Threads
  PROVE  /\ Onward(t) \in Threads
         /\ Onward(t).resched = t.resched /\ Onward(t).calls = t.calls
         /\ Onward(t).pc = IF t.resched = {} /\ t.calls = {} THEN "scan" ELSE t.pc
         /\ t.item = {} => Onward(t).item = {}
  BY DEF Onward, Scanning, Threads, Items, Dispatches

LEMMA Cancels ==
  ASSUME SchedInv, NEW n, Cancel(n)
  PROVE  /\ call' \in [Call -> Calls]
         /\ queue' \in Seq(Call) /\ IsInjective(queue')
         /\ Queued'
         /\ \A m \in Call : /\ call'[m].s = call[m].s /\ call'[m].gen = call[m].gen
                            /\ call'[m].st = "free" <=> call[m].st = "free"
                            /\ call'[m].st = "writing" <=> call[m].st = "writing"
<1>1. /\ call \in [Call -> Calls] /\ queue \in Seq(Call) /\ IsInjective(queue)
      /\ \A m \in Range(queue) : call[m].st = "queued"
      /\ Range(queue) \subseteq Call
  BY DEF SchedInv, Shape, Queued, Range
<1>2. CASE n \in Range(queue)
  <2>1. /\ call' \in [Call -> Calls] /\ call'[n].st = "cancelled"
        /\ call'[n].s = call[n].s /\ call'[n].gen = call[n].gen
        /\ \A m \in Call \ {n} : call'[m] = call[m]
    BY <1>1, <1>2, CallMoves DEF Cancel
  <2>2. /\ queue' \in Seq(Call) /\ IsInjective(queue')
        /\ Range(queue') \subseteq Range(queue) \ {n}
    BY <1>1, <1>2, QueueShrinks DEF Cancel
  <2> QED
    BY <1>1, <1>2, <2>1, <2>2 DEF Queued
<1>3. CASE n \notin Range(queue)
  BY <1>1, <1>3 DEF Cancel, Queued, poolVars
<1> QED
  BY <1>2, <1>3

-----------------------------------------------------------------------------
(* The steps of the commands.                                               *)

(* A step that marks, registers, dispatches and retires nothing.            *)
LEMMA Unmarked ==
  ASSUME SchedInv, Shape', Locks', Lists', Queued', WriterIsCurrent',
         running' = running, future' = future, drained' = drained,
         thread'.calls = thread.calls, thread.pc = "dead" => thread'.pc = "dead",
         used'.threads = used.threads,
         \A m \in Call : call'[m].s = call[m].s /\ (call'[m].st = "free" <=> call[m].st = "free")
  PROVE  SchedInv'
<1>1. Registered'
  <2>1. future \in [Sched -> Call \cup {NoCall}] /\ Registered
    BY DEF SchedInv, Shape
  <2>2. ASSUME NEW s \in Sched, future[s] # NoCall PROVE call'[future[s]].st # "free" /\ call'[future[s]].s = s
    <3>1. future[s] \in Call /\ call[future[s]].st # "free" /\ call[future[s]].s = s
      BY <2>1, <2>2 DEF Registered
    <3> QED
      BY <3>1
  <2>3. ASSUME used.threads = 0, NEW n \in Call, call'[n].st # "free" PROVE future[call'[n].s] = n
    BY <2>1, <2>3 DEF Registered
  <2>4. \A d \in thread.calls : future[d.s] = NoCall
    BY <2>1 DEF Registered
  <2> QED
    BY <2>2, <2>3, <2>4 DEF Registered
<1>2. RunningExact'
  BY DEF SchedInv, RunningExact
<1>3. Ended'
  BY DEF SchedInv, Ended
<1> QED
  BY <1>1, <1>2, <1>3 DEF SchedInv

(* A command that only changes definitions and its own caller.               *)
LEMMA Commanded ==
  ASSUME SchedInv, Shape', NEW c \in Caller,
         \A d \in Caller \ {c} : caller'[d] = caller[d],
         \/ io' = io /\ caller'[c].pc # "write" /\ caller[c].pc # "write"
         \/ io = "free" /\ io' = c /\ caller'[c].pc = "write"
         \/ io = c /\ io' = "free" /\ caller'[c].pc # "write",
         \/ io = "free"
         \/ generation' = generation /\ enabled' = enabled,
         running' = running, future' = future, drained' = drained, thread' = thread,
         used'.threads = used.threads, call' = call, queue' = queue
  PROVE  SchedInv'
<1>0. Locks /\ WriterIsCurrent
  BY DEF SchedInv
<1>n. /\ c # "free" /\ c # "thread" /\ c \notin Call
      /\ "free" \notin Call /\ "free" \notin Caller
  BY Constant
<1>1. Locks'
  <2>1. \A d \in Caller : caller'[d].pc = "write" <=> io' = d
    BY <1>0, <1>n DEF Locks
  <2>2. thread'.pc = "write" <=> io' = "thread"
    BY <1>0, <1>n DEF Locks
  <2>3. \A n \in Call : call'[n].st = "writing" <=> io' = n
    BY <1>0, <1>n DEF Locks
  <2> QED
    BY <2>1, <2>2, <2>3 DEF Locks
<1>2. WriterIsCurrent'
  <2>2. \A n \in Call : io' = n => io = n /\ generation' = generation /\ enabled' = enabled
    BY <1>0, <1>n
  <2>3. io' = "thread" => io = "thread" /\ generation' = generation
    BY <1>0, <1>n
  <2> QED
    BY <1>0, <2>2, <2>3 DEF WriterIsCurrent, Current
<1>3. Lists' /\ Queued'
  BY DEF SchedInv, Lists, Queued
<1> QED
  BY <1>1, <1>2, <1>3, Unmarked

LEMMA Counted ==
  ASSUME Shape, Changed
  PROVE  /\ used' \in Bound /\ used'.threads = used.threads
<1>1. used \in Bound /\ used' = [used EXCEPT !.changes = used.changes + 1]
  BY DEF Shape, Bound, Changed
<1> QED
  BY <1>1 DEF Bound

LEMMA Numbered ==
  ASSUME Shape, NEW s \in Sched, NewGeneration(s)
  PROVE  counter' \in Nat /\ generation' \in [Sched -> 0..counter']
<1>1. counter \in Nat /\ generation \in [Sched -> 0..counter]
  BY DEF Shape
<1>2. \A k \in 0..counter : k \in 0..counter + 1
  BY <1>1
<1>3. counter' = counter + 1 /\ counter + 1 \in 0..counter + 1
  BY <1>1 DEF NewGeneration
<1> QED
  BY <1>1, <1>2, <1>3 DEF NewGeneration

LEMMA Unloaded ==
  ASSUME Shape, NEW s \in Sched, generation' = [generation EXCEPT ![s] = 0], counter' = counter
  PROVE  counter' \in Nat /\ generation' \in [Sched -> 0..counter']
  BY DEF Shape

LEMMA ReplaceKeeps ==
  ASSUME SchedInv, NEW c \in Caller, NEW s \in Sched, Replace(c, s)
  PROVE  SchedInv'
<1>1. Shape
  BY DEF SchedInv
<1>2. clock + Period \in Times /\ 0 \in Times
  BY <1>1, Later, Constant
<1>3. /\ caller' \in [Caller -> Callers] /\ caller'[c].pc = "write" /\ caller[c].pc = "idle"
      /\ used' \in Bound /\ used'.threads = used.threads
      /\ counter' \in Nat /\ generation' \in [Sched -> 0..counter']
  <2>0. future[s] \in Call \cup {NoCall}
    BY <1>1 DEF Shape
  <2>1. [pc |-> "write", s |-> s, next |-> clock + Period, victim |-> future[s], then |-> "idle"] \in Callers
    BY <1>2, <2>0 DEF Callers
  <2>2. caller \in [Caller -> Callers] /\ caller' = [caller EXCEPT ![c] = [pc |-> "write", s |-> s, next |-> clock + Period, victim |-> future[s], then |-> "idle"]]
    BY <1>1 DEF Replace, Shape, GoesOnToWrite
  <2>3. /\ caller' \in [Caller -> Callers] /\ caller'[c].pc = "write"
    BY <2>1, <2>2
  <2> QED
    BY <1>1, <2>3, Counted, Numbered DEF Replace
<1>4. \A d \in Caller \ {c} : caller'[d] = caller[d]
  BY <1>1 DEF Replace, Shape, GoesOnToWrite
<1>5. Shape'
  BY <1>1, <1>2, <1>3, Constant DEF Replace, Shape, Bound, GoesOnToWrite
<1> QED
  BY <1>1, <1>3, <1>4, <1>5, Commanded DEF Replace, GoesOnToWrite

LEMMA EnableKeeps ==
  ASSUME SchedInv, NEW c \in Caller, NEW s \in Sched, Enable(c, s)
  PROVE  SchedInv'
<1>1. Shape
  BY DEF SchedInv
<1>2. clock + Period \in Times /\ 0 \in Times
  BY <1>1, Later, Constant
<1>3. /\ caller' \in [Caller -> Callers] /\ caller'[c].pc = "write" /\ caller[c].pc = "idle"
      /\ used' \in Bound /\ used'.threads = used.threads
      /\ counter' \in Nat /\ generation' \in [Sched -> 0..counter']
  <2>0. future[s] \in Call \cup {NoCall}
    BY <1>1 DEF Shape
  <2>1. [pc |-> "write", s |-> s, next |-> clock + Period, victim |-> NoCall, then |-> "storeOn"] \in Callers
    BY <1>2, <2>0 DEF Callers
  <2>2. caller \in [Caller -> Callers] /\ caller' = [caller EXCEPT ![c] = [pc |-> "write", s |-> s, next |-> clock + Period, victim |-> NoCall, then |-> "storeOn"]]
    BY <1>1 DEF Enable, Shape, GoesOnToWrite
  <2>3. /\ caller' \in [Caller -> Callers] /\ caller'[c].pc = "write"
    BY <2>1, <2>2
  <2> QED
    BY <1>1, <2>3, Counted, Numbered DEF Enable
<1>4. \A d \in Caller \ {c} : caller'[d] = caller[d]
  BY <1>1 DEF Enable, Shape, GoesOnToWrite
<1>5. Shape'
  BY <1>1, <1>2, <1>3, Constant DEF Enable, Shape, Bound, GoesOnToWrite
<1> QED
  BY <1>1, <1>3, <1>4, <1>5, Commanded DEF Enable, GoesOnToWrite

LEMMA DisableKeeps ==
  ASSUME SchedInv, NEW c \in Caller, NEW s \in Sched, Disable(c, s)
  PROVE  SchedInv'
<1>1. Shape
  BY DEF SchedInv
<1>2. clock + Period \in Times /\ 0 \in Times
  BY <1>1, Later, Constant
<1>3. /\ caller' \in [Caller -> Callers] /\ caller'[c].pc = "cancel" /\ caller[c].pc = "idle"
      /\ used' \in Bound /\ used'.threads = used.threads
      /\ counter' \in Nat /\ generation' \in [Sched -> 0..counter']
  <2>0. future[s] \in Call \cup {NoCall}
    BY <1>1 DEF Shape
  <2>1. [pc |-> "cancel", s |-> s, next |-> 0, victim |-> future[s], then |-> "storeOff"] \in Callers
    BY <1>2, <2>0 DEF Callers
  <2>2. caller \in [Caller -> Callers] /\ caller' = [caller EXCEPT ![c] = [pc |-> "cancel", s |-> s, next |-> 0, victim |-> future[s], then |-> "storeOff"]]
    BY <1>1 DEF Disable, Shape, GoesOnToWrite
  <2>3. /\ caller' \in [Caller -> Callers] /\ caller'[c].pc = "cancel"
    BY <2>1, <2>2
  <2> QED
    BY <1>1, <2>3, Counted, Numbered DEF Disable
<1>4. \A d \in Caller \ {c} : caller'[d] = caller[d]
  BY <1>1 DEF Disable, Shape, GoesOnToWrite
<1>5. Shape'
  BY <1>1, <1>2, <1>3, Constant DEF Disable, Shape, Bound, GoesOnToWrite
<1> QED
  BY <1>1, <1>3, <1>4, <1>5, Commanded DEF Disable, GoesOnToWrite

LEMMA RemoveScheduleKeeps ==
  ASSUME SchedInv, NEW c \in Caller, NEW s \in Sched, RemoveSchedule(c, s)
  PROVE  SchedInv'
<1>1. Shape
  BY DEF SchedInv
<1>2. clock + Period \in Times /\ 0 \in Times
  BY <1>1, Later, Constant
<1>3. /\ caller' \in [Caller -> Callers] /\ caller'[c].pc = "cancel" /\ caller[c].pc = "idle"
      /\ used' \in Bound /\ used'.threads = used.threads
      /\ counter' \in Nat /\ generation' \in [Sched -> 0..counter']
  <2>0. future[s] \in Call \cup {NoCall}
    BY <1>1 DEF Shape
  <2>1. [pc |-> "cancel", s |-> s, next |-> 0, victim |-> future[s], then |-> "delete"] \in Callers
    BY <1>2, <2>0 DEF Callers
  <2>2. caller \in [Caller -> Callers] /\ caller' = [caller EXCEPT ![c] = [pc |-> "cancel", s |-> s, next |-> 0, victim |-> future[s], then |-> "delete"]]
    BY <1>1 DEF RemoveSchedule, Shape, GoesOnToWrite
  <2>3. /\ caller' \in [Caller -> Callers] /\ caller'[c].pc = "cancel"
    BY <2>1, <2>2
  <2> QED
    BY <1>1, <2>3, Counted, Unloaded DEF RemoveSchedule
<1>4. \A d \in Caller \ {c} : caller'[d] = caller[d]
  BY <1>1 DEF RemoveSchedule, Shape, GoesOnToWrite
<1>5. Shape'
  BY <1>1, <1>2, <1>3, Constant DEF RemoveSchedule, Shape, Bound, GoesOnToWrite
<1> QED
  BY <1>1, <1>3, <1>4, <1>5, Commanded DEF RemoveSchedule, GoesOnToWrite

LEMMA SaveScheduleKeeps ==
  ASSUME SchedInv, NEW c \in Caller, NEW s \in Sched, SaveSchedule(c, s)
  PROVE  SchedInv'
<1>1. Shape
  BY DEF SchedInv
<1>2. clock + Period \in Times /\ 0 \in Times
  BY <1>1, Later, Constant
<1>3. /\ caller' \in [Caller -> Callers] /\ caller'[c].pc # "write" /\ caller[c].pc = "idle"
      /\ used' \in Bound /\ used'.threads = used.threads
  <2>1. /\ [IdleCaller EXCEPT !.pc = "add", !.s = s, !.next = clock + Period] \in Callers
        /\ [IdleCaller EXCEPT !.pc = "add", !.s = s, !.next = clock + Period].pc # "write"
    BY <1>2, Fresh DEF Callers
  <2>2. caller \in [Caller -> Callers] /\ caller' = [caller EXCEPT ![c] = [IdleCaller EXCEPT !.pc = "add", !.s = s, !.next = clock + Period]]
    BY <1>1 DEF SaveSchedule, Shape
  <2>3. caller' \in [Caller -> Callers] /\ caller'[c].pc # "write"
    BY <2>1, <2>2
  <2> QED
    BY <1>1, <2>3, Counted DEF SaveSchedule
<1>4. \A d \in Caller \ {c} : caller'[d] = caller[d]
  BY <1>1 DEF SaveSchedule, Shape
<1>5. Shape'
  BY <1>1, <1>2, <1>3, Constant DEF SaveSchedule, Shape, Bound
<1> QED
  BY <1>1, <1>3, <1>4, <1>5, Commanded DEF SaveSchedule

LEMMA ReaffirmKeeps ==
  ASSUME SchedInv, NEW c \in Caller, NEW s \in Sched, Reaffirm(c, s)
  PROVE  SchedInv'
<1>1. Shape
  BY DEF SchedInv
<1>2. clock + Period \in Times /\ 0 \in Times
  BY <1>1, Later, Constant
<1>3. /\ caller' \in [Caller -> Callers] /\ caller'[c].pc # "write" /\ caller[c].pc = "idle"
      /\ used' \in Bound /\ used'.threads = used.threads
  <2>1. /\ [IdleCaller EXCEPT !.s = s, !.pc = IF enabled[s] THEN "storeOn" ELSE "storeOff"] \in Callers
        /\ [IdleCaller EXCEPT !.s = s, !.pc = IF enabled[s] THEN "storeOn" ELSE "storeOff"].pc # "write"
    BY <1>2, Fresh DEF Callers
  <2>2. caller \in [Caller -> Callers] /\ caller' = [caller EXCEPT ![c] = [IdleCaller EXCEPT !.s = s, !.pc = IF enabled[s] THEN "storeOn" ELSE "storeOff"]]
    BY <1>1 DEF Reaffirm, Shape
  <2>3. caller' \in [Caller -> Callers] /\ caller'[c].pc # "write"
    BY <2>1, <2>2
  <2> QED
    BY <1>1, <2>3, Counted DEF Reaffirm
<1>4. \A d \in Caller \ {c} : caller'[d] = caller[d]
  BY <1>1 DEF Reaffirm, Shape
<1>5. Shape'
  BY <1>1, <1>2, <1>3, Constant DEF Reaffirm, Shape, Bound
<1> QED
  BY <1>1, <1>3, <1>4, <1>5, Commanded DEF Reaffirm

LEMMA CallerTyped ==
  ASSUME Shape, NEW c \in Caller
  PROVE  /\ caller \in [Caller -> Callers] /\ caller[c] \in Callers
         /\ caller[c].s \in Sched /\ caller[c].next \in Times
         /\ caller[c].victim \in Call \cup {NoCall}
         /\ caller[c].then \in {"idle", "storeOn", "storeOff", "delete"}
  BY DEF Shape, Callers

LEMMA AddKeeps ==
  ASSUME SchedInv, NEW c \in Caller, Add(c)
  PROVE  SchedInv'
<1>1. Shape
  BY DEF SchedInv
<1>2. /\ caller[c].s \in Sched /\ caller[c].next \in Times /\ caller \in [Caller -> Callers]
      /\ IdleCaller \in Callers /\ IdleCaller.pc = "idle"
  BY <1>1, CallerTyped, Fresh
<1>3. /\ caller' \in [Caller -> Callers] /\ caller'[c].pc # "write" /\ caller[c].pc # "write"
      /\ \A d \in Caller \ {c} : caller'[d] = caller[d]
  BY <1>2 DEF Add
<1>4. counter' \in Nat /\ generation' \in [Sched -> 0..counter']
  <2>1. CASE stopping
    BY <1>1, <2>1 DEF Add, Shape
  <2>2. CASE ~stopping
    BY <1>1, <1>2, <2>2, Numbered DEF Add
  <2> QED
    BY <2>1, <2>2
<1>5. Shape'
  BY <1>1, <1>2, <1>3, <1>4 DEF Add, Shape
<1> QED
  BY <1>3, <1>5, Commanded DEF Add

LEMMA CallerWritesKeeps ==
  ASSUME SchedInv, NEW c \in Caller, CallerWrites(c)
  PROVE  SchedInv'
<1>1. Shape /\ Locks
  BY DEF SchedInv
<1>2. caller[c] \in Callers /\ caller[c].s \in Sched /\ caller[c].next \in Times /\ caller \in [Caller -> Callers]
  BY <1>1, CallerTyped
<1>3. /\ caller' \in [Caller -> Callers] /\ caller'[c].pc = "cancel"
      /\ \A d \in Caller \ {c} : caller'[d] = caller[d]
  <2> DEFINE e == [caller[c] EXCEPT !.pc = "cancel"]
  <2>1. e \in Callers /\ e.pc = "cancel"
    BY <1>2 DEF Callers
  <2>2. caller' = [caller EXCEPT ![c] = e]
    BY DEF CallerWrites
  <2> HIDE DEF e
  <2> QED
    BY <1>2, <2>1, <2>2
<1>4. /\ row' \in [Sched -> [there : BOOLEAN, next : Times, on : BOOLEAN]]
      /\ used' \in [changes : Nat, faults : Nat, threads : 0..MaxThreadFailures, crashes : Nat]
      /\ used'.threads = used.threads
  BY <1>1, <1>2, Persisted DEF CallerWrites
<1>5. Shape'
  BY <1>1, <1>3, <1>4 DEF CallerWrites, Shape
<1>6. io = c
  BY <1>1 DEF CallerWrites, Locks
<1> QED
  BY <1>3, <1>4, <1>5, <1>6, Commanded DEF CallerWrites

LEMMA CallerStoresKeeps ==
  ASSUME SchedInv, NEW c \in Caller, CallerStores(c)
  PROVE  SchedInv'
<1>1. Shape
  BY DEF SchedInv
<1>2. /\ caller[c].s \in Sched /\ caller \in [Caller -> Callers]
      /\ IdleCaller \in Callers /\ IdleCaller.pc = "idle" /\ 0 \in Times
  BY <1>1, CallerTyped, Fresh, Constant
<1>3. /\ caller' \in [Caller -> Callers] /\ caller'[c].pc # "write" /\ caller[c].pc # "write"
      /\ \A d \in Caller \ {c} : caller'[d] = caller[d]
  BY <1>2 DEF CallerStores
<1>4. row' \in [Sched -> [there : BOOLEAN, next : Times, on : BOOLEAN]]
  <2> DEFINE s == caller[c].s
  <2>0. row \in [Sched -> [there : BOOLEAN, next : Times, on : BOOLEAN]] /\ s \in Sched
    BY <1>1, <1>2 DEF Shape
  <2>1. CASE row' = [row EXCEPT ![s] = [there |-> FALSE, next |-> 0, on |-> FALSE]]
    <3>1. [there |-> FALSE, next |-> 0, on |-> FALSE] \in [there : BOOLEAN, next : Times, on : BOOLEAN]
      BY <1>2
    <3> QED
      BY <2>0, <2>1, <3>1
  <2>2. CASE row' = [row EXCEPT ![s].on = row[s].there /\ caller[c].pc = "storeOn"]
    <3> DEFINE e == [row[s] EXCEPT !.on = row[s].there /\ caller[c].pc = "storeOn"]
    <3>1. e \in [there : BOOLEAN, next : Times, on : BOOLEAN]
      BY <2>0
    <3>2. row' = [row EXCEPT ![s] = e]
      BY <2>2
    <3> HIDE DEF e
    <3> QED
      BY <2>0, <3>1, <3>2
  <2> QED
    BY <2>1, <2>2 DEF CallerStores
<1>5. Shape'
  BY <1>1, <1>3, <1>4 DEF CallerStores, Shape
<1> QED
  BY <1>3, <1>5, Commanded DEF CallerStores

(* A cancel under no lock moves an invocation nobody writes for.            *)
LEMMA CancelLocks ==
  ASSUME SchedInv, NEW n, Cancel(n), io' = io, thread' = thread, generation' = generation, enabled' = enabled,
         \A d \in Caller : caller'[d].pc = "write" <=> caller[d].pc = "write"
  PROVE  Locks' /\ WriterIsCurrent' /\ Lists' /\ Queued'
<1>1. Locks /\ WriterIsCurrent /\ Lists
  BY DEF SchedInv
<1>2. /\ Queued'
      /\ \A m \in Call : /\ call'[m].s = call[m].s /\ call'[m].gen = call[m].gen
                         /\ call'[m].st = "writing" <=> call[m].st = "writing"
  BY Cancels
<1>3. Locks'
  BY <1>1, <1>2 DEF Locks
<1>4. WriterIsCurrent'
  BY <1>1, <1>2 DEF WriterIsCurrent, Current
<1>5. Lists'
  BY <1>1 DEF Lists
<1> QED
  BY <1>2, <1>3, <1>4, <1>5

LEMMA CallerCancelsKeeps ==
  ASSUME SchedInv, NEW c \in Caller, CallerCancels(c)
  PROVE  SchedInv'
<1>1. Shape
  BY DEF SchedInv
<1>2. /\ call' \in [Call -> Calls] /\ queue' \in Seq(Call) /\ IsInjective(queue')
      /\ \A m \in Call : call'[m].s = call[m].s /\ (call'[m].st = "free" <=> call[m].st = "free")
  BY Cancels DEF CallerCancels
<1>3. /\ caller[c].s \in Sched /\ caller \in [Caller -> Callers]
      /\ caller[c].then \in {"idle", "storeOn", "storeOff", "delete"}
      /\ IdleCaller \in Callers /\ IdleCaller.pc = "idle"
  BY <1>1, CallerTyped, Fresh
<1>4. /\ caller' \in [Caller -> Callers]
      /\ \A d \in Caller : caller'[d].pc = "write" <=> caller[d].pc = "write"
  <2> DEFINE e == [IdleCaller EXCEPT !.pc = caller[c].then, !.s = caller[c].s]
  <2>1. e \in Callers /\ e.pc = caller[c].then
    BY <1>3 DEF Callers
  <2>2. caller' = [caller EXCEPT ![c] = IF caller[c].then = "idle" THEN IdleCaller ELSE e]
    BY <1>3 DEF CallerCancels
  <2>3. caller[c].pc = "cancel"
    BY DEF CallerCancels
  <2> HIDE DEF e
  <2> QED
    BY <1>3, <2>1, <2>2, <2>3
<1>5. Shape'
  BY <1>1, <1>2, <1>4 DEF CallerCancels, Shape
<1>6. Locks' /\ WriterIsCurrent' /\ Lists' /\ Queued'
  BY <1>4, CancelLocks DEF CallerCancels
<1> QED
  BY <1>2, <1>5, <1>6, Unmarked DEF CallerCancels

LEMMA CancelOneKeeps ==
  ASSUME SchedInv, NEW n \in toCancel, CancelOne(n)
  PROVE  SchedInv'
<1>1. Shape
  BY DEF SchedInv
<1>2. /\ call' \in [Call -> Calls] /\ queue' \in Seq(Call) /\ IsInjective(queue')
      /\ \A m \in Call : call'[m].s = call[m].s /\ (call'[m].st = "free" <=> call[m].st = "free")
  BY Cancels DEF CancelOne
<1>5. Shape'
  BY <1>1, <1>2 DEF CancelOne, Shape
<1>6. Locks' /\ WriterIsCurrent' /\ Lists' /\ Queued'
  BY CancelLocks DEF CancelOne
<1> QED
  BY <1>2, <1>5, <1>6, Unmarked DEF CancelOne

LEMMA ShutdownExecutorKeeps ==
  ASSUME SchedInv, ShutdownExecutor
  PROVE  SchedInv'
<1>1. Shape /\ Locks /\ WriterIsCurrent /\ Lists /\ Queued
  BY DEF SchedInv
<1>2. \A n \in Call : [call[n] EXCEPT !.st = "cancelled"] \in Calls
                      /\ [call[n] EXCEPT !.st = "cancelled"].s = call[n].s
                      /\ [call[n] EXCEPT !.st = "cancelled"].gen = call[n].gen
                      /\ [call[n] EXCEPT !.st = "cancelled"].st = "cancelled"
  <2>1. \A e \in Calls : [e EXCEPT !.st = "cancelled"] \in Calls
                      /\ [e EXCEPT !.st = "cancelled"].s = e.s
                      /\ [e EXCEPT !.st = "cancelled"].gen = e.gen
                      /\ [e EXCEPT !.st = "cancelled"].st = "cancelled"
    BY DEF Calls
  <2> QED
    BY <1>1, <2>1 DEF Shape
<1>3. /\ call' \in [Call -> Calls]
      /\ \A m \in Call : /\ call'[m].s = call[m].s /\ call'[m].gen = call[m].gen
                         /\ call'[m].st = "free" <=> call[m].st = "free"
                         /\ call'[m].st = "writing" <=> call[m].st = "writing"
  <2> DEFINE e(m) == [call[m] EXCEPT !.st = "cancelled"]
  <2>1. call \in [Call -> Calls]
    BY <1>1 DEF Shape
  <2>2. call' = [m \in Call |-> IF m \in Range(queue) THEN e(m) ELSE call[m]]
    BY DEF ShutdownExecutor
  <2>3. \A m \in Call : e(m) \in Calls /\ e(m).s = call[m].s /\ e(m).gen = call[m].gen /\ e(m).st = "cancelled"
    BY <1>2
  <2> HIDE DEF e
  <2>4. \A m \in Range(queue) : call[m].st = "queued"
    BY <1>1 DEF Queued
  <2> QED
    BY <2>1, <2>2, <2>3, <2>4
<1>4. queue' = <<>> /\ <<>> \in Seq(Call) /\ IsInjective(<<>>) /\ Range(<<>>) = {}
  BY EmptySeq DEF ShutdownExecutor, IsInjective, Range
<1>5. Shape'
  BY <1>1, <1>3, <1>4 DEF ShutdownExecutor, Shape
<1>6. Locks'
  BY <1>1, <1>3 DEF ShutdownExecutor, Locks
<1>7. WriterIsCurrent'
  BY <1>1, <1>3 DEF ShutdownExecutor, WriterIsCurrent, Current
<1>8. Lists' /\ Queued'
  BY <1>1, <1>4 DEF ShutdownExecutor, Lists, Queued
<1> QED
  BY <1>3, <1>5, <1>6, <1>7, <1>8, Unmarked DEF ShutdownExecutor

-----------------------------------------------------------------------------
(* The steps of the scheduler thread.                                       *)

LEMMA ThreadTyped ==
  ASSUME Shape
  PROVE  /\ thread \in Threads
         /\ \A r \in thread.resched \cup thread.item : r \in Items /\ r.s \in Sched /\ r.next \in Times
         /\ \A d \in thread.calls : d \in Dispatches /\ d.s \in Sched
         /\ [thread EXCEPT !.pc = "dead"] \in Threads
         /\ \A r \in thread.resched :
              /\ [thread EXCEPT !.pc = "write", !.item = {r}] \in Threads
              /\ [thread EXCEPT !.resched = @ \ {r}] \in Threads
              /\ [thread EXCEPT !.pc = "work", !.resched = @ \ {r}, !.item = {}] \in Threads
         /\ \A r : [thread EXCEPT !.pc = "work", !.resched = @ \ {r}, !.item = {}] \in Threads
         /\ \A d : [thread EXCEPT !.calls = @ \ {d}] \in Threads
<1>1. thread \in Threads
  BY DEF Shape, Threads
<1>2. \A r \in thread.resched \cup thread.item : r \in Items /\ r.s \in Sched /\ r.next \in Times
  BY <1>1 DEF Threads, Items
<1>3. \A d \in thread.calls : d \in Dispatches /\ d.s \in Sched
  BY <1>1 DEF Threads, Dispatches
<1> QED
  BY <1>1, <1>2, <1>3 DEF Threads

LEMMA ThreadEndsKeeps ==
  ASSUME SchedInv, ThreadEnds
  PROVE  SchedInv'
<1>1. Shape /\ Locks /\ WriterIsCurrent /\ Lists /\ Queued
  BY DEF SchedInv
<1>2. thread \in Threads /\ [thread EXCEPT !.pc = "dead"] \in Threads
  BY <1>1, ThreadTyped
<1>3. /\ thread' \in Threads /\ thread'.pc = "dead" /\ thread.pc = "scan"
      /\ thread'.resched = thread.resched /\ thread'.calls = thread.calls /\ thread'.item = thread.item
  BY <1>2 DEF ThreadEnds, Threads
<1>4. Shape'
  BY <1>1, <1>3 DEF ThreadEnds, Shape, Threads
<1>5. Locks'
  BY <1>1, <1>3 DEF ThreadEnds, Locks
<1>6. WriterIsCurrent' /\ Lists' /\ Queued'
  BY <1>1, <1>3 DEF ThreadEnds, WriterIsCurrent, Current, Lists, Queued
<1> QED
  BY <1>3, <1>4, <1>5, <1>6, Unmarked DEF ThreadEnds

LEMMA CheckRescheduleKeeps ==
  ASSUME SchedInv, NEW r \in thread.resched, CheckReschedule(r)
  PROVE  SchedInv'
<1>1. Shape /\ Locks /\ WriterIsCurrent /\ Lists /\ Queued
  BY DEF SchedInv
<1>2. thread \in Threads /\ thread.pc = "work" /\ thread.item = {} /\ io = "free"
  BY <1>1, ThreadTyped DEF CheckReschedule, Lists
<1>n. "free" # "thread" /\ "thread" \notin Call /\ "thread" \notin Caller /\ "free" \notin Call /\ "free" \notin Caller
  BY Constant
<1>3. CASE Current(r.s, r.gen)
  <2>1. [thread EXCEPT !.pc = "write", !.item = {r}] \in Threads
    BY <1>1, ThreadTyped
  <2>2. /\ io' = "thread" /\ thread' \in Threads /\ thread'.pc = "write" /\ thread'.item = {r}
        /\ thread'.resched = thread.resched /\ thread'.calls = thread.calls
    BY <1>2, <1>3, <2>1 DEF CheckReschedule, Threads
  <2>4. Shape'
    BY <1>1, <2>2 DEF CheckReschedule, Shape, Threads
  <2>5. Locks'
    BY <1>1, <1>2, <1>n, <2>2 DEF CheckReschedule, Locks
  <2>6. WriterIsCurrent'
    BY <1>3, <1>n, <2>2 DEF CheckReschedule, WriterIsCurrent, Current
  <2>7. Lists' /\ Queued'
    BY <1>1, <2>2 DEF CheckReschedule, Lists, Queued
  <2> QED
    BY <1>2, <2>2, <2>4, <2>5, <2>6, <2>7, Unmarked DEF CheckReschedule
<1>4. CASE ~Current(r.s, r.gen)
  <2> DEFINE t == [thread EXCEPT !.resched = @ \ {r}]
  <2>1. t \in Threads /\ t.pc = "work" /\ t.item = {} /\ t.calls = thread.calls
    BY <1>1, <1>2, ThreadTyped DEF Threads
  <2>2. io' = "free" /\ thread' = Onward(t)
    BY <1>2, <1>4 DEF CheckReschedule
  <2> HIDE DEF t
  <2>3. /\ thread' \in Threads /\ thread'.item = {} /\ thread'.calls = thread.calls
        /\ thread'.pc \in {"scan", "work"}
        /\ thread'.pc = "scan" => thread'.resched = {} /\ thread'.calls = {}
    BY <2>1, <2>2, OnwardKeeps
  <2>4. Shape'
    BY <1>1, <2>2, <2>3 DEF CheckReschedule, Shape, Threads
  <2>5. Locks'
    BY <1>1, <1>2, <1>n, <2>2, <2>3 DEF CheckReschedule, Locks
  <2>6. WriterIsCurrent'
    BY <1>1, <1>2, <1>n, <2>2, <2>3 DEF CheckReschedule, WriterIsCurrent, Current
  <2>7. Lists' /\ Queued'
    BY <1>1, <2>3 DEF CheckReschedule, Lists, Queued
  <2> QED
    BY <1>2, <2>3, <2>4, <2>5, <2>6, <2>7, Unmarked DEF CheckReschedule
<1> QED
  BY <1>3, <1>4

LEMMA WriteRescheduleKeeps ==
  ASSUME SchedInv, WriteReschedule
  PROVE  SchedInv'
<1>1. Shape /\ Locks /\ WriterIsCurrent /\ Lists /\ Queued
  BY DEF SchedInv
<1>2. thread \in Threads /\ thread.pc = "write" /\ io = "thread" /\ io' = "free"
  BY <1>1, ThreadTyped DEF WriteReschedule, Locks
<1>n. "free" # "thread" /\ "thread" \notin Call /\ "thread" \notin Caller /\ "free" \notin Call /\ "free" \notin Caller
  BY Constant
<1>3. PICK r \in thread.item :
        /\ PersistNext(r.s, r.next)
        /\ thread' = Onward([thread EXCEPT !.pc = "work", !.resched = @ \ {r}, !.item = {}])
  BY DEF WriteReschedule
<1>4. /\ row' \in [Sched -> [there : BOOLEAN, next : Times, on : BOOLEAN]]
      /\ used' \in [changes : Nat, faults : Nat, threads : 0..MaxThreadFailures, crashes : Nat]
      /\ used'.threads = used.threads
  <2>1. r.s \in Sched /\ r.next \in Times
    BY <1>1, ThreadTyped
  <2> QED
    BY <1>1, <1>3, <2>1, Persisted
<1>5. /\ thread' \in Threads /\ thread'.item = {} /\ thread'.calls = thread.calls
      /\ thread'.pc \in {"scan", "work"}
      /\ thread'.pc = "scan" => thread'.resched = {} /\ thread'.calls = {}
  <2> DEFINE t == [thread EXCEPT !.pc = "work", !.resched = @ \ {r}, !.item = {}]
  <2>1. t \in Threads /\ t.pc = "work" /\ t.item = {} /\ t.calls = thread.calls
    BY <1>2, <1>1, ThreadTyped DEF Threads
  <2>2. thread' = Onward(t)
    BY <1>3
  <2> HIDE DEF t
  <2> QED
    BY <2>1, <2>2, OnwardKeeps
<1>6. Shape'
  BY <1>1, <1>2, <1>4, <1>5 DEF WriteReschedule, Shape, Threads
<1>7. Locks'
  BY <1>1, <1>2, <1>n, <1>5 DEF WriteReschedule, Locks
<1>8. WriterIsCurrent'
  BY <1>2, <1>n DEF WriteReschedule, WriterIsCurrent
<1>9. Lists' /\ Queued'
  BY <1>1, <1>5 DEF WriteReschedule, Lists, Queued
<1> QED
  BY <1>2, <1>4, <1>5, <1>6, <1>7, <1>8, <1>9, Unmarked DEF WriteReschedule

-----------------------------------------------------------------------------
(* The steps of an invocation.                                              *)

(* An invocation goes on: it leaves the queue, and it takes or gives back    *)
(* the definition lock or leaves it alone.                                   *)
LEMMA CallAdvances ==
  ASSUME SchedInv, NEW n \in Call, call[n].st # "free",
         call' \in [Call -> Calls], call'[n].st \in Executing,
         call'[n].s = call[n].s, call'[n].gen = call[n].gen,
         \A m \in Call \ {n} : call'[m] = call[m],
         queue' \in Seq(Call), IsInjective(queue'), Range(queue') \subseteq Range(queue) \ {n},
         \/ call'[n].st # "writing" /\ call[n].st # "writing" /\ io' = io
         \/ call'[n].st = "writing" /\ io = "free" /\ io' = n /\ Current(call[n].s, call[n].gen)
         \/ call'[n].st # "writing" /\ io = n /\ io' = "free",
         row' \in [Sched -> [there : BOOLEAN, next : Times, on : BOOLEAN]],
         used' \in [changes : Nat, faults : Nat, threads : 0..MaxThreadFailures, crashes : Nat],
         used'.threads = used.threads,
         UNCHANGED <<clock, defVars, running, future, stopVars, thread, caller>>
  PROVE  SchedInv'
<1>1. Shape /\ Locks /\ WriterIsCurrent /\ Lists /\ Queued
  BY DEF SchedInv
<1>n. /\ n # "free" /\ n # "thread" /\ n \notin Caller
      /\ "free" # "thread" /\ "thread" \notin Call /\ "thread" \notin Caller
      /\ "free" \notin Call /\ "free" \notin Caller
  BY Constant
<1>2. io' \in {"free", "thread"} \cup Caller \cup Call
  BY <1>1 DEF Shape
<1>3. Shape'
  <2>1. /\ clock' \in 0..MaxClock /\ counter' \in Nat /\ generation' \in [Sched -> 0..counter']
        /\ due' \in [Sched -> Times] /\ enabled' \in [Sched -> BOOLEAN] /\ running' \subseteq Sched
        /\ future' \in [Sched -> Call \cup {NoCall}]
        /\ stopping' \in BOOLEAN /\ closed' \in BOOLEAN /\ drained' \in BOOLEAN
        /\ thread' \in [pc : {"scan", "work", "write", "dead"}, resched : SUBSET Items,
                        calls : SUBSET Dispatches, item : SUBSET Items]
        /\ caller' \in [Caller -> Callers] /\ toCancel' \subseteq Call
    BY <1>1 DEF Shape
  <2> QED
    BY <1>2, <2>1 DEF Shape
<1>4. Locks'
  <2>1. \A c \in Caller : caller'[c].pc = "write" <=> io' = c
    BY <1>1, <1>n DEF Locks
  <2>2. thread'.pc = "write" <=> io' = "thread"
    BY <1>1, <1>n DEF Locks
  <2>3. \A m \in Call : call'[m].st = "writing" <=> io' = m
    BY <1>1, <1>n DEF Locks
  <2> QED
    BY <2>1, <2>2, <2>3 DEF Locks
<1>5. WriterIsCurrent'
  <2>1. \A m \in Call : call'[m].s = call[m].s /\ call'[m].gen = call[m].gen
    OBVIOUS
  <2>2. \A m \in Call : io' = m => io = m \/ (m = n /\ Current(call[n].s, call[n].gen))
    BY <1>n
  <2>3. io' = "thread" => io = "thread"
    BY <1>n
  <2> QED
    BY <1>1, <2>1, <2>2, <2>3 DEF WriterIsCurrent, Current
<1>6. Lists' /\ Queued'
  <2>1. Range(queue) \subseteq Call
    BY <1>1 DEF Shape, Range
  <2> QED
    BY <1>1, <2>1 DEF Lists, Queued
<1> QED
  BY <1>3, <1>4, <1>5, <1>6, Unmarked

(* An invocation that a worker has taken is no longer in the queue.          *)
LEMMA NotQueued ==
  ASSUME SchedInv, NEW n \in Call, call[n].st # "queued"
  PROVE  /\ Range(queue) \subseteq Range(queue) \ {n}
         /\ queue \in Seq(Call) /\ IsInjective(queue)
         /\ call \in [Call -> Calls] /\ call[n].s \in Sched /\ call[n].next \in Times
         /\ row \in [Sched -> [there : BOOLEAN, next : Times, on : BOOLEAN]]
         /\ used \in [changes : Nat, faults : Nat, threads : 0..MaxThreadFailures, crashes : Nat]
  BY DEF SchedInv, Shape, Queued, Calls

LEMMA TakeKeeps ==
  ASSUME SchedInv, NEW n \in Call, Take(n)
  PROVE  SchedInv'
<1>1. /\ call \in [Call -> Calls] /\ queue \in Seq(Call) /\ IsInjective(queue) /\ queue # <<>>
      /\ row \in [Sched -> [there : BOOLEAN, next : Times, on : BOOLEAN]]
      /\ used \in [changes : Nat, faults : Nat, threads : 0..MaxThreadFailures, crashes : Nat]
  BY DEF SchedInv, Shape, Take
<1>2. /\ queue' \in Seq(Call) /\ IsInjective(queue') /\ Range(queue') \subseteq Range(queue) \ {n}
      /\ n \in Range(queue)
  BY <1>1, TailOfQueue DEF Take
<1>3. call[n].st = "queued"
  BY <1>2 DEF SchedInv, Queued
<1>4. /\ call' \in [Call -> Calls] /\ call'[n].st = "started"
      /\ call'[n].s = call[n].s /\ call'[n].gen = call[n].gen
      /\ \A m \in Call \ {n} : call'[m] = call[m]
  BY <1>1, CallMoves DEF Take, Goes
<1> QED
  BY <1>1, <1>2, <1>3, <1>4, CallAdvances DEF Take

LEMMA CheckKeeps ==
  ASSUME SchedInv, NEW n \in Call, Check(n)
  PROVE  SchedInv'
<1>1. call[n].st = "started"
  BY DEF Check
<1>2. PICK to \in {"calling", "returned"} : call' = [call EXCEPT ![n].st = to]
  BY DEF Check, Goes
<1>3. /\ call' \in [Call -> Calls] /\ call'[n].st = to
      /\ call'[n].s = call[n].s /\ call'[n].gen = call[n].gen
      /\ \A m \in Call \ {n} : call'[m] = call[m]
  BY <1>1, <1>2, NotQueued, CallMoves
<1> QED
  BY <1>1, <1>3, NotQueued, CallAdvances DEF Check

LEMMA CallbackEndsKeeps ==
  ASSUME SchedInv, NEW n \in Call, CallbackEnds(n)
  PROVE  SchedInv'
<1>1. call[n].st = "calling" /\ call' = [call EXCEPT ![n].st = "finishing"]
  BY DEF CallbackEnds, Goes
<1>3. /\ call' \in [Call -> Calls] /\ call'[n].st = "finishing"
      /\ call'[n].s = call[n].s /\ call'[n].gen = call[n].gen
      /\ \A m \in Call \ {n} : call'[m] = call[m]
  BY <1>1, NotQueued, CallMoves
<1> QED
  BY <1>1, <1>3, NotQueued, CallAdvances DEF CallbackEnds

LEMMA CaptureNextKeeps ==
  ASSUME SchedInv, NEW n \in Call, CaptureNext(n)
  PROVE  SchedInv'
<1>1. call[n].st = "finishing" /\ io = "free"
  BY DEF CaptureNext
<1>2. CASE Current(call[n].s, call[n].gen) /\ enabled[call[n].s]
  <2> DEFINE e == [call[n] EXCEPT !.st = "writing", !.next = due[call[n].s]]
  <2>1. e \in Calls /\ e.st = "writing" /\ e.s = call[n].s /\ e.gen = call[n].gen
    <3>1. due[call[n].s] \in Times /\ call[n] \in Calls
      BY <1>1, NotQueued DEF SchedInv, Shape
    <3> QED
      BY <3>1 DEF Calls
  <2>2. call' = [call EXCEPT ![n] = e] /\ io' = n
    BY <1>2 DEF CaptureNext
  <2> HIDE DEF e
  <2>3. /\ call' \in [Call -> Calls] /\ call'[n].st = "writing"
        /\ call'[n].s = call[n].s /\ call'[n].gen = call[n].gen
        /\ \A m \in Call \ {n} : call'[m] = call[m]
    BY <1>1, <2>1, <2>2, NotQueued
  <2> QED
    BY <1>1, <1>2, <2>2, <2>3, NotQueued, CallAdvances DEF CaptureNext
<1>3. CASE ~(Current(call[n].s, call[n].gen) /\ enabled[call[n].s])
  <2>1. call' = [call EXCEPT ![n].st = "returned"] /\ io' = io
    BY <1>3 DEF CaptureNext, Goes
  <2>2. /\ call' \in [Call -> Calls] /\ call'[n].st = "returned"
        /\ call'[n].s = call[n].s /\ call'[n].gen = call[n].gen
        /\ \A m \in Call \ {n} : call'[m] = call[m]
    BY <1>1, <2>1, NotQueued, CallMoves
  <2> QED
    BY <1>1, <2>1, <2>2, NotQueued, CallAdvances DEF CaptureNext
<1> QED
  BY <1>2, <1>3

LEMMA WriteNextKeeps ==
  ASSUME SchedInv, NEW n \in Call, WriteNext(n)
  PROVE  SchedInv'
<1>1. call[n].st = "writing" /\ io' = "free" /\ call' = [call EXCEPT ![n].st = "returned"]
  BY DEF WriteNext, Goes
<1>2. io = n
  BY <1>1 DEF SchedInv, Locks
<1>3. /\ call' \in [Call -> Calls] /\ call'[n].st = "returned"
      /\ call'[n].s = call[n].s /\ call'[n].gen = call[n].gen
      /\ \A m \in Call \ {n} : call'[m] = call[m]
  BY <1>1, NotQueued, CallMoves
<1>4. /\ row' \in [Sched -> [there : BOOLEAN, next : Times, on : BOOLEAN]]
      /\ used' \in [changes : Nat, faults : Nat, threads : 0..MaxThreadFailures, crashes : Nat]
      /\ used'.threads = used.threads
  <2>1. Shape /\ call[n].s \in Sched /\ call[n].next \in Times
    BY <1>1, NotQueued DEF SchedInv
  <2> QED
    BY <2>1, Persisted DEF WriteNext
<1> QED
  BY <1>1, <1>2, <1>3, <1>4, NotQueued, CallAdvances DEF WriteNext

LEMMA RetireKeeps ==
  ASSUME SchedInv, NEW n \in Call, Retire(n)
  PROVE  SchedInv'
<1>1. Shape /\ Locks /\ WriterIsCurrent /\ Lists /\ Queued /\ Registered /\ RunningExact /\ Ended
  BY DEF SchedInv
<1>2. call[n].st \in {"returned", "cancelled"}
  BY DEF Retire
<1>3. /\ call \in [Call -> Calls] /\ call[n].s \in Sched
      /\ future \in [Sched -> Call \cup {NoCall}] /\ running \subseteq Sched
      /\ FreeCall \in Calls /\ FreeCall.st = "free"
      /\ queue \in Seq(Call) /\ Range(queue) \subseteq Range(queue) \ {n} /\ Range(queue) \subseteq Call
      /\ NoCall \notin Call /\ n # NoCall
  <2>1. call[n].st # "queued"
    BY <1>2
  <2>2. future \in [Sched -> Call \cup {NoCall}] /\ running \subseteq Sched
    BY <1>1 DEF Shape
  <2>3. /\ call \in [Call -> Calls] /\ call[n].s \in Sched
        /\ queue \in Seq(Call) /\ Range(queue) \subseteq Range(queue) \ {n}
    BY <2>1, NotQueued
  <2>4. Range(queue) \subseteq Call
    BY <1>1 DEF Shape, Range
  <2> QED
    BY <2>2, <2>3, <2>4, Fresh, Constant
<1>4. /\ call' \in [Call -> Calls] /\ call'[n].st = "free"
      /\ \A m \in Call \ {n} : call'[m] = call[m]
  BY <1>3 DEF Retire
<1>5. CASE future[call[n].s] = n
  <2>1. /\ future' = [future EXCEPT ![call[n].s] = NoCall]
        /\ running' = running \ {call[n].s}
    BY <1>5 DEF Retire
  <2>2. /\ future' \in [Sched -> Call \cup {NoCall}] /\ future'[call[n].s] = NoCall
        /\ \A s \in Sched \ {call[n].s} : future'[s] = future[s]
    BY <1>3, <2>1
  <2> HIDE DEF Retire
  <2>3. Registered'
    <3>1. ASSUME NEW s \in Sched, future'[s] # NoCall PROVE call'[future'[s]].st # "free" /\ call'[future'[s]].s = s
      <4>1. s # call[n].s /\ future'[s] = future[s]
        BY <2>2, <3>1
      <4>2. future[s] \in Call /\ call[future[s]].st # "free" /\ call[future[s]].s = s
        BY <1>1, <1>3, <3>1, <4>1 DEF Registered
      <4>3. future[s] # n
        BY <4>1, <4>2
      <4> QED
        BY <1>4, <4>1, <4>2, <4>3
    <3>2. ASSUME used'.threads = 0, NEW m \in Call, call'[m].st # "free" PROVE future'[call'[m].s] = m
      <4>1. m # n /\ call'[m] = call[m]
        BY <1>4, <3>2
      <4>2. future[call[m].s] = m
        BY <1>1, <3>2, <4>1 DEF Registered, Retire
      <4>3. call[m].s \in Sched
        BY <1>3 DEF Calls
      <4> QED
        BY <1>5, <2>2, <4>1, <4>2, <4>3
    <3>3. \A d \in thread'.calls : future'[d.s] = NoCall
      <4>1. \A d \in thread'.calls : d.s \in Sched /\ future[d.s] = NoCall
        BY <1>1, ThreadTyped DEF Registered, Retire
      <4> QED
        BY <2>2, <4>1
    <3> QED
      BY <3>1, <3>2, <3>3 DEF Registered
  <2>4. RunningExact'
    <3> SUFFICES ASSUME NEW s \in Sched
                 PROVE  s \in running' <=> (\E d \in thread.calls : d.s = s) # (future'[s] # NoCall)
      BY DEF RunningExact, Retire
    <3>1. CASE s = call[n].s
      <4>1. \A d \in thread.calls : d.s # s
        BY <1>1, <1>3, <1>5, <3>1 DEF Registered
      <4> QED
        BY <2>1, <2>2, <3>1, <4>1
    <3>2. CASE s # call[n].s
      BY <1>1, <2>1, <2>2, <3>2 DEF RunningExact
    <3> QED
      BY <3>1, <3>2
  <2>5. Ended'
    BY <1>1, <1>3, <2>1, <2>2 DEF Ended, Retire
  <2>6. Shape'
    BY <1>1, <1>4, <2>1, <2>2 DEF Shape, Retire
  <2>7. Locks'
    BY <1>1, <1>2, <1>4 DEF Locks, Retire
  <2>8. WriterIsCurrent'
    <3>1. io # n
      BY <1>1, <1>2 DEF Locks
    <3> QED
      BY <1>1, <1>4, <3>1 DEF WriterIsCurrent, Current, Retire
  <2>9. Lists' /\ Queued'
    BY <1>1, <1>3, <1>4 DEF Lists, Queued, Retire
  <2> QED
    BY <2>3, <2>4, <2>5, <2>6, <2>7, <2>8, <2>9 DEF SchedInv
<1>6. CASE future[call[n].s] # n
  <2>1. future' = future /\ running' = running
    BY <1>6 DEF Retire
  <2>3. Registered'
    <3>1. ASSUME NEW s \in Sched, future[s] # NoCall PROVE call'[future[s]].st # "free" /\ call'[future[s]].s = s
      <4>2. future[s] \in Call /\ call[future[s]].st # "free" /\ call[future[s]].s = s
        BY <1>1, <1>3, <3>1 DEF Registered
      <4>3. future[s] # n
        BY <1>6, <4>2
      <4> QED
        BY <1>4, <4>2, <4>3
    <3>2. ASSUME used.threads = 0, NEW m \in Call, call'[m].st # "free" PROVE future[call'[m].s] = m
      <4>1. m # n /\ call'[m] = call[m]
        BY <1>4, <3>2
      <4> QED
        BY <1>1, <3>2, <4>1 DEF Registered
    <3>3. \A d \in thread.calls : future[d.s] = NoCall
      BY <1>1 DEF Registered
    <3> QED
      BY <2>1, <3>1, <3>2, <3>3 DEF Registered, Retire
  <2>4. RunningExact' /\ Ended'
    BY <1>1, <2>1 DEF RunningExact, Ended, Retire
  <2>6. Shape'
    BY <1>1, <1>4, <2>1 DEF Shape, Retire
  <2>7. Locks'
    BY <1>1, <1>2, <1>4 DEF Locks, Retire
  <2>8. WriterIsCurrent'
    <3>1. io # n
      BY <1>1, <1>2 DEF Locks
    <3> QED
      BY <1>1, <1>4, <3>1 DEF WriterIsCurrent, Current, Retire
  <2>9. Lists' /\ Queued'
    BY <1>1, <1>3, <1>4 DEF Lists, Queued, Retire
  <2> QED
    BY <2>3, <2>4, <2>6, <2>7, <2>8, <2>9 DEF SchedInv
<1> QED
  BY <1>5, <1>6

-----------------------------------------------------------------------------
(* The submissions.                                                         *)

LEMMA SubmittedThread ==
  ASSUME SchedInv, thread.pc = "work", NEW d \in thread.calls, Submitted(d)
  PROVE  /\ thread' \in Threads /\ thread'.pc \in {"work", "scan"} /\ thread'.item = {}
         /\ thread'.calls = thread.calls \ {d}
         /\ thread'.pc = "scan" => thread'.resched = {} /\ thread'.calls = {}
         /\ d \in Dispatches /\ d.s \in Sched
<1> DEFINE t == [thread EXCEPT !.calls = @ \ {d}]
<1>1. Shape /\ thread.item = {}
  BY DEF SchedInv, Lists
<1>2. thread \in Threads /\ t \in Threads /\ d \in Dispatches /\ d.s \in Sched
  BY <1>1, ThreadTyped
<1>3. t.pc = "work" /\ t.item = {} /\ t.calls = thread.calls \ {d}
  BY <1>1, <1>2 DEF Threads
<1>4. thread' = Onward(t)
  BY DEF Submitted
<1> HIDE DEF t
<1> QED
  BY <1>2, <1>3, <1>4, OnwardKeeps

LEMMA EnqueuedCall ==
  ASSUME SchedInv, NEW n \in Unused, NEW d \in Dispatches, Enqueued(n, d)
  PROVE  /\ n \in Call /\ call[n].st = "free"
         /\ call' \in [Call -> Calls] /\ call'[n].st = "queued" /\ call'[n].s = d.s
         /\ call'[n].gen = d.gen /\ call'[n].occ = d.occ /\ call'[n].next = d.next
         /\ \A m \in Call \ {n} : call'[m] = call[m]
         /\ queue' \in Seq(Call) /\ IsInjective(queue') /\ Queued'
<1>1. /\ n \in Call /\ call[n].st = "free"
      /\ call \in [Call -> Calls] /\ queue \in Seq(Call) /\ IsInjective(queue)
      /\ Range(queue) \subseteq Call /\ \A m \in Range(queue) : call[m].st = "queued"
  BY DEF SchedInv, Shape, Queued, Range, Unused
<1>2. n \notin Range(queue)
  BY <1>1
<1> DEFINE e == [st |-> "queued", s |-> d.s, gen |-> d.gen, occ |-> d.occ, next |-> d.next]
<1>3. e \in Calls /\ e.st = "queued" /\ e.s = d.s /\ e.gen = d.gen /\ e.occ = d.occ /\ e.next = d.next
  BY DEF Calls, Dispatches
<1>4. call' = [call EXCEPT ![n] = e] /\ queue' = Append(queue, n)
  BY DEF Enqueued
<1> HIDE DEF e
<1>5. /\ call' \in [Call -> Calls] /\ call'[n].st = "queued" /\ call'[n].s = d.s
      /\ call'[n].gen = d.gen /\ call'[n].occ = d.occ /\ call'[n].next = d.next
      /\ \A m \in Call \ {n} : call'[m] = call[m]
  BY <1>1, <1>3, <1>4
<1>6. /\ queue' \in Seq(Call) /\ IsInjective(queue')
      /\ Range(queue') = Range(queue) \cup {n}
  BY <1>1, <1>2, <1>4, QueueGrows
<1>7. Queued'
  BY <1>1, <1>5, <1>6 DEF Queued
<1> QED
  BY <1>1, <1>5, <1>6, <1>7

(* What a submission leaves true, whether it is given up, succeeds or raises.*)
LEMMA SubmissionFrame ==
  ASSUME SchedInv, thread.pc = "work", NEW d \in thread.calls, Submitted(d),
         UNCHANGED <<clock, defVars, stopVars, io, caller, row>>,
         running' \subseteq Sched, future' \in [Sched -> Call \cup {NoCall}],
         used' \in [changes : Nat, faults : Nat, threads : 0..MaxThreadFailures, crashes : Nat],
         call' \in [Call -> Calls], queue' \in Seq(Call), IsInjective(queue'), Queued',
         \A m \in Call : call'[m] = call[m] \/ (call[m].st = "free" /\ call'[m].st = "queued")
  PROVE  Shape' /\ Locks' /\ Lists' /\ WriterIsCurrent' /\ Ended'
<1>1. Shape /\ Locks /\ WriterIsCurrent /\ Lists /\ Ended
  BY DEF SchedInv
<1>2. /\ thread' \in Threads /\ thread'.pc \in {"work", "scan"} /\ thread'.item = {}
      /\ thread'.calls = thread.calls \ {d}
      /\ thread'.pc = "scan" => thread'.resched = {} /\ thread'.calls = {}
  BY SubmittedThread
<1>3. Shape'
  BY <1>1, <1>2 DEF Shape, Threads
<1>4. io # "thread"
  BY <1>1 DEF Locks
<1>5. Locks'
  <2>1. \A m \in Call : call'[m].st = "writing" <=> call[m].st = "writing"
    OBVIOUS
  <2> QED
    BY <1>1, <1>2, <1>4, <2>1 DEF Locks
<1>6. Lists'
  BY <1>1, <1>2 DEF Lists
<1>7. WriterIsCurrent'
  <2>1. \A m \in Call : io = m => call'[m] = call[m]
    BY <1>1 DEF Locks
  <2> QED
    BY <1>1, <1>4, <2>1 DEF WriterIsCurrent, Current
<1>8. Ended'
  BY <1>1 DEF Ended
<1> QED
  BY <1>3, <1>5, <1>6, <1>7, <1>8

(* A dispatch that is given up takes its mark with it.                       *)
LEMMA GivenUp ==
  ASSUME SchedInv, thread.pc = "work", NEW d \in thread.calls, Submitted(d), running' = running \ {d.s}, future' = future
  PROVE  RunningExact'
<1>1. /\ RunningExact /\ Lists /\ Registered
      /\ thread'.calls = thread.calls \ {d} /\ d.s \in Sched
  BY SubmittedThread DEF SchedInv
<1> SUFFICES ASSUME NEW s \in Sched
             PROVE  s \in running' <=> (\E e \in thread'.calls : e.s = s) # (future'[s] # NoCall)
  BY DEF RunningExact
<1>2. CASE s = d.s
  <2>1. \A e \in thread'.calls : e.s # s
    BY <1>1, <1>2 DEF Lists
  <2>2. future[s] = NoCall
    BY <1>1, <1>2 DEF Registered
  <2> QED
    BY <1>2, <2>1, <2>2
<1>3. CASE s # d.s
  <2>1. (\E e \in thread'.calls : e.s = s) <=> (\E e \in thread.calls : e.s = s)
    BY <1>1, <1>3
  <2> QED
    BY <1>1, <1>3, <2>1 DEF RunningExact
<1> QED
  BY <1>2, <1>3

LEMMA SubmitKeeps ==
  ASSUME SchedInv, NEW d \in thread.calls, Submit(d)
  PROVE  SchedInv'
<1>1. Shape /\ Lists /\ Queued /\ Registered /\ RunningExact
  BY DEF SchedInv
<1>2. /\ thread.pc = "work" /\ Submitted(d)
      /\ UNCHANGED <<clock, defVars, stopVars, io, caller, row, used>>
  BY DEF Submit
<1>3. /\ thread'.calls = thread.calls \ {d} /\ d \in Dispatches /\ d.s \in Sched
  BY <1>2, SubmittedThread
<1>4. /\ running \subseteq Sched /\ future \in [Sched -> Call \cup {NoCall}]
      /\ used \in [changes : Nat, faults : Nat, threads : 0..MaxThreadFailures, crashes : Nat]
      /\ call \in [Call -> Calls] /\ queue \in Seq(Call) /\ IsInjective(queue)
      /\ NoCall \notin Call
  BY <1>1, Constant DEF Shape
<1>5. CASE stopping
  <2>1. /\ running' = running \ {d.s} /\ future' = future /\ call' = call /\ queue' = queue
    BY <1>5 DEF Submit
  <2>2. Shape' /\ Locks' /\ Lists' /\ WriterIsCurrent' /\ Ended'
    <3>1. Queued'
      BY <1>1, <2>1 DEF Queued
    <3> QED
      BY <1>2, <1>4, <2>1, <3>1, SubmissionFrame
  <2>3. Registered' /\ Queued'
    BY <1>1, <1>2, <1>3, <2>1 DEF Registered, Queued
  <2>4. RunningExact'
    BY <1>2, <2>1, GivenUp
  <2> QED
    BY <2>2, <2>3, <2>4 DEF SchedInv
<1>6. CASE ~stopping
  <2>1. PICK n \in Unused : Enqueued(n, d) /\ future' = [future EXCEPT ![d.s] = n] /\ running' = running
    BY <1>6 DEF Submit
  <2>2. /\ n \in Call /\ call[n].st = "free"
        /\ call' \in [Call -> Calls] /\ call'[n].st = "queued" /\ call'[n].s = d.s
        /\ \A m \in Call \ {n} : call'[m] = call[m]
        /\ queue' \in Seq(Call) /\ IsInjective(queue') /\ Queued'
    BY <1>3, <2>1, EnqueuedCall
  <2>3. /\ future' \in [Sched -> Call \cup {NoCall}] /\ future'[d.s] = n
        /\ \A s \in Sched \ {d.s} : future'[s] = future[s]
    BY <1>3, <1>4, <2>1, <2>2
  <2>4. Shape' /\ Locks' /\ Lists' /\ WriterIsCurrent' /\ Ended'
    BY <1>2, <1>4, <2>1, <2>2, <2>3, SubmissionFrame
  <2>5. Registered'
    <3>1. ASSUME NEW s \in Sched, future'[s] # NoCall PROVE call'[future'[s]].st # "free" /\ call'[future'[s]].s = s
      <4>1. CASE s = d.s
        BY <2>2, <2>3, <4>1
      <4>2. CASE s # d.s
        <5>1. future'[s] = future[s] /\ future[s] \in Call /\ call[future[s]].st # "free" /\ call[future[s]].s = s
          BY <1>1, <1>4, <2>3, <3>1, <4>2 DEF Registered
        <5> QED
          BY <2>2, <5>1
      <4> QED
        BY <4>1, <4>2
    <3>2. ASSUME used'.threads = 0, NEW m \in Call, call'[m].st # "free" PROVE future'[call'[m].s] = m
      <4>1. CASE m = n
        BY <2>2, <2>3, <4>1
      <4>2. CASE m # n
        <5>1. call'[m] = call[m] /\ future[call[m].s] = m /\ call[m].s \in Sched
          BY <1>1, <1>2, <1>4, <2>2, <3>2, <4>2 DEF Registered, Calls
        <5>2. future[d.s] = NoCall
          BY <1>1 DEF Registered
        <5>3. call[m].s # d.s
          BY <1>4, <5>1, <5>2
        <5> QED
          BY <2>3, <5>1, <5>3
      <4> QED
        BY <4>1, <4>2
    <3>3. ASSUME NEW e \in thread'.calls PROVE future'[e.s] = NoCall
      <4>1. e \in thread.calls /\ e # d
        BY <1>3, <3>3
      <4>2. e.s # d.s /\ future[e.s] = NoCall /\ e.s \in Sched
        BY <1>1, <4>1, ThreadTyped DEF Lists, Registered
      <4> QED
        BY <2>3, <4>2
    <3> QED
      BY <3>1, <3>2, <3>3 DEF Registered
  <2>6. RunningExact'
    <3> SUFFICES ASSUME NEW s \in Sched
                 PROVE  s \in running <=> (\E e \in thread'.calls : e.s = s) # (future'[s] # NoCall)
      BY <2>1 DEF RunningExact
    <3>1. CASE s = d.s
      <4>1. \A e \in thread'.calls : e.s # s
        BY <1>1, <1>3, <3>1 DEF Lists
      <4>2. future[s] = NoCall /\ future'[s] # NoCall
        BY <1>1, <1>4, <2>2, <2>3, <3>1 DEF Registered
      <4>3. s \in running
        BY <1>1, <3>1, <4>2 DEF RunningExact
      <4> QED
        BY <4>1, <4>2, <4>3
    <3>2. CASE s # d.s
      <4>1. (\E e \in thread'.calls : e.s = s) <=> (\E e \in thread.calls : e.s = s)
        BY <1>3, <3>2
      <4> QED
        BY <1>1, <2>3, <3>2, <4>1 DEF RunningExact
    <3> QED
      BY <3>1, <3>2
  <2> QED
    BY <2>2, <2>4, <2>5, <2>6 DEF SchedInv
<1> QED
  BY <1>5, <1>6

LEMMA SubmitRaisesKeeps ==
  ASSUME SchedInv, NEW d \in thread.calls, SubmitRaises(d)
  PROVE  SchedInv'
<1>1. Shape /\ Registered
  BY DEF SchedInv
<1>2. /\ thread.pc = "work" /\ Submitted(d) /\ running' = running \ {d.s} /\ future' = future
      /\ UNCHANGED <<clock, defVars, stopVars, io, caller, row>>
  BY DEF SubmitRaises
<1>3. /\ thread'.calls = thread.calls \ {d} /\ d \in Dispatches
  BY <1>2, SubmittedThread
<1>4. /\ running \subseteq Sched /\ future \in [Sched -> Call \cup {NoCall}] /\ call \in [Call -> Calls]
  BY <1>1 DEF Shape
<1>5. /\ used' \in [changes : Nat, faults : Nat, threads : 0..MaxThreadFailures, crashes : Nat]
      /\ used'.threads # 0
  <2>1. /\ used \in [changes : Nat, faults : Nat, threads : 0..MaxThreadFailures, crashes : Nat]
        /\ used.threads < MaxThreadFailures /\ used' = [used EXCEPT !.threads = used.threads + 1]
    BY <1>1 DEF Shape, SubmitRaises
  <2>2. used.threads + 1 \in 0..MaxThreadFailures /\ used.threads + 1 # 0
    BY <2>1, Constant
  <2> QED
    BY <2>1, <2>2
<1>6. PICK n \in Unused : Enqueued(n, d)
  BY DEF SubmitRaises
<1>7. /\ n \in Call /\ call[n].st = "free"
      /\ call' \in [Call -> Calls] /\ call'[n].st = "queued"
      /\ \A m \in Call \ {n} : call'[m] = call[m]
      /\ queue' \in Seq(Call) /\ IsInjective(queue') /\ Queued'
  BY <1>3, <1>6, EnqueuedCall
<1>8. Shape' /\ Locks' /\ Lists' /\ WriterIsCurrent' /\ Ended'
  BY <1>2, <1>4, <1>5, <1>7, SubmissionFrame
<1>9. Registered'
  <2>1. ASSUME NEW s \in Sched, future[s] # NoCall PROVE call'[future[s]].st # "free" /\ call'[future[s]].s = s
    <3>1. future[s] \in Call /\ call[future[s]].st # "free" /\ call[future[s]].s = s
      BY <1>1, <1>4, <2>1 DEF Registered
    <3> QED
      BY <1>7, <3>1
  <2> QED
    BY <1>1, <1>2, <1>3, <1>5, <2>1 DEF Registered
<1>10. RunningExact'
  BY <1>2, GivenUp
<1> QED
  BY <1>7, <1>8, <1>9, <1>10 DEF SchedInv

-----------------------------------------------------------------------------
(* The scan.                                                                *)

LEMMA ScanKeeps ==
  ASSUME SchedInv, Scan
  PROVE  SchedInv'
<1>1. Shape /\ Locks /\ Lists /\ Queued /\ Registered /\ RunningExact /\ WriterIsCurrent /\ Ended
  BY DEF SchedInv
<1>2. /\ thread.pc = "scan" /\ thread.calls = {} /\ thread.resched = {} /\ io # "thread" /\ ~drained
      /\ UNCHANGED <<clock, future, stopVars, io, poolVars, caller, row, late>>
  BY <1>1 DEF Scan, Lists, Locks, Ended
<1> DEFINE following == clock + Period
           fired(bad) == DueSchedules \ bad
           t(bad) == [pc |-> "work", item |-> {},
                      resched |-> {Pending(s, generation[s], following) : s \in fired(bad) \cap running},
                      calls |-> {Dispatch(s, generation[s], due[s], following) : s \in fired(bad) \ running}]
<1>3. PICK bad \in {{}} \cup {{s} : s \in DueSchedules} :
        /\ used' = [used EXCEPT !.faults = used.faults + Cardinality(bad)]
        /\ due' = [s \in Sched |-> IF s \in fired(bad) THEN following ELSE due[s]]
        /\ enabled' = [s \in Sched |-> enabled[s] /\ s \notin bad]
        /\ counter' = counter + Cardinality(bad)
        /\ generation' = [s \in Sched |-> IF s \in bad THEN counter + 1 ELSE generation[s]]
        /\ running' = running \cup fired(bad)
        /\ thread' = Onward(t(bad))
  BY DEF Scan
<1>4. bad \subseteq Sched /\ fired(bad) \subseteq Sched
  BY DEF DueSchedules, Loaded
<1>5. Cardinality(bad) \in {0, 1} /\ (bad # {} => Cardinality(bad) = 1)
  BY <1>3, FS_EmptySet, FS_Singleton
<1>6. following \in Times
  BY <1>1, Later
<1>7. \A s \in Sched : generation[s] \in Nat /\ due[s] \in Times
  <2>1. /\ counter \in Nat /\ generation \in [Sched -> 0..counter] /\ due \in [Sched -> Times]
    BY <1>1 DEF Shape
  <2> QED
    BY <2>1
<1>8. t(bad) \in Threads
  <2>1. {Pending(s, generation[s], following) : s \in fired(bad) \cap running} \subseteq Items
    BY <1>4, <1>6, <1>7 DEF Pending, Items
  <2>2. {Dispatch(s, generation[s], due[s], following) : s \in fired(bad) \ running} \subseteq Dispatches
    BY <1>4, <1>6, <1>7 DEF Dispatch, Dispatches
  <2> QED
    BY <2>1, <2>2 DEF Threads
<1>9. /\ thread' \in Threads /\ thread'.item = {} /\ thread'.pc \in {"work", "scan"}
      /\ thread'.calls = {Dispatch(s, generation[s], due[s], following) : s \in fired(bad) \ running}
      /\ thread'.pc = "scan" => thread'.resched = {} /\ thread'.calls = {}
  BY <1>3, <1>8, OnwardKeeps
<1>10. \A s \in Sched : (\E d \in thread'.calls : d.s = s) <=> s \in fired(bad) /\ s \notin running
  <2>1. ASSUME NEW d \in thread'.calls PROVE d.s \in fired(bad) /\ d.s \notin running
    <3>1. PICK s \in fired(bad) \ running : d = Dispatch(s, generation[s], due[s], following)
      BY <1>9
    <3> QED
      BY <3>1 DEF Dispatch
  <2>2. ASSUME NEW s \in fired(bad), s \notin running PROVE \E d \in thread'.calls : d.s = s
    <3>1. Dispatch(s, generation[s], due[s], following) \in thread'.calls
      BY <1>9, <2>2
    <3>2. Dispatch(s, generation[s], due[s], following).s = s
      BY DEF Dispatch
    <3> QED
      BY <3>1, <3>2
  <2> HIDE DEF fired
  <2> QED
    BY <2>1, <2>2
<1>11. counter' \in Nat /\ generation' \in [Sched -> 0..counter']
  <2>1. counter \in Nat /\ generation \in [Sched -> 0..counter]
    BY <1>1 DEF Shape
  <2>2. counter' \in Nat /\ \A k \in 0..counter : k \in 0..counter'
    BY <1>3, <1>5, <2>1
  <2>3. ASSUME NEW s \in Sched, s \in bad PROVE counter + 1 \in 0..counter'
    BY <1>3, <1>5, <2>1, <2>3
  <2> QED
    BY <1>3, <2>1, <2>2, <2>3
<1>12. used' \in [changes : Nat, faults : Nat, threads : 0..MaxThreadFailures, crashes : Nat]
       /\ used'.threads = used.threads
  <2>1. used \in [changes : Nat, faults : Nat, threads : 0..MaxThreadFailures, crashes : Nat]
    BY <1>1 DEF Shape
  <2>2. used.faults + Cardinality(bad) \in Nat
    BY <1>5, <2>1
  <2> QED
    BY <1>3, <2>1, <2>2
<1>13. /\ due' \in [Sched -> Times] /\ enabled' \in [Sched -> BOOLEAN] /\ running' \subseteq Sched
  <2>1. enabled \in [Sched -> BOOLEAN] /\ running \subseteq Sched
    BY <1>1 DEF Shape
  <2>2. due' \in [Sched -> Times]
    BY <1>3, <1>6, <1>7
  <2>3. enabled' \in [Sched -> BOOLEAN]
    BY <1>3, <2>1
  <2>4. running' \subseteq Sched
    BY <1>3, <1>4, <2>1
  <2> QED
    BY <2>2, <2>3, <2>4
<1>14. Shape'
  BY <1>1, <1>2, <1>9, <1>11, <1>12, <1>13 DEF Shape, Threads
<1>15. Locks'
  BY <1>1, <1>2, <1>9 DEF Locks
<1>16. Lists' /\ Queued'
  <2>1. \A d, e \in thread'.calls : d.s = e.s => d = e
    BY <1>9 DEF Dispatch
  <2> QED
    BY <1>1, <1>2, <1>9, <2>1 DEF Lists, Queued
<1>17. WriterIsCurrent'
  <2> SUFFICES ASSUME NEW n \in Call, io = n
               PROVE  Current(call[n].s, call[n].gen)' \/ ~enabled'[call[n].s]
    BY <1>2 DEF WriterIsCurrent
  <2>1. Current(call[n].s, call[n].gen) \/ ~enabled[call[n].s]
    BY <1>1 DEF WriterIsCurrent
  <2>2. call[n].s \in Sched /\ call' = call
    BY <1>1, <1>2 DEF Shape, Calls
  <2>3. CASE call[n].s \in bad
    BY <1>3, <2>2, <2>3
  <2>4. CASE call[n].s \notin bad
    BY <1>3, <2>1, <2>2, <2>4 DEF Current
  <2> QED
    BY <2>3, <2>4
<1>18. \A s \in Sched : s \in running <=> future[s] # NoCall
  BY <1>1, <1>2 DEF RunningExact
<1>19. Registered'
  <2>1. ASSUME NEW d \in thread'.calls PROVE future[d.s] = NoCall
    <3>1. PICK s \in fired(bad) \ running : d = Dispatch(s, generation[s], due[s], following)
      BY <1>9
    <3> QED
      BY <1>4, <1>18, <3>1 DEF Dispatch
  <2> QED
    BY <1>1, <1>2, <1>12, <2>1 DEF Registered
<1>20. RunningExact'
  BY <1>2, <1>3, <1>10, <1>18 DEF RunningExact
<1>21. Ended'
  BY <1>2 DEF Ended
<1> QED
  BY <1>14, <1>15, <1>16, <1>17, <1>19, <1>20, <1>21 DEF SchedInv

-----------------------------------------------------------------------------
(* Shutdown, the clock and the restart.                                     *)

LEMMA BeginShutdownKeeps ==
  ASSUME SchedInv, BeginShutdown
  PROVE  SchedInv'
<1>1. Shape /\ Locks /\ WriterIsCurrent /\ Lists /\ Queued
  BY DEF SchedInv
<1>2. toCancel' \subseteq Call
  BY <1>1 DEF BeginShutdown, Shape, Futures
<1>3. Shape'
  BY <1>1, <1>2 DEF BeginShutdown, Shape
<1>4. Locks' /\ WriterIsCurrent' /\ Lists' /\ Queued'
  BY <1>1 DEF BeginShutdown, Locks, WriterIsCurrent, Current, Lists, Queued
<1> QED
  BY <1>3, <1>4, Unmarked DEF BeginShutdown

LEMMA TickKeeps ==
  ASSUME SchedInv, Tick
  PROVE  SchedInv'
<1>1. Shape /\ Locks /\ WriterIsCurrent /\ Lists /\ Queued
  BY DEF SchedInv
<1>2. clock' \in 0..MaxClock
  BY <1>1, Constant DEF Tick, Shape
<1>3. Shape'
  BY <1>1, <1>2 DEF Tick, Shape
<1>4. Locks' /\ WriterIsCurrent' /\ Lists' /\ Queued'
  BY <1>1 DEF Tick, Locks, WriterIsCurrent, Current, Lists, Queued
<1> QED
  BY <1>3, <1>4, Unmarked DEF Tick

LEMMA DrainedKeeps ==
  ASSUME SchedInv, Drained
  PROVE  SchedInv'
<1>1. Shape /\ Locks /\ WriterIsCurrent /\ Lists /\ Queued /\ Registered /\ RunningExact
  BY DEF SchedInv
<1>2. Shape'
  BY <1>1 DEF Drained, Shape
<1>3. Locks' /\ WriterIsCurrent' /\ Lists' /\ Queued' /\ Registered' /\ RunningExact'
  BY <1>1 DEF Drained, Locks, WriterIsCurrent, Current, Lists, Queued, Registered, RunningExact
<1>4. Ended'
  <2>1. \A s \in Sched : future[s] = NoCall
    BY DEF Drained, Futures
  <2> QED
    BY <2>1 DEF Drained, Ended
<1> QED
  BY <1>2, <1>3, <1>4 DEF SchedInv

(* Nothing is going on: after the start of a process, and initially.         *)
Quiescent ==
    /\ running = {} /\ future = [s \in Sched |-> NoCall]
    /\ stopping = FALSE /\ closed = FALSE /\ drained = FALSE /\ toCancel = {}
    /\ io = "free" /\ thread = Scanning /\ queue = <<>>
    /\ call = [n \in Call |-> FreeCall]
    /\ caller = [c \in Caller |-> IdleCaller]

LEMMA QuietKeeps ==
  ASSUME Quiescent,
         clock \in 0..MaxClock, counter \in Nat, generation \in [Sched -> 0..counter],
         due \in [Sched -> Times], enabled \in [Sched -> BOOLEAN],
         row \in [Sched -> [there : BOOLEAN, next : Times, on : BOOLEAN]],
         used \in [changes : Nat, faults : Nat, threads : 0..MaxThreadFailures, crashes : Nat]
  PROVE  SchedInv
<1>1. /\ FreeCall \in Calls /\ FreeCall.st = "free"
      /\ IdleCaller \in Callers /\ IdleCaller.pc = "idle"
  BY Fresh
<1>2. /\ Scanning \in [pc : {"scan", "work", "write", "dead"}, resched : SUBSET Items,
                       calls : SUBSET Dispatches, item : SUBSET Items]
      /\ Scanning.pc = "scan" /\ Scanning.resched = {} /\ Scanning.calls = {} /\ Scanning.item = {}
  BY DEF Scanning
<1>3. <<>> \in Seq(Call) /\ IsInjective(<<>>) /\ Range(<<>>) = {}
  BY EmptySeq DEF IsInjective, Range
<1>4. call \in [Call -> Calls] /\ caller \in [Caller -> Callers] /\ future \in [Sched -> Call \cup {NoCall}]
  BY <1>1 DEF Quiescent
<1>5. Shape
  BY <1>2, <1>3, <1>4 DEF Quiescent, Shape
<1>6. Locks
  BY <1>1, <1>2, Constant DEF Quiescent, Locks
<1>7. Lists /\ Queued /\ WriterIsCurrent /\ Ended
  BY <1>2, <1>3, Constant DEF Quiescent, Lists, Queued, WriterIsCurrent, Ended
<1>8. Registered /\ RunningExact
  BY <1>1, <1>2 DEF Quiescent, Registered, RunningExact
<1> QED
  BY <1>5, <1>6, <1>7, <1>8 DEF SchedInv

LEMMA InitKeeps == ASSUME Init PROVE SchedInv
<1>1. 0 \in 0..MaxClock /\ 0 \in Times /\ 0 \in 0..MaxThreadFailures
  BY Constant
<1>2. [changes |-> 0, faults |-> 0, threads |-> 0, crashes |-> 0]
        \in [changes : Nat, faults : Nat, threads : 0..MaxThreadFailures, crashes : Nat]
  BY <1>1
<1>3. [s \in Sched |-> [there |-> FALSE, next |-> 0, on |-> FALSE]]
        \in [Sched -> [there : BOOLEAN, next : Times, on : BOOLEAN]]
  BY <1>1
<1>4. Quiescent
  BY DEF Init, Quiescent
<1> QED
  BY <1>1, <1>2, <1>3, <1>4, QuietKeeps DEF Init

LEMMA RestartKeeps ==
  ASSUME SchedInv, Restart
  PROVE  SchedInv'
<1>1. Shape
  BY DEF SchedInv
<1> DEFINE rows == {s \in Sched : row[s].there}
<1>2. Cardinality(rows) \in Nat
  <2>1. IsFiniteSet(rows)
    BY Constant, FS_Subset
  <2> QED
    BY <2>1, FS_CardinalityType
<1>3. /\ generation' \in [Sched -> 0..Cardinality(rows)] /\ counter' = Cardinality(rows)
      /\ due' = [s \in Sched |-> row[s].next]
      /\ enabled' = [s \in Sched |-> row[s].there /\ row[s].on]
  BY DEF Restart
<1>4. counter' \in Nat /\ generation' \in [Sched -> 0..counter']
  BY <1>2, <1>3
<1>5. due' \in [Sched -> Times] /\ enabled' \in [Sched -> BOOLEAN]
  <2>1. row \in [Sched -> [there : BOOLEAN, next : Times, on : BOOLEAN]]
    BY <1>1 DEF Shape
  <2> QED
    BY <1>3, <2>1
<1>6. used' \in [changes : Nat, faults : Nat, threads : 0..MaxThreadFailures, crashes : Nat]
  <2>1. used \in [changes : Nat, faults : Nat, threads : 0..MaxThreadFailures, crashes : Nat]
    BY <1>1 DEF Shape
  <2> QED
    BY <2>1 DEF Restart
<1>7. /\ clock' \in 0..MaxClock
      /\ row' \in [Sched -> [there : BOOLEAN, next : Times, on : BOOLEAN]]
  BY <1>1 DEF Restart, Shape
<1>8. Quiescent'
  BY DEF Restart, Quiescent
<1>9. Shape'
  <2>1. /\ FreeCall \in Calls /\ IdleCaller \in Callers
    BY Fresh
  <2>2. /\ Scanning \in [pc : {"scan", "work", "write", "dead"}, resched : SUBSET Items,
                         calls : SUBSET Dispatches, item : SUBSET Items]
    BY DEF Scanning
  <2>3. <<>> \in Seq(Call) /\ IsInjective(<<>>)
    BY EmptySeq DEF IsInjective
  <2>4. call' \in [Call -> Calls] /\ caller' \in [Caller -> Callers] /\ future' \in [Sched -> Call \cup {NoCall}]
    BY <1>8, <2>1 DEF Quiescent
  <2> QED
    BY <1>4, <1>5, <1>6, <1>7, <1>8, <2>2, <2>3, <2>4 DEF Quiescent, Shape
<1>10. FreeCall.st = "free" /\ IdleCaller.pc = "idle"
  BY Fresh
<1>11. Scanning.pc = "scan" /\ Scanning.resched = {} /\ Scanning.calls = {} /\ Scanning.item = {}
  BY DEF Scanning
<1>12. Range(<<>>) = {}
  BY EmptySeq DEF Range
<1>13. Locks'
  BY <1>8, <1>10, <1>11, Constant DEF Quiescent, Locks
<1>14. Lists' /\ Queued' /\ WriterIsCurrent' /\ Ended'
  BY <1>8, <1>11, <1>12, Constant DEF Quiescent, Lists, Queued, WriterIsCurrent, Ended
<1>15. Registered' /\ RunningExact'
  BY <1>8, <1>10, <1>11 DEF Quiescent, Registered, RunningExact
<1> QED
  BY <1>9, <1>13, <1>14, <1>15 DEF SchedInv

LEMMA StutterKeeps ==
  ASSUME SchedInv, UNCHANGED vars
  PROVE  SchedInv'
<1>1. Shape /\ Locks /\ WriterIsCurrent /\ Lists /\ Queued
  BY DEF SchedInv
<1>2. Shape'
  BY <1>1 DEF vars, Shape
<1>3. Locks' /\ WriterIsCurrent' /\ Lists' /\ Queued'
  BY <1>1 DEF vars, Locks, WriterIsCurrent, Current, Lists, Queued
<1> QED
  BY <1>2, <1>3, Unmarked DEF vars

-----------------------------------------------------------------------------
(* The theorems.                                                            *)

LEMMA SchedStep == SchedInv /\ [Next]_vars => SchedInv'
<1> SUFFICES ASSUME SchedInv, [Next]_vars PROVE SchedInv'
  OBVIOUS
<1>1. CASE \E c \in Caller : Command(c) \/ CallerStep(c)
  <2>1. PICK c \in Caller : Command(c) \/ CallerStep(c)
    BY <1>1
  <2>2. CASE Command(c)
    BY <2>2, ReplaceKeeps, EnableKeeps, DisableKeeps, RemoveScheduleKeeps, SaveScheduleKeeps, ReaffirmKeeps
       DEF Command
  <2>3. CASE CallerStep(c)
    BY <2>3, AddKeeps, CallerWritesKeeps, CallerCancelsKeeps, CallerStoresKeeps DEF CallerStep
  <2> QED
    BY <2>1, <2>2, <2>3
<1>2. CASE Scan \/ ThreadEnds \/ Rescheduling \/ Submitting
  BY <1>2, ScanKeeps, ThreadEndsKeeps, CheckRescheduleKeeps, WriteRescheduleKeeps, SubmitKeeps, SubmitRaisesKeeps
     DEF Rescheduling, Submitting
<1>3. CASE \E n \in Call : CallStep(n)
  BY <1>3, TakeKeeps, CheckKeeps, CallbackEndsKeeps, CaptureNextKeeps, WriteNextKeeps, RetireKeeps DEF CallStep
<1>4. CASE BeginShutdown \/ ShutdownStep \/ Tick \/ Restart
  BY <1>4, BeginShutdownKeeps, CancelOneKeeps, ShutdownExecutorKeeps, DrainedKeeps, TickKeeps, RestartKeeps
     DEF ShutdownStep
<1>5. CASE UNCHANGED vars
  BY <1>5, StutterKeeps
<1> QED
  BY <1>1, <1>2, <1>3, <1>4, <1>5 DEF Next

(* The inductive invariant holds in every state of the scheduler: through    *)
(* commands, scans, callbacks, shutdowns and restarts in any order.          *)
THEOREM SchedulerInvariant == Spec => []SchedInv
<1>1. Init => SchedInv
  BY InitKeeps
<1>2. SchedInv /\ [Next]_vars => SchedInv'
  BY SchedStep
<1> QED
  BY <1>1, <1>2, PTL DEF Spec

(* _running, _callback_futures, the thread's lists, the pool's items and the *)
(* rows keep their types; no invocation is queued twice.                     *)
THEOREM SchedulerTypes == Spec => []TypeOK
<1>1. SchedInv => TypeOK
  <2> SUFFICES ASSUME SchedInv PROVE TypeOK
    OBVIOUS
  <2>1. Shape
    BY DEF SchedInv
  <2>2. /\ thread.pc \in {"scan", "work", "write", "dead"}
        /\ \A r \in thread.resched \cup thread.item : r \in [s : Sched, gen : Nat, next : Times]
        /\ thread.calls \subseteq [s : Sched, gen : Nat, occ : Times, next : Times]
    BY <2>1, ThreadTyped DEF Threads, Items, Dispatches
  <2>3. \A i, j \in 1..Len(queue) : queue[i] \in Call /\ (queue[i] = queue[j] => i = j)
    <3>1. queue \in Seq(Call) /\ IsInjective(queue) /\ DOMAIN queue = 1..Len(queue)
      BY <2>1, LenProperties DEF Shape
    <3>2. \A i \in 1..Len(queue) : queue[i] \in Call
      BY <3>1, ElementOfSeq
    <3> QED
      BY <3>1, <3>2 DEF IsInjective
  <2> QED
    BY <2>1, <2>2, <2>3 DEF Shape, TypeOK, Calls, Callers
<1> QED
  BY <1>1, SchedulerInvariant, PTL

(* A schedule is marked as running exactly while one dispatch or one         *)
(* registered future of it exists: no mark leaks, whatever is replaced,      *)
(* cancelled, retired or given up, and whether a thread could be started.    *)
THEOREM SchedulerRunningExact == Spec => []RunningExact
<1>1. SchedInv => RunningExact
  BY DEF SchedInv
<1> QED
  BY <1>1, SchedulerInvariant, PTL

(* Whoever holds the definition lock to write a due time writes it for the   *)
(* definition that is loaded now, or for one the scan has just disabled.     *)
THEOREM SchedulerWriterIsCurrent == Spec => []WriterIsCurrent
<1>1. SchedInv => WriterIsCurrent
  BY DEF SchedInv
<1> QED
  BY <1>1, SchedulerInvariant, PTL

(* Until a worker thread fails to start, a schedule is never called twice at *)
(* once: the invocation of a schedule that is called is the registered one.  *)
THEOREM SchedulerNoOverlap == Spec => [](used.threads = 0 => NoOverlap)
<1>1. SchedInv /\ used.threads = 0 => NoOverlap
  <2> SUFFICES ASSUME SchedInv, used.threads = 0, NEW m \in Call, NEW n \in Call, m # n, call[m].s = call[n].s,
                      call[m].st = "calling", call[n].st = "calling"
               PROVE  FALSE
    BY DEF NoOverlap
  <2>1. future[call[m].s] = m /\ future[call[n].s] = n
    BY DEF SchedInv, Registered
  <2> QED
    BY <2>1
<1> QED
  BY <1>1, SchedulerInvariant, PTL

(* Until a worker thread fails to start, a drain that returned True left no  *)
(* invocation behind, and no due time that is about to be written.           *)
THEOREM SchedulerDrainedIsQuiet == Spec => [](used.threads = 0 => DrainedIsQuiet)
<1>1. SchedInv /\ used.threads = 0 => DrainedIsQuiet
  <2> SUFFICES ASSUME SchedInv, used.threads = 0, drained
               PROVE  /\ \A n \in Call : call[n].st = "free"
                      /\ io \in {"free"} \cup Caller
    BY DEF DrainedIsQuiet
  <2>1. thread.pc = "dead" /\ \A s \in Sched : future[s] = NoCall
    BY DEF SchedInv, Ended
  <2>2. \A n \in Call : call[n].st = "free"
    <3> SUFFICES ASSUME NEW n \in Call, call[n].st # "free" PROVE FALSE
      OBVIOUS
    <3>1. future[call[n].s] = n
      BY DEF SchedInv, Registered
    <3>2. call[n].s \in Sched
      BY DEF SchedInv, Shape, Calls
    <3> QED
      BY <2>1, <3>1, <3>2, Constant
  <2>3. io # "thread" /\ \A n \in Call : io # n
    BY <2>1, <2>2 DEF SchedInv, Locks
  <2>4. io \in {"free", "thread"} \cup Caller \cup Call
    BY DEF SchedInv, Shape
  <2> QED
    BY <2>2, <2>3, <2>4
<1> QED
  BY <1>1, SchedulerInvariant, PTL

-----------------------------------------------------------------------------
(* What the rows say of the due times.                                      *)

(* The numbers of generations: everything under way has a number that was   *)
(* given, and an invocation that a command is about to cancel belongs to a   *)
(* definition that was replaced or removed.                                 *)
Numbers ==
    /\ \A r \in thread.resched : r.gen \in 1..counter
    /\ thread.item \subseteq thread.resched
    /\ \A d \in thread.calls : d.gen \in 1..counter
    /\ \A n \in Call : call[n].st # "free" => call[n].gen \in 1..counter
    /\ \A s \in Sched : enabled[s] => generation[s] # 0
    /\ toCancel # {} => stopping
    /\ \A c \in Caller : LET n == caller[c].victim IN
          n # NoCall /\ call[n].st # "free" => call[n].gen # generation[call[n].s]

(* A due time only grows under a definition, so nothing that was written or  *)
(* is about to be is later than it; a time to be persisted by the thread is  *)
(* the due time of its definition.                                          *)
Dates ==
    /\ \A s \in Sched : due[s] <= clock + Period /\ row[s].next <= clock + Period
    /\ \A s \in Sched : generation[s] # 0 /\ row[s].there => row[s].next <= due[s]
    /\ \A c \in Caller : caller[c].pc = "write" =>
          generation[caller[c].s] # 0 /\ caller[c].next <= due[caller[c].s]
    /\ \A n \in Call : call[n].st = "writing" =>
          generation[call[n].s] # 0 /\ call[n].next <= due[call[n].s]
    /\ \A r \in thread.resched : r.gen = generation[r.s] => r.next = due[r.s]

(* Between the two halves of an addition nobody else writes its row.         *)
Adding ==
    /\ \A c \in Caller : caller[c].pc = "add" =>
          /\ generation[caller[c].s] = 0
          /\ caller[c].next <= clock + Period
          /\ row[caller[c].s].there => row[caller[c].s].next = caller[c].next
    /\ \A c, d \in Caller :
          caller[c].pc = "add" /\ caller[d].pc = "add" /\ caller[c].s = caller[d].s => c = d

Owing == {"queued", "started", "calling", "finishing"}

(* Somebody will still write the due time of the loaded definition: a        *)
(* dispatch or an invocation on its completion, or the thread.              *)
Owed(s) ==
    \/ \E d \in thread.calls : d.s = s /\ d.gen = generation[s]
    \/ \E n \in Call : call[n].s = s /\ call[n].gen = generation[s] /\ call[n].st \in Owing
    \/ \E r \in thread.resched : r.s = s /\ r.gen = generation[s]

(* Somebody holds the definition lock to write the row.                     *)
Written(s) ==
    \/ \E c \in Caller : caller[c].pc = "write" /\ caller[c].s = s
    \/ \E n \in Call : call[n].st = "writing" /\ call[n].s = s

(* A row that does not say when its schedule is due will be written, and     *)
(* who writes an older time now is not the last.                            *)
Settling ==
    ~stopping =>
      /\ \A s \in Sched : row[s].there /\ enabled[s] /\ s \notin late =>
            row[s].next = due[s] \/ Owed(s) \/ Written(s)
      /\ \A c \in Caller : caller[c].pc = "write" /\ enabled[caller[c].s] =>
            caller[c].next = due[caller[c].s] \/ Owed(caller[c].s)
      /\ \A n \in Call : call[n].st = "writing" /\ enabled[call[n].s] =>
            call[n].next = due[call[n].s] \/ Owed(call[n].s)

(* An occurrence of the loaded definition that waits is covered by its row,  *)
(* and by whatever is about to be written to it, until a later one is        *)
(* skipped.                                                                 *)
Behind(s, occ, next) ==
    /\ next <= due[s]
    /\ row[s].there /\ due[s] = next => row[s].next <= occ
    /\ \A c \in Caller : caller[c].pc = "write" /\ caller[c].s = s => caller[c].next <= occ
    /\ \A r \in thread.resched : r.s = s /\ r.gen = generation[s] => next < due[s]

Covered ==
    used.threads = 0 =>
      /\ \A d \in thread.calls : d.gen = generation[d.s] => Behind(d.s, d.occ, d.next)
      /\ \A n \in Call : call[n].st \in {"queued", "started"} /\ call[n].gen = generation[call[n].s]
            => Behind(call[n].s, call[n].occ, call[n].next)

RowInv == Numbers /\ Dates /\ Adding /\ Settling /\ Covered

(* The types the arithmetic needs.                                          *)
Typed ==
    /\ clock \in Nat /\ counter \in Nat /\ Period \in Nat \ {0} /\ used.threads \in Nat
    /\ \A s \in Sched :
          /\ generation[s] \in Nat /\ generation[s] <= counter /\ due[s] \in Nat
          /\ enabled[s] \in BOOLEAN /\ row[s].there \in BOOLEAN /\ row[s].next \in Nat
    /\ \A n \in Call :
          call[n].s \in Sched /\ call[n].gen \in Nat /\ call[n].occ \in Nat /\ call[n].next \in Nat
    /\ \A c \in Caller :
          caller[c].s \in Sched /\ caller[c].next \in Nat /\ caller[c].victim \in Call \cup {NoCall}
    /\ \A r \in thread.resched : r.s \in Sched /\ r.gen \in Nat /\ r.next \in Nat
    /\ \A d \in thread.calls : d.s \in Sched /\ d.gen \in Nat /\ d.occ \in Nat /\ d.next \in Nat

LEMMA TypedNow == SchedInv => Typed
<1> SUFFICES ASSUME SchedInv PROVE Typed
  OBVIOUS
<1>1. Shape /\ \A t \in Times : t \in Nat
  BY Constant DEF SchedInv
<1>2. clock \in Nat /\ counter \in Nat /\ Period \in Nat \ {0} /\ used.threads \in Nat
  BY <1>1, Constant DEF Shape
<1>3. ASSUME NEW s \in Sched
      PROVE  /\ generation[s] \in Nat /\ generation[s] <= counter /\ due[s] \in Nat
             /\ enabled[s] \in BOOLEAN /\ row[s].there \in BOOLEAN /\ row[s].next \in Nat
  <2>1. generation[s] \in 0..counter /\ due[s] \in Times /\ enabled[s] \in BOOLEAN /\ row[s] \in Rows
    BY <1>1 DEF Shape, Rows
  <2> QED
    BY <1>1, <1>2, <2>1 DEF Rows
<1>4. ASSUME NEW n \in Call
      PROVE  call[n].s \in Sched /\ call[n].gen \in Nat /\ call[n].occ \in Nat /\ call[n].next \in Nat
  <2>1. call[n] \in Calls
    BY <1>1 DEF Shape
  <2> QED
    BY <1>1, <2>1 DEF Calls
<1>5. ASSUME NEW c \in Caller
      PROVE  caller[c].s \in Sched /\ caller[c].next \in Nat /\ caller[c].victim \in Call \cup {NoCall}
  BY <1>1, CallerTyped
<1>6. /\ \A r \in thread.resched : r.s \in Sched /\ r.gen \in Nat /\ r.next \in Nat
      /\ \A d \in thread.calls : d.s \in Sched /\ d.gen \in Nat /\ d.occ \in Nat /\ d.next \in Nat
  <2>1. (\A r \in thread.resched : r \in Items) /\ (\A d \in thread.calls : d \in Dispatches)
    BY <1>1, ThreadTyped
  <2>2. \A r \in Items : r.s \in Sched /\ r.gen \in Nat /\ r.next \in Nat
    BY <1>1 DEF Items
  <2>3. \A d \in Dispatches : d.s \in Sched /\ d.gen \in Nat /\ d.occ \in Nat /\ d.next \in Nat
    BY <1>1 DEF Dispatches
  <2> QED
    BY <2>1, <2>2, <2>3
<1> QED
  BY <1>2, <1>3, <1>4, <1>5, <1>6 DEF Typed

LEMMA TypedNext == SchedInv /\ [Next]_vars => SchedInv' /\ Typed /\ Typed'
<1>1. SchedInv /\ [Next]_vars => SchedInv'
  BY SchedStep
<1>2. SchedInv => Typed
  BY TypedNow
<1> QED
  BY <1>1, <1>2, PTL

(* What a step may do that settles nothing: rows go, invocations end.        *)
Same(n) ==
    /\ call'[n].s = call[n].s /\ call'[n].gen = call[n].gen
    /\ call'[n].occ = call[n].occ /\ call'[n].next = call[n].next

Carries(n, d) ==
    /\ call[n].st = "queued" /\ call[n].s = d.s /\ call[n].gen = d.gen
    /\ call[n].occ = d.occ /\ call[n].next = d.next

DefsStay ==
    /\ generation' = generation /\ due' = due /\ enabled' = enabled /\ counter' = counter
    /\ clock <= clock'
    /\ stopping => stopping'
    /\ toCancel' # {} => stopping'
    /\ used'.threads = 0 => used.threads = 0

RowsStay ==
    /\ \A s \in Sched : row'[s].next = row[s].next \/ row'[s].next = 0
    /\ \A s \in Sched : row'[s].there => row[s].there /\ row'[s].next = row[s].next
    /\ late \subseteq late'

ThreadStays ==
    /\ thread'.resched \subseteq thread.resched /\ thread'.item \subseteq thread'.resched
    /\ \A r \in thread.resched : r \in thread'.resched \/ r.gen # generation[r.s]
    /\ thread'.calls \subseteq thread.calls
    /\ \A d \in thread.calls : d \in thread'.calls \/ stopping' \/ \E n \in Call : Carries(n, d)'

CallsStay ==
    /\ \A n \in Call : call'[n].st # "free" =>
          \/ /\ call[n].st # "free" /\ Same(n)
             /\ call'[n].st \in {"queued", "started"} => call[n].st \in {"queued", "started"}
             /\ call'[n].st = "writing" => call[n].st = "writing"
          \/ /\ \E d \in thread.calls : Carries(n, d)'
             /\ \A c \in Caller : caller'[c].victim # n
    /\ \A n \in Call : call[n].st \in Owing /\ call[n].gen = generation[call[n].s]
            /\ enabled[call[n].s] /\ ~stopping' => call'[n].st \in Owing /\ Same(n)
    /\ \A n \in Call : call[n].st = "writing" => call'[n].st = "writing" /\ Same(n)

CallersStay ==
    /\ \A c \in Caller : caller'[c].pc = "write" <=> caller[c].pc = "write"
    /\ \A c \in Caller : caller[c].pc = "write" => caller'[c].s = caller[c].s /\ caller'[c].next = caller[c].next
    /\ \A c \in Caller : caller'[c].pc = "add" =>
          caller[c].pc = "add" /\ caller'[c].s = caller[c].s /\ caller'[c].next = caller[c].next
    /\ \A c \in Caller : caller'[c].victim = NoCall \/ caller'[c].victim = caller[c].victim

LEMMA AsideSettles ==
  ASSUME RowInv, Typed, Typed', DefsStay, RowsStay, ThreadStays, CallsStay, CallersStay
  PROVE  RowInv'
<1>1. Numbers'
  <2>1. \A r \in thread'.resched : r.gen \in 1..counter'
    BY DEF RowInv, Numbers, DefsStay, ThreadStays
  <2>2. \A d \in thread'.calls : d.gen \in 1..counter'
    BY DEF RowInv, Numbers, DefsStay, ThreadStays
  <2>3. ASSUME NEW n \in Call, call'[n].st # "free" PROVE call'[n].gen \in 1..counter'
    <3>1. CASE call[n].st # "free" /\ Same(n)
      BY <3>1 DEF RowInv, Numbers, DefsStay, Same
    <3>2. CASE \E d \in thread.calls : Carries(n, d)'
      BY <3>2 DEF RowInv, Numbers, DefsStay, Carries
    <3> QED
      BY <2>3, <3>1, <3>2 DEF CallsStay
  <2>4. (\A s \in Sched : enabled'[s] => generation'[s] # 0) /\ (toCancel' # {} => stopping')
    BY DEF RowInv, Numbers, DefsStay
  <2>5. ASSUME NEW c \in Caller, caller'[c].victim # NoCall, call'[caller'[c].victim].st # "free"
        PROVE  call'[caller'[c].victim].gen # generation'[call'[caller'[c].victim].s]
    <3>1. PICK n \in Call : n = caller'[c].victim /\ n = caller[c].victim
      BY <2>5 DEF CallersStay, Typed
    <3>2. call[n].st # "free" /\ Same(n)
      BY <2>5, <3>1 DEF CallsStay
    <3>3. call[n].gen # generation[call[n].s]
      BY <2>5, <3>1, <3>2 DEF RowInv, Numbers
    <3> QED
      BY <3>1, <3>2, <3>3 DEF Same, DefsStay
  <2> QED
    BY <2>1, <2>2, <2>3, <2>4, <2>5 DEF Numbers, ThreadStays
<1>2. Dates'
  <2>1. ASSUME NEW s \in Sched PROVE due'[s] <= clock' + Period /\ row'[s].next <= clock' + Period
    BY DEF RowInv, Dates, DefsStay, RowsStay, Typed
  <2>2. \A s \in Sched : generation'[s] # 0 /\ row'[s].there => row'[s].next <= due'[s]
    BY DEF RowInv, Dates, DefsStay, RowsStay
  <2>3. ASSUME NEW c \in Caller, caller'[c].pc = "write"
        PROVE  generation'[caller'[c].s] # 0 /\ caller'[c].next <= due'[caller'[c].s]
    BY <2>3 DEF RowInv, Dates, DefsStay, CallersStay
  <2>4. ASSUME NEW n \in Call, call'[n].st = "writing"
        PROVE  generation'[call'[n].s] # 0 /\ call'[n].next <= due'[call'[n].s]
    <3>1. call[n].st = "writing" /\ Same(n)
      BY <2>4 DEF CallsStay, Carries
    <3> QED
      BY <3>1 DEF RowInv, Dates, DefsStay, Same
  <2>5. \A r \in thread'.resched : r.gen = generation'[r.s] => r.next = due'[r.s]
    BY DEF RowInv, Dates, DefsStay, ThreadStays
  <2> QED
    BY <2>1, <2>2, <2>3, <2>4, <2>5 DEF Dates
<1>3. Adding'
  <2>1. ASSUME NEW c \in Caller, caller'[c].pc = "add"
        PROVE  /\ caller[c].pc = "add" /\ caller'[c].s = caller[c].s
               /\ generation'[caller'[c].s] = 0
               /\ caller'[c].next <= clock' + Period
               /\ row'[caller'[c].s].there => row'[caller'[c].s].next = caller'[c].next
    <3>1. caller[c].pc = "add" /\ caller'[c].s = caller[c].s /\ caller'[c].next = caller[c].next
      BY <2>1 DEF CallersStay
    <3> QED
      BY <3>1 DEF RowInv, Adding, DefsStay, RowsStay, Typed
  <2> QED
    BY <2>1 DEF RowInv, Adding
<1>4. ASSUME NEW s \in Sched, Owed(s), enabled[s], ~stopping' PROVE Owed(s)'
  <2>1. CASE \E d \in thread.calls : d.s = s /\ d.gen = generation[s]
    <3>1. PICK d \in thread.calls : d.s = s /\ d.gen = generation[s]
      BY <2>1
    <3>2. CASE d \in thread'.calls
      BY <3>1, <3>2 DEF Owed, DefsStay
    <3>3. CASE \E n \in Call : Carries(n, d)'
      BY <3>1, <3>3 DEF Owed, Owing, Carries, DefsStay
    <3> QED
      BY <1>4, <3>2, <3>3 DEF ThreadStays
  <2>2. CASE \E n \in Call : call[n].s = s /\ call[n].gen = generation[s] /\ call[n].st \in Owing
    <3>1. PICK n \in Call : call[n].s = s /\ call[n].gen = generation[s] /\ call[n].st \in Owing
      BY <2>2
    <3>2. call'[n].st \in Owing /\ Same(n)
      BY <1>4, <3>1 DEF CallsStay
    <3> QED
      BY <3>1, <3>2 DEF Owed, DefsStay, Same
  <2>3. CASE \E r \in thread.resched : r.s = s /\ r.gen = generation[s]
    BY <2>3 DEF Owed, ThreadStays, DefsStay
  <2> QED
    BY <1>4, <2>1, <2>2, <2>3 DEF Owed
<1>5. ASSUME NEW s \in Sched, Written(s) PROVE Written(s)'
  BY <1>5 DEF Written, CallersStay, CallsStay, Same
<1>6. Settling'
  <2> SUFFICES ASSUME ~stopping'
               PROVE  /\ \A s \in Sched : row'[s].there /\ enabled'[s] /\ s \notin late' =>
                            row'[s].next = due'[s] \/ Owed(s)' \/ Written(s)'
                      /\ \A c \in Caller : caller'[c].pc = "write" /\ enabled'[caller'[c].s] =>
                            caller'[c].next = due'[caller'[c].s] \/ Owed(caller[c].s)'
                      /\ \A n \in Call : call'[n].st = "writing" /\ enabled'[call'[n].s] =>
                            call'[n].next = due'[call'[n].s] \/ Owed(call[n].s)'
    BY DEF Settling
  <2>0. ~stopping
    BY DEF DefsStay
  <2>1. ASSUME NEW s \in Sched, row'[s].there, enabled'[s], s \notin late'
        PROVE  row'[s].next = due'[s] \/ Owed(s)' \/ Written(s)'
    <3>1. /\ row[s].there /\ enabled[s] /\ s \notin late
          /\ row'[s].next = row[s].next /\ due'[s] = due[s]
      BY <2>1 DEF RowsStay, DefsStay
    <3>2. row[s].next = due[s] \/ Owed(s) \/ Written(s)
      BY <2>0, <3>1 DEF RowInv, Settling
    <3> QED
      BY <1>4, <1>5, <3>1, <3>2
  <2>2. ASSUME NEW c \in Caller, caller'[c].pc = "write", enabled'[caller'[c].s]
        PROVE  caller'[c].next = due'[caller'[c].s] \/ Owed(caller[c].s)'
    <3>1. /\ caller[c].pc = "write" /\ caller'[c].s = caller[c].s /\ caller'[c].next = caller[c].next
          /\ caller[c].s \in Sched /\ enabled[caller[c].s] /\ due' = due
      BY <2>2 DEF CallersStay, DefsStay, Typed
    <3>2. caller[c].next = due[caller[c].s] \/ Owed(caller[c].s)
      BY <2>0, <3>1 DEF RowInv, Settling
    <3>3. Owed(caller[c].s) => Owed(caller[c].s)'
      <4>1. PICK s \in Sched : s = caller[c].s
        BY <3>1
      <4>2. Owed(s) => Owed(s)'
        BY <1>4, <3>1, <4>1
      <4> QED
        BY <3>1, <4>1, <4>2 DEF Owed
    <3> QED
      BY <3>1, <3>2, <3>3
  <2>3. ASSUME NEW n \in Call, call'[n].st = "writing", enabled'[call'[n].s]
        PROVE  call'[n].next = due'[call'[n].s] \/ Owed(call[n].s)'
    <3>1. /\ call[n].st = "writing" /\ Same(n)
          /\ call[n].s \in Sched
      BY <2>3 DEF CallsStay, Carries, Typed
    <3>2. call[n].next = due[call[n].s] \/ Owed(call[n].s)
      BY <2>0, <2>3, <3>1 DEF RowInv, Settling, Same, DefsStay
    <3>3. Owed(call[n].s) => Owed(call[n].s)'
      <4>1. PICK s \in Sched : s = call[n].s
        BY <3>1
      <4>2. Owed(s) => Owed(s)'
        BY <1>4, <2>3, <3>1, <4>1 DEF Same, DefsStay
      <4> QED
        BY <3>1, <4>1, <4>2 DEF Owed, Same
    <3> QED
      BY <3>1, <3>2, <3>3 DEF Same, DefsStay
  <2> QED
    BY <2>1, <2>2, <2>3
<1>7. ASSUME NEW s \in Sched, NEW occ, NEW next, Behind(s, occ, next) PROVE Behind(s, occ, next)'
  BY <1>7 DEF Behind, DefsStay, RowsStay, ThreadStays, CallersStay
<1>8. Covered'
  <2> SUFFICES ASSUME used'.threads = 0
               PROVE  /\ \A d \in thread'.calls : d.gen = generation'[d.s] => Behind(d.s, d.occ, d.next)'
                      /\ \A n \in Call : call'[n].st \in {"queued", "started"}
                              /\ call'[n].gen = generation'[call'[n].s]
                            => Behind(call[n].s, call[n].occ, call[n].next)'
    BY DEF Covered
  <2>1. \A d \in thread.calls : d.gen = generation[d.s] => Behind(d.s, d.occ, d.next)
    BY DEF RowInv, Covered, DefsStay
  <2>2. \A n \in Call : call[n].st \in {"queued", "started"} /\ call[n].gen = generation[call[n].s]
            => Behind(call[n].s, call[n].occ, call[n].next)
    BY DEF RowInv, Covered, DefsStay
  <2>3. ASSUME NEW d \in thread.calls, d.gen = generation[d.s] PROVE Behind(d.s, d.occ, d.next)'
    BY <1>7, <2>1, <2>3 DEF Typed
  <2>4. ASSUME NEW n \in Call, call'[n].st \in {"queued", "started"}, call'[n].gen = generation'[call'[n].s]
        PROVE  Behind(call[n].s, call[n].occ, call[n].next)'
    <3>1. CASE call[n].st \in {"queued", "started"} /\ Same(n)
      <4>1. PICK s \in Sched, o \in Nat, x \in Nat : s = call[n].s /\ o = call[n].occ /\ x = call[n].next
        BY DEF Typed
      <4>2. Behind(s, o, x)
        BY <2>2, <2>4, <3>1, <4>1 DEF Same, DefsStay
      <4>3. Behind(s, o, x)'
        BY <1>7, <4>2
      <4> QED
        BY <3>1, <4>1, <4>3 DEF Same, Behind
    <3>2. CASE \E d \in thread.calls : Carries(n, d)'
      <4>1. PICK d \in thread.calls : Carries(n, d)'
        BY <3>2
      <4>2. Behind(d.s, d.occ, d.next)'
        BY <2>3, <2>4, <4>1 DEF Carries, DefsStay
      <4> QED
        BY <4>1, <4>2 DEF Carries, Behind
    <3> QED
      BY <2>4, <3>1, <3>2 DEF CallsStay
  <2> QED
    BY <2>3, <2>4 DEF DefsStay, ThreadStays
<1> QED
  BY <1>1, <1>2, <1>3, <1>6, <1>8 DEF RowInv

(* A command, not yet writing, makes or drops the definition of s.          *)
LEMMA Redefined ==
  ASSUME SchedInv, RowInv, Typed, Typed', NEW c \in Caller, NEW s \in Sched, NEW g \in Nat,
         io = "free", g = 0 \/ g = counter + 1, counter <= counter',
         generation' = [generation EXCEPT ![s] = g],
         \A x \in Sched \ {s} : due'[x] = due[x] /\ enabled'[x] = enabled[x] /\ (x \in late' <=> x \in late),
         due'[s] <= clock + Period,
         g # 0 /\ row[s].there => row[s].next <= due'[s],
         enabled'[s] => g # 0 /\ (caller'[c].pc = "write" \/ (row[s].there => row[s].next = due'[s])),
         \A d \in Caller \ {c} : caller'[d] = caller[d],
         g # 0 => \A d \in Caller \ {c} : ~(caller[d].pc = "add" /\ caller[d].s = s),
         caller'[c].pc # "add",
         caller'[c].pc = "write" => g # 0 /\ caller'[c].s = s /\ caller'[c].next = due'[s],
         caller'[c].victim = NoCall \/ caller'[c].victim = future[s],
         used'.threads = used.threads,
         UNCHANGED <<clock, stopping, toCancel, thread, call, row>>
  PROVE  RowInv'
<1>0. /\ \A x \in Sched \ {s} : generation'[x] = generation[x]
      /\ generation'[s] = g /\ g \notin 1..counter
  BY DEF Typed, SchedInv, Shape
<1>1. /\ \A d \in Caller : caller[d].pc # "write"
      /\ \A n \in Call : call[n].st # "writing"
  BY Constant DEF SchedInv, Locks
<1>2. Numbers'
  <2>1. \A r \in thread'.resched : r.gen \in 1..counter'
    BY DEF RowInv, Numbers, Typed
  <2>2. \A d \in thread'.calls : d.gen \in 1..counter'
    BY DEF RowInv, Numbers, Typed
  <2>3. \A n \in Call : call'[n].st # "free" => call'[n].gen \in 1..counter'
    BY DEF RowInv, Numbers, Typed
  <2>4. (\A x \in Sched : enabled'[x] => generation'[x] # 0) /\ (toCancel' # {} => stopping')
    BY <1>0 DEF RowInv, Numbers
  <2>5. ASSUME NEW n \in Call, call[n].st # "free", call[n].s = s PROVE call[n].gen # generation'[call[n].s]
    BY <1>0, <2>5 DEF RowInv, Numbers
  <2>6. ASSUME NEW d \in Caller, caller'[d].victim # NoCall, call'[caller'[d].victim].st # "free"
        PROVE  call'[caller'[d].victim].gen # generation'[call'[caller'[d].victim].s]
    <3>1. PICK n \in Call : n = caller'[d].victim
      BY <2>6 DEF Typed
    <3>2. CASE call[n].s = s
      BY <2>5, <2>6, <3>1, <3>2
    <3>3. CASE call[n].s # s
      <4>1. d # c
        <5>1. CASE d = c
          <6>1. future[s] = n /\ n # NoCall
            BY <2>6, <3>1, <5>1
          <6> QED
            BY <3>3, <6>1 DEF SchedInv, Registered
        <5> QED
          BY <5>1
      <4>2. call[n].gen # generation[call[n].s]
        BY <2>6, <3>1, <4>1 DEF RowInv, Numbers
      <4> QED
        BY <1>0, <3>1, <3>3, <4>2 DEF Typed
    <3> QED
      BY <3>2, <3>3
  <2> QED
    BY <2>1, <2>2, <2>3, <2>4, <2>6 DEF RowInv, Numbers
<1>3. Dates'
  <2>1. ASSUME NEW x \in Sched
        PROVE  /\ due'[x] <= clock' + Period /\ row'[x].next <= clock' + Period
               /\ generation'[x] # 0 /\ row'[x].there => row'[x].next <= due'[x]
    BY <1>0 DEF RowInv, Dates
  <2>2. ASSUME NEW d \in Caller, caller'[d].pc = "write"
        PROVE  generation'[caller'[d].s] # 0 /\ caller'[d].next <= due'[caller'[d].s]
    <3>1. d = c
      BY <1>1, <2>2
    <3> QED
      BY <1>0, <2>2, <3>1 DEF Typed
  <2>3. \A n \in Call : call'[n].st # "writing"
    BY <1>1
  <2>4. ASSUME NEW r \in thread.resched, r.gen = generation'[r.s] PROVE r.next = due'[r.s]
    <3>1. r.s # s /\ r.s \in Sched
      BY <1>0, <2>4 DEF RowInv, Numbers, Typed
    <3> QED
      BY <1>0, <2>4, <3>1 DEF RowInv, Dates
  <2> QED
    BY <2>1, <2>2, <2>3, <2>4 DEF Dates
<1>4. Adding'
  <2>1. ASSUME NEW d \in Caller, caller'[d].pc = "add"
        PROVE  /\ d # c /\ caller'[d] = caller[d]
               /\ generation'[caller'[d].s] = 0
               /\ caller'[d].next <= clock' + Period
               /\ row'[caller'[d].s].there => row'[caller'[d].s].next = caller'[d].next
    <3>1. d # c /\ caller'[d] = caller[d]
      BY <2>1
    <3>2. caller[d].s = s => g = 0
      BY <2>1, <3>1
    <3> QED
      BY <1>0, <2>1, <3>1, <3>2 DEF RowInv, Adding, Typed
  <2>2. ASSUME NEW d \in Caller, NEW e \in Caller, caller'[d].pc = "add", caller'[e].pc = "add",
               caller'[d].s = caller'[e].s
        PROVE  d = e
    <3>1. caller'[d] = caller[d] /\ caller'[e] = caller[e]
      BY <2>1, <2>2
    <3> QED
      BY <2>2, <3>1 DEF RowInv, Adding
  <2> QED
    BY <2>1, <2>2 DEF Adding
<1>5. ASSUME NEW x \in Sched \ {s}, Owed(x) PROVE Owed(x)'
  BY <1>0, <1>5 DEF Owed
<1>6. Settling'
  <2>1. ASSUME ~stopping', NEW x \in Sched, row'[x].there, enabled'[x], x \notin late'
        PROVE  row'[x].next = due'[x] \/ Owed(x)' \/ Written(x)'
    <3>1. CASE x = s
      BY <2>1, <3>1 DEF Written
    <3>2. CASE x # s
      <4>1. row[x].next = due[x] \/ Owed(x) \/ Written(x)
        BY <2>1, <3>2 DEF RowInv, Settling
      <4>2. ~Written(x)
        BY <1>1 DEF Written
      <4> QED
        BY <1>5, <3>2, <4>1, <4>2
    <3> QED
      BY <3>1, <3>2
  <2>2. ASSUME NEW d \in Caller, caller'[d].pc = "write"
        PROVE  caller'[d].next = due'[caller'[d].s]
    <3>1. d = c
      BY <1>1, <2>2
    <3> QED
      BY <2>2, <3>1
  <2>3. \A n \in Call : call'[n].st # "writing"
    BY <1>1
  <2> QED
    BY <2>1, <2>2, <2>3 DEF Settling
<1>7. ASSUME NEW x \in Sched \ {s}, NEW occ, NEW next, Behind(x, occ, next) PROVE Behind(x, occ, next)'
  <2>1. ASSUME NEW d \in Caller, caller'[d].pc = "write" PROVE caller'[d].s = s
    <3>1. d = c
      BY <1>1, <2>1
    <3> QED
      BY <2>1, <3>1
  <2> QED
    BY <1>0, <1>7, <2>1 DEF Behind
<1>8. Covered'
  <2>1. ASSUME used'.threads = 0, NEW d \in thread.calls, d.gen = generation'[d.s]
        PROVE  Behind(d.s, d.occ, d.next)'
    <3>1. d.s \in Sched \ {s}
      BY <1>0, <2>1 DEF RowInv, Numbers, Typed
    <3>2. Behind(d.s, d.occ, d.next)
      BY <1>0, <2>1, <3>1 DEF RowInv, Covered
    <3> QED
      BY <1>7, <3>1, <3>2
  <2>2. ASSUME used'.threads = 0, NEW n \in Call, call[n].st \in {"queued", "started"},
               call[n].gen = generation'[call[n].s]
        PROVE  Behind(call[n].s, call[n].occ, call[n].next)'
    <3>1. call[n].s \in Sched \ {s}
      BY <1>0, <2>2 DEF RowInv, Numbers, Typed
    <3>2. PICK x \in Sched \ {s}, o \in Nat, y \in Nat : x = call[n].s /\ o = call[n].occ /\ y = call[n].next
      BY <3>1 DEF Typed
    <3>3. Behind(x, o, y)
      BY <1>0, <2>2, <3>2 DEF RowInv, Covered
    <3>4. Behind(x, o, y)'
      BY <1>7, <3>3
    <3> QED
      BY <3>2, <3>4 DEF Behind
  <2> QED
    BY <2>1, <2>2 DEF Covered
<1> QED
  BY <1>2, <1>3, <1>4, <1>6, <1>8 DEF RowInv

(* What a write of a due time does to the rows.                             *)
LEMMA Recorded ==
  ASSUME Typed, NEW s \in Sched, NEW next \in Nat, PersistNext(s, next),
         row \in [Sched -> Rows], used \in Bound
  PROVE  /\ \A x \in Sched \ {s} : row'[x] = row[x] /\ (x \in late' <=> x \in late)
         /\ row'[s].there = row[s].there
         /\ row'[s].next = row[s].next \/ row'[s].next = next
         /\ row'[s].there /\ s \notin late' => row'[s].next = next
         /\ used'.threads = used.threads
<1>1. used'.threads = used.threads
  BY DEF PersistNext, Bound
<1>2. CASE row' = [row EXCEPT ![s].next = IF row[s].there THEN next ELSE @] /\ late' = late \ {s}
  <2> DEFINE v == IF row[s].there THEN next ELSE row[s].next
             e == [row[s] EXCEPT !.next = v]
  <2>1. row' = [row EXCEPT ![s] = e]
    BY <1>2
  <2>2. e.there = row[s].there /\ e.next = v /\ (v = row[s].next \/ v = next) /\ (row[s].there => v = next)
    BY DEF Rows
  <2> HIDE DEF e, v
  <2> QED
    BY <1>1, <1>2, <2>1, <2>2
<1>3. CASE row' = row /\ late' = late \cup {s}
  BY <1>1, <1>3
<1> QED
  BY <1>2, <1>3 DEF PersistNext

(* Whoever held the definition lock writes the row of s.                     *)
LEMMA Wrote ==
  ASSUME SchedInv, SchedInv', RowInv, Typed, Typed', NEW s \in Sched, NEW next \in Nat,
         PersistNext(s, next), io' = "free",
         UNCHANGED <<clock, generation, due, enabled, counter, stopping, toCancel>>,
         generation[s] # 0, next <= due[s], enabled[s] /\ ~stopping => next = due[s] \/ Owed(s)',
         \A x \in Sched \ {s} : ~Written(x),
         thread'.resched \subseteq thread.resched, thread'.item \subseteq thread'.resched,
         \A r \in thread.resched : r \in thread'.resched \/ r.s = s,
         thread'.calls = thread.calls,
         \A n \in Call : call'[n] = call[n] \/ (call'[n].st = "returned" /\ call[n].st = "writing" /\ Same(n)),
         \A d \in Caller : caller'[d] = caller[d]
               \/ (caller'[d].pc # "add" /\ caller'[d].victim = caller[d].victim),
         used.threads = 0 =>
            /\ \A d \in thread.calls : d.s = s /\ d.gen = generation[s] /\ d.next = due[s] => next <= d.occ
            /\ \A n \in Call : call[n].st \in {"queued", "started"} /\ call[n].s = s
                  /\ call[n].gen = generation[s] /\ call[n].next = due[s] => next <= call[n].occ
  PROVE  RowInv'
<1>1. /\ \A x \in Sched \ {s} : row'[x] = row[x] /\ (x \in late' <=> x \in late)
      /\ row'[s].there = row[s].there
      /\ row'[s].next = row[s].next \/ row'[s].next = next
      /\ row'[s].there /\ s \notin late' => row'[s].next = next
      /\ used'.threads = used.threads
  BY Recorded DEF SchedInv, Shape, Rows, Bound
<1>2. /\ \A d \in Caller : caller'[d].pc # "write"
      /\ \A n \in Call : call'[n].st # "writing"
  BY Constant DEF SchedInv, Locks
<1>3. Numbers'
  <2>1. /\ \A r \in thread'.resched : r.gen \in 1..counter'
        /\ \A d \in thread'.calls : d.gen \in 1..counter'
        /\ \A n \in Call : call'[n].st # "free" => call'[n].gen \in 1..counter'
        /\ \A x \in Sched : enabled'[x] => generation'[x] # 0
        /\ toCancel' # {} => stopping'
    BY DEF RowInv, Numbers, Same
  <2>2. ASSUME NEW d \in Caller, caller'[d].victim # NoCall, call'[caller'[d].victim].st # "free"
        PROVE  call'[caller'[d].victim].gen # generation'[call'[caller'[d].victim].s]
    <3>1. PICK n \in Call : n = caller'[d].victim /\ n = caller[d].victim
      BY <2>2 DEF Typed
    <3>2. call[n].st # "free" /\ call'[n].gen = call[n].gen /\ call'[n].s = call[n].s
      BY <2>2, <3>1 DEF Same
    <3> QED
      BY <2>2, <3>1, <3>2 DEF RowInv, Numbers
  <2> QED
    BY <2>1, <2>2 DEF Numbers
<1>4. Dates'
  <2>1. next <= clock + Period
    BY DEF RowInv, Dates, Typed
  <2>2. ASSUME NEW x \in Sched
        PROVE  /\ due'[x] <= clock' + Period /\ row'[x].next <= clock' + Period
               /\ generation'[x] # 0 /\ row'[x].there => row'[x].next <= due'[x]
    BY <1>1, <2>1 DEF RowInv, Dates
  <2>3. \A r \in thread'.resched : r.gen = generation'[r.s] => r.next = due'[r.s]
    BY DEF RowInv, Dates
  <2> QED
    BY <1>2, <2>2, <2>3 DEF Dates
<1>5. ASSUME NEW d \in Caller, caller'[d].pc = "add"
      PROVE  caller'[d] = caller[d] /\ generation[caller[d].s] = 0 /\ caller[d].s \in Sched
  BY <1>5 DEF RowInv, Adding, Typed
<1>6. Adding'
  <2>1. ASSUME NEW d \in Caller, caller'[d].pc = "add", row'[caller'[d].s].there
        PROVE  row'[caller'[d].s].next = caller'[d].next
    <3>1. PICK x \in Sched : x = caller[d].s /\ x # s
      BY <1>5, <2>1
    <3> QED
      BY <1>1, <1>5, <2>1, <3>1 DEF RowInv, Adding
  <2>2. \A d \in Caller : caller'[d].pc = "add" =>
           generation'[caller'[d].s] = 0 /\ caller'[d].next <= clock' + Period
    BY <1>5 DEF RowInv, Adding
  <2>3. \A d, e \in Caller :
          caller'[d].pc = "add" /\ caller'[e].pc = "add" /\ caller'[d].s = caller'[e].s => d = e
    BY <1>5 DEF RowInv, Adding
  <2> QED
    BY <2>1, <2>2, <2>3 DEF Adding
<1>7. ASSUME NEW x \in Sched \ {s}, Owed(x) PROVE Owed(x)'
  BY <1>7 DEF Owed, Owing, Same
<1>8. Settling'
  <2>1. ASSUME ~stopping', NEW x \in Sched, row'[x].there, enabled'[x], x \notin late'
        PROVE  row'[x].next = due'[x] \/ Owed(x)' \/ Written(x)'
    <3>1. CASE x = s
      BY <1>1, <2>1, <3>1
    <3>2. CASE x # s
      <4>1. row[x].next = due[x] \/ Owed(x) \/ Written(x)
        BY <1>1, <2>1, <3>2 DEF RowInv, Settling
      <4> QED
        BY <1>1, <1>7, <3>2, <4>1
    <3> QED
      BY <3>1, <3>2
  <2> QED
    BY <1>2, <2>1 DEF Settling
<1>9. ASSUME NEW x \in Sched, NEW occ \in Nat, NEW y \in Nat, Behind(x, occ, y),
             x = s /\ due[s] = y => next <= occ
      PROVE  Behind(x, occ, y)'
  BY <1>1, <1>2, <1>9 DEF Behind
<1>10. Covered'
  <2>1. ASSUME used'.threads = 0, NEW d \in thread.calls, d.gen = generation[d.s]
        PROVE  Behind(d.s, d.occ, d.next)'
    <3>1. Behind(d.s, d.occ, d.next)
      BY <1>1, <2>1 DEF RowInv, Covered
    <3> QED
      BY <1>1, <1>9, <2>1, <3>1 DEF Typed
  <2>2. ASSUME used'.threads = 0, NEW n \in Call, call'[n].st \in {"queued", "started"},
               call'[n].gen = generation[call'[n].s]
        PROVE  Behind(call[n].s, call[n].occ, call[n].next)'
    <3>1. call'[n] = call[n]
      BY <2>2
    <3>2. PICK x \in Sched, o \in Nat, y \in Nat : x = call[n].s /\ o = call[n].occ /\ y = call[n].next
      BY DEF Typed
    <3>3. Behind(x, o, y)
      BY <1>1, <2>2, <3>1, <3>2 DEF RowInv, Covered
    <3>4. Behind(x, o, y)'
      BY <1>1, <1>9, <2>2, <3>1, <3>2, <3>3
    <3> QED
      BY <3>1, <3>2, <3>4 DEF Behind
  <2> QED
    BY <2>1, <2>2 DEF Covered
<1> QED
  BY <1>3, <1>4, <1>6, <1>8, <1>10 DEF RowInv

(* The commands.                                                             *)
LEMMA CommandSettles ==
  ASSUME SchedInv, SchedInv', RowInv, Typed, Typed', NEW c \in Caller, NEW s \in Sched,
         Replace(c, s) \/ Enable(c, s) \/ Disable(c, s) \/ RemoveSchedule(c, s)
  PROVE  RowInv'
<1>1. /\ IdleCaller.victim = NoCall
      /\ caller \in [Caller -> Callers] /\ generation \in [Sched -> 0..counter] /\ due \in [Sched -> Times]
      /\ enabled \in [Sched -> BOOLEAN] /\ used \in Bound
      /\ \A d \in Caller : caller[d].pc = "add" => generation[caller[d].s] = 0
  BY DEF SchedInv, Shape, Bound, IdleCaller, RowInv, Adding
<1>2. row[s].next <= clock + Period /\ (generation[s] # 0 /\ row[s].there => row[s].next <= due[s])
      /\ due[s] <= clock + Period
  BY DEF RowInv, Dates
<1>3. CASE Replace(c, s) \/ Enable(c, s)
  <2> DEFINE g == counter + 1
  <2>1. /\ g \in Nat /\ g # 0 /\ counter' = g /\ generation' = [generation EXCEPT ![s] = g]
        /\ due' = [due EXCEPT ![s] = clock + Period] /\ enabled' = [enabled EXCEPT ![s] = TRUE]
        /\ late' = late /\ used'.threads = used.threads /\ io = "free" /\ generation[s] # 0
        /\ UNCHANGED <<clock, stopping, toCancel, thread, call, row>>
    BY <1>1, <1>3 DEF Replace, Enable, NewGeneration, Changed, Bound, Typed
  <2>2. /\ \A d \in Caller \ {c} : caller'[d] = caller[d]
        /\ caller'[c].pc = "write" /\ caller'[c].s = s /\ caller'[c].next = clock + Period
        /\ caller'[c].victim = NoCall \/ caller'[c].victim = future[s]
    BY <1>1, <1>3 DEF Replace, Enable, GoesOnToWrite
  <2>3. /\ \A x \in Sched \ {s} : due'[x] = due[x] /\ enabled'[x] = enabled[x]
        /\ due'[s] = clock + Period
    BY <1>1, <2>1
  <2>4. counter <= counter' /\ due'[s] <= clock + Period
    BY <2>1, <2>3 DEF Typed
  <2>5. \A d \in Caller \ {c} : ~(caller[d].pc = "add" /\ caller[d].s = s)
    BY <1>1, <2>1
  <2> HIDE DEF g
  <2>6. g = 0 \/ g = counter + 1
    BY DEF g
  <2>7. row[s].next <= due'[s] /\ caller'[c].next = due'[s] /\ caller'[c].pc # "add"
    BY <1>2, <2>2, <2>3
  <2>8. \A x \in Sched \ {s} : due'[x] = due[x] /\ enabled'[x] = enabled[x] /\ (x \in late' <=> x \in late)
    BY <2>1, <2>3
  <2> QED
    BY <2>1, <2>2, <2>4, <2>5, <2>6, <2>7, <2>8, Redefined
<1>4. CASE Disable(c, s) \/ RemoveSchedule(c, s)
  <2>1. PICK g \in Nat : /\ g = 0 \/ (g = counter + 1 /\ generation[s] # 0)
                         /\ g <= counter' /\ counter <= counter'
                         /\ generation' = [generation EXCEPT ![s] = g]
    <3>1. CASE Disable(c, s)
      <4>1. /\ counter + 1 \in Nat /\ counter + 1 <= counter' /\ counter <= counter' /\ generation[s] # 0
            /\ generation' = [generation EXCEPT ![s] = counter + 1]
        BY <3>1 DEF Disable, NewGeneration, Typed
      <4> QED
        BY <4>1
    <3>2. CASE RemoveSchedule(c, s)
      <4>1. 0 \in Nat /\ 0 <= counter' /\ counter <= counter'
            /\ generation' = [generation EXCEPT ![s] = 0]
        BY <3>2 DEF RemoveSchedule, Typed
      <4> QED
        BY <4>1
    <3> QED
      BY <1>4, <3>1, <3>2
  <2>2. /\ due' = due /\ enabled' = [enabled EXCEPT ![s] = FALSE]
        /\ late' = late /\ used'.threads = used.threads /\ io = "free"
        /\ UNCHANGED <<clock, stopping, toCancel, thread, call, row>>
    BY <1>1, <1>4 DEF Disable, RemoveSchedule, Changed, Bound
  <2>3. /\ \A d \in Caller \ {c} : caller'[d] = caller[d]
        /\ caller'[c].pc = "cancel" /\ caller'[c].victim = future[s]
    BY <1>1, <1>4 DEF Disable, RemoveSchedule
  <2>4. \A x \in Sched \ {s} : due'[x] = due[x] /\ enabled'[x] = enabled[x]
    BY <2>2
  <2>5. ~enabled'[s] /\ due'[s] <= clock + Period
    BY <1>1, <1>2, <2>2
  <2>6. g # 0 => \A d \in Caller \ {c} : ~(caller[d].pc = "add" /\ caller[d].s = s)
    BY <1>1, <2>1
  <2>7. g # 0 /\ row[s].there => row[s].next <= due'[s]
    BY <1>2, <2>1, <2>2
  <2> QED
    BY <2>1, <2>2, <2>3, <2>4, <2>5, <2>6, <2>7, Redefined
<1> QED
  BY <1>3, <1>4

LEMMA IdleStays ==
  ASSUME NEW c \in Caller, caller \in [Caller -> Callers], caller[c].pc # "write",
         NEW e, e.pc # "write", e.pc # "add", e.victim = NoCall \/ e.victim = caller[c].victim,
         caller' = [caller EXCEPT ![c] = e]
  PROVE  CallersStay
  BY DEF CallersStay

(* The rest of the state stands still.                                      *)
LEMMA NothingElse ==
  ASSUME RowInv, Typed
  PROVE  /\ UNCHANGED <<generation, due, enabled, counter, clock, stopping, toCancel>>
            /\ used'.threads = used.threads => DefsStay
         /\ UNCHANGED <<row, late>> => RowsStay
         /\ UNCHANGED thread => ThreadStays
         /\ UNCHANGED call => CallsStay
         /\ UNCHANGED caller => CallersStay
<1>1. UNCHANGED <<generation, due, enabled, counter, clock, stopping, toCancel>>
            /\ used'.threads = used.threads => DefsStay
  BY DEF DefsStay, RowInv, Numbers, Typed
<1>2. UNCHANGED <<row, late>> => RowsStay
  BY DEF RowsStay
<1>3. UNCHANGED thread => ThreadStays
  BY DEF ThreadStays, RowInv, Numbers
<1>4. UNCHANGED call => CallsStay
  BY DEF CallsStay, Same
<1>5. UNCHANGED caller => CallersStay
  BY DEF CallersStay
<1> QED
  BY <1>1, <1>2, <1>3, <1>4, <1>5

LEMMA AddSettles ==
  ASSUME SchedInv, SchedInv', RowInv, Typed, Typed', NEW c \in Caller, Add(c)
  PROVE  RowInv'
<1> DEFINE s == caller[c].s
<1>0. /\ IdleCaller.victim = NoCall /\ IdleCaller.pc = "idle"
      /\ caller \in [Caller -> Callers] /\ caller[c].pc = "add" /\ caller' = [caller EXCEPT ![c] = IdleCaller]
  BY DEF SchedInv, Shape, IdleCaller, Add
<1>1. CASE stopping
  <2>1. CallersStay
    BY <1>0, IdleStays
  <2>2. DefsStay /\ RowsStay /\ ThreadStays /\ CallsStay
    BY <1>1, NothingElse DEF Add
  <2> QED
    BY <2>1, <2>2, AsideSettles
<1>2. CASE ~stopping
  <2> DEFINE g == counter + 1
  <2>1. /\ s \in Sched /\ g \in Nat /\ g # 0 /\ counter' = g /\ generation' = [generation EXCEPT ![s] = g]
        /\ due' = [due EXCEPT ![s] = caller[c].next] /\ enabled' = [enabled EXCEPT ![s] = TRUE]
        /\ late' = late \ {s} /\ used'.threads = used.threads /\ io = "free"
        /\ UNCHANGED <<clock, stopping, toCancel, thread, call, row>>
    BY <1>2 DEF Add, NewGeneration, Typed
  <2>2. due \in [Sched -> Times] /\ enabled \in [Sched -> BOOLEAN]
    BY DEF SchedInv, Shape
  <2>3. /\ caller[c].next <= clock + Period
        /\ row[s].there => row[s].next = caller[c].next
        /\ \A d \in Caller \ {c} : ~(caller[d].pc = "add" /\ caller[d].s = s)
    BY <1>0 DEF RowInv, Adding
  <2>4. /\ \A x \in Sched \ {s} : due'[x] = due[x] /\ enabled'[x] = enabled[x] /\ (x \in late' <=> x \in late)
        /\ due'[s] = caller[c].next
    BY <2>1, <2>2
  <2>5. /\ \A d \in Caller \ {c} : caller'[d] = caller[d]
        /\ caller'[c].pc = "idle" /\ caller'[c].victim = NoCall
    BY <1>0
  <2>6. counter <= counter' /\ caller[c].next \in Nat
    BY <2>1 DEF Typed
  <2> HIDE DEF g, s
  <2>7. g = counter + 1
    BY DEF g
  <2>8. row[s].there => row[s].next <= due'[s] /\ row[s].next = due'[s]
    BY <2>1, <2>3, <2>4, <2>6
  <2> QED
    BY <2>1, <2>3, <2>4, <2>5, <2>6, <2>7, <2>8, Redefined
<1> QED
  BY <1>1, <1>2

(* The row of a new id is written before its definition is loaded.           *)
LEMMA SaveSettles ==
  ASSUME SchedInv, SchedInv', RowInv, Typed, Typed', NEW c \in Caller, NEW s \in Sched, SaveSchedule(c, s)
  PROVE  RowInv'
<1>1. /\ caller \in [Caller -> Callers] /\ row \in [Sched -> Rows] /\ used \in Bound
      /\ caller[c].pc = "idle" /\ generation[s] = 0 /\ ~row[s].there
      /\ \A d \in Caller : caller[d].pc # "idle" => caller[d].s # s
  BY DEF SchedInv, Shape, Rows, Bound, SaveSchedule
<1>2. /\ \A x \in Sched \ {s} : row'[x] = row[x]
      /\ row'[s].there /\ row'[s].next = clock + Period
      /\ UNCHANGED <<generation, due, enabled, counter, clock, stopping, toCancel, thread, call, late>>
      /\ used'.threads = used.threads
  BY <1>1 DEF SaveSchedule, Changed, Bound
<1>3. /\ \A d \in Caller \ {c} : caller'[d] = caller[d]
      /\ caller'[c].pc = "add" /\ caller'[c].s = s /\ caller'[c].next = clock + Period
      /\ caller'[c].victim = NoCall
  BY <1>1 DEF SaveSchedule, IdleCaller
<1>4. Numbers'
  <2>1. ASSUME NEW d \in Caller, caller'[d].victim # NoCall, call'[caller'[d].victim].st # "free"
        PROVE  call'[caller'[d].victim].gen # generation'[call'[caller'[d].victim].s]
    <3>1. d # c
      BY <1>3, <2>1
    <3> QED
      BY <1>2, <1>3, <2>1, <3>1 DEF RowInv, Numbers
  <2> QED
    BY <1>2, <2>1 DEF RowInv, Numbers
<1>5. Dates'
  <2>1. \A x \in Sched : due'[x] <= clock' + Period /\ row'[x].next <= clock' + Period
    BY <1>2 DEF RowInv, Dates, Typed
  <2>2. \A x \in Sched : generation'[x] # 0 /\ row'[x].there => row'[x].next <= due'[x]
    BY <1>1, <1>2 DEF RowInv, Dates
  <2>3. ASSUME NEW d \in Caller, caller'[d].pc = "write"
        PROVE  generation'[caller'[d].s] # 0 /\ caller'[d].next <= due'[caller'[d].s]
    <3>1. d # c
      BY <1>3, <2>3
    <3> QED
      BY <1>2, <1>3, <2>3, <3>1 DEF RowInv, Dates
  <2> QED
    BY <1>2, <2>1, <2>2, <2>3 DEF RowInv, Dates
<1>6. Adding'
  <2>1. ASSUME NEW d \in Caller, caller'[d].pc = "add"
        PROVE  /\ generation'[caller'[d].s] = 0
               /\ caller'[d].next <= clock' + Period
               /\ row'[caller'[d].s].there => row'[caller'[d].s].next = caller'[d].next
    <3>1. CASE d = c
      BY <1>1, <1>2, <1>3, <3>1 DEF Typed
    <3>2. CASE d # c
      <4>1. caller'[d] = caller[d] /\ caller[d].s # s /\ caller[d].s \in Sched
        BY <1>1, <1>3, <2>1, <3>2 DEF Typed
      <4> QED
        BY <1>2, <2>1, <4>1 DEF RowInv, Adding
    <3> QED
      BY <3>1, <3>2
  <2>2. ASSUME NEW d \in Caller, NEW e \in Caller, caller'[d].pc = "add", caller'[e].pc = "add",
               caller'[d].s = caller'[e].s
        PROVE  d = e
    BY <1>1, <1>3, <2>2 DEF RowInv, Adding
  <2> QED
    BY <2>1, <2>2 DEF Adding
<1>7. \A x \in Sched : (Owed(x) => Owed(x)') /\ (Written(x) => Written(x)')
  <2>1. ASSUME NEW x \in Sched, Owed(x) PROVE Owed(x)'
    BY <1>2, <2>1 DEF Owed
  <2>2. ASSUME NEW x \in Sched, Written(x) PROVE Written(x)'
    BY <1>1, <1>2, <1>3, <2>2 DEF Written
  <2> QED
    BY <2>1, <2>2
<1>8. Settling'
  <2>1. ASSUME ~stopping', NEW x \in Sched, row'[x].there, enabled'[x], x \notin late'
        PROVE  row'[x].next = due'[x] \/ Owed(x)' \/ Written(x)'
    <3>1. x # s
      BY <1>1, <1>2, <2>1 DEF RowInv, Numbers
    <3> QED
      BY <1>2, <1>7, <2>1, <3>1 DEF RowInv, Settling
  <2>2. ASSUME ~stopping', NEW d \in Caller, caller'[d].pc = "write", enabled'[caller'[d].s]
        PROVE  caller'[d].next = due'[caller'[d].s] \/ Owed(caller[d].s)'
    <3>1. caller'[d] = caller[d]
      BY <1>3, <2>2
    <3>2. PICK x \in Sched : x = caller[d].s
      BY DEF Typed
    <3>3. caller[d].next = due[x] \/ Owed(x)
      BY <1>2, <2>2, <3>1, <3>2 DEF RowInv, Settling
    <3>4. caller[d].next = due[x] \/ Owed(x)'
      BY <1>7, <3>3
    <3> QED
      BY <1>2, <3>1, <3>2, <3>4 DEF Owed
  <2>3. ASSUME ~stopping', NEW n \in Call, call'[n].st = "writing", enabled'[call'[n].s]
        PROVE  call'[n].next = due'[call'[n].s] \/ Owed(call[n].s)'
    <3>1. PICK x \in Sched : x = call[n].s
      BY DEF Typed
    <3>2. call[n].next = due[x] \/ Owed(x)
      BY <1>2, <2>3, <3>1 DEF RowInv, Settling
    <3>3. call[n].next = due[x] \/ Owed(x)'
      BY <1>7, <3>2
    <3> QED
      BY <1>2, <3>1, <3>3 DEF Owed
  <2> QED
    BY <2>1, <2>2, <2>3 DEF Settling
<1>9. ASSUME NEW x \in Sched, x # s, NEW occ, NEW next, Behind(x, occ, next) PROVE Behind(x, occ, next)'
  BY <1>1, <1>2, <1>3, <1>9 DEF Behind
<1>10. Covered'
  <2>1. ASSUME used'.threads = 0, NEW d \in thread.calls, d.gen = generation[d.s]
        PROVE  Behind(d.s, d.occ, d.next)'
    <3>1. d.s # s /\ d.s \in Sched
      BY <1>1, <2>1 DEF RowInv, Numbers, Typed
    <3> QED
      BY <1>2, <1>9, <2>1, <3>1 DEF RowInv, Covered
  <2>2. ASSUME used'.threads = 0, NEW n \in Call, call[n].st \in {"queued", "started"},
               call[n].gen = generation[call[n].s]
        PROVE  Behind(call[n].s, call[n].occ, call[n].next)'
    <3>1. call[n].s # s
      BY <1>1, <2>2 DEF RowInv, Numbers, Typed
    <3>2. PICK x \in Sched, o \in Nat, y \in Nat : x = call[n].s /\ o = call[n].occ /\ y = call[n].next
      BY DEF Typed
    <3>3. Behind(x, o, y)
      BY <1>2, <2>2, <3>2 DEF RowInv, Covered
    <3>4. Behind(x, o, y)'
      BY <1>9, <3>1, <3>2, <3>3
    <3> QED
      BY <1>2, <3>2, <3>4 DEF Behind
  <2> QED
    BY <1>2, <2>1, <2>2 DEF Covered
<1> QED
  BY <1>4, <1>5, <1>6, <1>8, <1>10 DEF RowInv

LEMMA ReaffirmSettles ==
  ASSUME SchedInv, RowInv, Typed, Typed', NEW c \in Caller, NEW s \in Sched, Reaffirm(c, s)
  PROVE  RowInv'
<1> DEFINE e == [IdleCaller EXCEPT !.s = s, !.pc = IF enabled[s] THEN "storeOn" ELSE "storeOff"]
<1>1. /\ caller \in [Caller -> Callers] /\ caller[c].pc = "idle" /\ caller' = [caller EXCEPT ![c] = e]
      /\ used \in Bound
  BY DEF SchedInv, Shape, Bound, Reaffirm
<1>2. e.pc # "write" /\ e.pc # "add" /\ e.victim = NoCall
  BY DEF IdleCaller
<1> HIDE DEF e
<1>3. CallersStay
  BY <1>1, <1>2, IdleStays
<1>4. DefsStay /\ RowsStay /\ ThreadStays /\ CallsStay
  BY <1>1, NothingElse DEF Reaffirm, Changed, Bound
<1> QED
  BY <1>3, <1>4, AsideSettles

LEMMA CallerStoresSettles ==
  ASSUME SchedInv, RowInv, Typed, Typed', NEW c \in Caller, CallerStores(c)
  PROVE  RowInv'
<1> DEFINE s == caller[c].s
<1>1. /\ caller \in [Caller -> Callers] /\ row \in [Sched -> Rows] /\ s \in Sched
      /\ caller[c].pc \in {"delete", "storeOn", "storeOff"} /\ caller' = [caller EXCEPT ![c] = IdleCaller]
      /\ IdleCaller.pc = "idle" /\ IdleCaller.victim = NoCall
  BY DEF SchedInv, Shape, Rows, CallerStores, IdleCaller, Typed
<1>2. CallersStay
  BY <1>1, IdleStays
<1>3. RowsStay
  <2>1. CASE row' = [row EXCEPT ![s] = [there |-> FALSE, next |-> 0, on |-> FALSE]]
    BY <1>1, <2>1 DEF RowsStay, CallerStores
  <2>2. CASE row' = [row EXCEPT ![s].on = row[s].there /\ caller[c].pc = "storeOn"]
    <3> DEFINE v == row[s].there /\ caller[c].pc = "storeOn"
               e == [row[s] EXCEPT !.on = v]
    <3>1. row' = [row EXCEPT ![s] = e] /\ e.there = row[s].there /\ e.next = row[s].next
      BY <1>1, <2>2 DEF Rows
    <3> HIDE DEF e
    <3> QED
      BY <1>1, <3>1 DEF RowsStay, CallerStores
  <2> QED
    BY <2>1, <2>2 DEF CallerStores
<1>4. DefsStay /\ ThreadStays /\ CallsStay
  BY NothingElse DEF CallerStores
<1> QED
  BY <1>2, <1>3, <1>4, AsideSettles

(* Future.cancel ends an invocation whose definition is gone, or that a      *)
(* shutdown cancels.                                                        *)
LEMMA CancelStays ==
  ASSUME SchedInv, NEW m, Cancel(m),
         m \in Call => stopping' \/ (call[m].st # "free" => call[m].gen # generation[call[m].s])
  PROVE  CallsStay
<1>1. call \in [Call -> Calls] /\ Range(queue) \subseteq Call /\ \A n \in Range(queue) : call[n].st = "queued"
  BY DEF SchedInv, Shape, Queued, Range
<1>2. CASE m \in Range(queue)
  <2>1. /\ call'[m].st = "cancelled" /\ call[m].st = "queued" /\ m \in Call
        /\ call'[m].s = call[m].s /\ call'[m].gen = call[m].gen
        /\ call'[m].occ = call[m].occ /\ call'[m].next = call[m].next
        /\ \A n \in Call \ {m} : call'[n] = call[n]
    BY <1>1, <1>2, CallMoves DEF Cancel
  <2> QED
    BY <2>1 DEF CallsStay, Same
<1>3. CASE m \notin Range(queue)
  BY <1>3 DEF Cancel, CallsStay, Same
<1> QED
  BY <1>2, <1>3

LEMMA CallerCancelsSettles ==
  ASSUME SchedInv, RowInv, Typed, Typed', NEW c \in Caller, CallerCancels(c)
  PROVE  RowInv'
<1> DEFINE e == IF caller[c].then = "idle" THEN IdleCaller
                ELSE [IdleCaller EXCEPT !.pc = caller[c].then, !.s = caller[c].s]
           m == caller[c].victim
<1>1. /\ caller \in [Caller -> Callers] /\ caller[c].pc = "cancel" /\ caller' = [caller EXCEPT ![c] = e]
      /\ caller[c].then \in {"idle", "storeOn", "storeOff", "delete"}
  BY DEF SchedInv, Shape, Callers, CallerCancels
<1>2. e.pc # "write" /\ e.pc # "add" /\ e.victim = NoCall
  BY <1>1 DEF IdleCaller
<1> HIDE DEF e
<1>3. CallersStay
  BY <1>1, <1>2, IdleStays
<1>4. CallsStay
  <2>1. m \in Call => (call[m].st # "free" => call[m].gen # generation[call[m].s])
    BY Constant DEF RowInv, Numbers
  <2> QED
    BY <2>1, CancelStays DEF CallerCancels
<1>5. DefsStay /\ RowsStay /\ ThreadStays
  BY NothingElse DEF CallerCancels
<1> QED
  BY <1>3, <1>4, <1>5, AsideSettles

LEMMA CallerWritesSettles ==
  ASSUME SchedInv, SchedInv', RowInv, Typed, Typed', NEW c \in Caller, CallerWrites(c)
  PROVE  RowInv'
<1>1. PICK s \in Sched, next \in Nat : s = caller[c].s /\ next = caller[c].next
  BY DEF Typed
<1>2. /\ caller \in [Caller -> Callers] /\ caller[c].pc = "write" /\ io = c
      /\ PersistNext(s, next) /\ io' = "free"
      /\ UNCHANGED <<clock, generation, due, enabled, counter, stopping, toCancel, thread, call>>
  BY <1>1 DEF SchedInv, Shape, Locks, CallerWrites
<1>3. generation[s] # 0 /\ next <= due[s]
  BY <1>1, <1>2 DEF RowInv, Dates
<1>4. enabled[s] /\ ~stopping => next = due[s] \/ Owed(s)'
  <2>1. enabled[s] /\ ~stopping => next = due[s] \/ Owed(s)
    BY <1>1, <1>2 DEF RowInv, Settling
  <2>2. Owed(s) => Owed(s)'
    BY <1>2 DEF Owed
  <2> QED
    BY <2>1, <2>2
<1>5. \A x \in Sched \ {s} : ~Written(x)
  <2>1. /\ \A d \in Caller : caller[d].pc = "write" => d = c
        /\ \A n \in Call : call[n].st # "writing"
    BY <1>2, Constant DEF SchedInv, Locks
  <2> QED
    BY <1>1, <2>1 DEF Written
<1>6. \A d \in Caller : caller'[d] = caller[d] \/ (caller'[d].pc # "add" /\ caller'[d].victim = caller[d].victim)
  <2> DEFINE e == [caller[c] EXCEPT !.pc = "cancel"]
  <2>1. caller' = [caller EXCEPT ![c] = e] /\ e.pc = "cancel" /\ e.victim = caller[c].victim
    BY <1>2 DEF CallerWrites, Callers
  <2> HIDE DEF e
  <2> QED
    BY <1>2, <2>1
<1>7. used.threads = 0 =>
            /\ \A d \in thread.calls : d.s = s /\ d.gen = generation[s] /\ d.next = due[s] => next <= d.occ
            /\ \A n \in Call : call[n].st \in {"queued", "started"} /\ call[n].s = s
                  /\ call[n].gen = generation[s] /\ call[n].next = due[s] => next <= call[n].occ
  BY <1>1, <1>2 DEF RowInv, Covered, Behind
<1>8. /\ thread'.resched \subseteq thread.resched /\ thread'.item \subseteq thread'.resched
      /\ \A r \in thread.resched : r \in thread'.resched \/ r.s = s
      /\ thread'.calls = thread.calls
      /\ \A n \in Call : call'[n] = call[n] \/ (call'[n].st = "returned" /\ call[n].st = "writing" /\ Same(n))
  BY <1>2 DEF RowInv, Numbers
<1> QED
  BY <1>2, <1>3, <1>4, <1>5, <1>6, <1>7, <1>8, Wrote

(* The thread.                                                               *)
LEMMA ThreadEndsSettles ==
  ASSUME SchedInv, RowInv, Typed, Typed', ThreadEnds
  PROVE  RowInv'
<1>1. thread \in Threads
  BY ThreadTyped DEF SchedInv
<1>2. thread'.resched = thread.resched /\ thread'.calls = thread.calls /\ thread'.item = thread.item
  BY <1>1 DEF ThreadEnds, Threads
<1>3. ThreadStays
  BY <1>2 DEF ThreadStays, RowInv, Numbers
<1>4. DefsStay /\ RowsStay /\ CallsStay /\ CallersStay
  BY NothingElse DEF ThreadEnds
<1> QED
  BY <1>3, <1>4, AsideSettles

LEMMA CheckRescheduleSettles ==
  ASSUME SchedInv, RowInv, Typed, Typed', NEW r \in thread.resched, CheckReschedule(r)
  PROVE  RowInv'
<1>1. thread \in Threads /\ thread.pc = "work" /\ thread.item = {} /\ r.gen \in 1..counter /\ counter \in Nat
  BY ThreadTyped DEF SchedInv, Lists, CheckReschedule, RowInv, Numbers, Typed
<1>2. ThreadStays
  <2>1. CASE Current(r.s, r.gen)
    <3>1. thread'.resched = thread.resched /\ thread'.calls = thread.calls /\ thread'.item = {r}
      BY <1>1, <2>1 DEF CheckReschedule, Threads
    <3> QED
      BY <3>1 DEF ThreadStays
  <2>2. CASE ~Current(r.s, r.gen)
    <3> DEFINE t == [thread EXCEPT !.resched = @ \ {r}]
    <3>1. t \in Threads /\ t.item = {} /\ t.calls = thread.calls /\ t.resched = thread.resched \ {r}
      BY <1>1, ThreadTyped DEF Threads, SchedInv
    <3>2. thread' = Onward(t)
      BY <2>2 DEF CheckReschedule
    <3> HIDE DEF t
    <3>3. thread'.item = {} /\ thread'.calls = thread.calls /\ thread'.resched = thread.resched \ {r}
      BY <3>1, <3>2, OnwardKeeps
    <3>4. r.gen # generation[r.s]
      BY <1>1, <2>2 DEF Current
    <3> QED
      BY <3>3, <3>4 DEF ThreadStays
  <2> QED
    BY <2>1, <2>2
<1>3. DefsStay /\ RowsStay /\ CallsStay /\ CallersStay
  BY NothingElse DEF CheckReschedule
<1> QED
  BY <1>2, <1>3, AsideSettles

LEMMA WriteRescheduleSettles ==
  ASSUME SchedInv, SchedInv', RowInv, Typed, Typed', WriteReschedule
  PROVE  RowInv'
<1>1. thread \in Threads /\ thread.pc = "write" /\ io = "thread" /\ io' = "free"
  BY ThreadTyped DEF SchedInv, WriteReschedule, Locks
<1>2. PICK r \in thread.item :
        /\ PersistNext(r.s, r.next)
        /\ thread' = Onward([thread EXCEPT !.pc = "work", !.resched = @ \ {r}, !.item = {}])
  BY DEF WriteReschedule
<1>3. /\ r \in thread.resched /\ r.gen = generation[r.s] /\ generation[r.s] # 0
      /\ r.s \in Sched /\ r.next \in Nat /\ r.next = due[r.s]
  BY <1>1 DEF SchedInv, WriterIsCurrent, Current, RowInv, Numbers, Dates, Typed
<1>4. thread'.item = {} /\ thread'.calls = thread.calls /\ thread'.resched = thread.resched \ {r}
  <2> DEFINE t == [thread EXCEPT !.pc = "work", !.resched = @ \ {r}, !.item = {}]
  <2>1. t \in Threads /\ t.item = {} /\ t.calls = thread.calls /\ t.resched = thread.resched \ {r}
    BY <1>1, ThreadTyped DEF Threads, SchedInv
  <2>2. thread' = Onward(t)
    BY <1>2
  <2> HIDE DEF t
  <2> QED
    BY <2>1, <2>2, OnwardKeeps
<1>5. /\ thread'.resched \subseteq thread.resched /\ thread'.item \subseteq thread'.resched
      /\ \A q \in thread.resched : q \in thread'.resched \/ q.s = r.s
  BY <1>4
<1>6. \A x \in Sched \ {r.s} : ~Written(x)
  BY <1>1, Constant DEF SchedInv, Locks, Written
<1>7. used.threads = 0 =>
            /\ \A d \in thread.calls : d.s = r.s /\ d.gen = generation[r.s] /\ d.next = due[r.s] => r.next <= d.occ
            /\ \A n \in Call : call[n].st \in {"queued", "started"} /\ call[n].s = r.s
                  /\ call[n].gen = generation[r.s] /\ call[n].next = due[r.s] => r.next <= call[n].occ
  <2>1. ASSUME NEW occ, NEW next, Behind(r.s, occ, next) PROVE next # due[r.s]
    <3>1. next < due[r.s]
      BY <1>3, <2>1 DEF Behind
    <3>2. due[r.s] \in Nat
      BY <1>3 DEF Typed
    <3> QED
      BY <3>1, <3>2
  <2>2. ASSUME used.threads = 0, NEW d \in thread.calls, d.s = r.s, d.gen = generation[r.s], d.next = due[r.s]
        PROVE  FALSE
    BY <2>1, <2>2 DEF RowInv, Covered
  <2>3. ASSUME used.threads = 0, NEW n \in Call, call[n].st \in {"queued", "started"}, call[n].s = r.s,
               call[n].gen = generation[r.s], call[n].next = due[r.s]
        PROVE  FALSE
    BY <2>1, <2>3 DEF RowInv, Covered
  <2> QED
    BY <2>2, <2>3
<1>8. /\ \A n \in Call : call'[n] = call[n] \/ (call'[n].st = "returned" /\ call[n].st = "writing" /\ Same(n))
      /\ \A d \in Caller : caller'[d] = caller[d]
               \/ (caller'[d].pc # "add" /\ caller'[d].victim = caller[d].victim)
      /\ UNCHANGED <<clock, generation, due, enabled, counter, stopping, toCancel>>
  BY DEF WriteReschedule
<1>9. r.next <= due[r.s]
  BY <1>3
<1> QED
  BY <1>1, <1>2, <1>3, <1>4, <1>5, <1>6, <1>7, <1>8, <1>9, Wrote

LEMMA SubmitSettles ==
  ASSUME SchedInv, RowInv, Typed, Typed', NEW d \in thread.calls, Submit(d) \/ SubmitRaises(d)
  PROVE  RowInv'
<1>1. thread \in Threads /\ thread.pc = "work" /\ thread.item = {} /\ thread.resched = {} /\ d \in Dispatches
  BY ThreadTyped DEF SchedInv, Lists, Submit, SubmitRaises
<1>2. thread'.item = {} /\ thread'.calls = thread.calls \ {d} /\ thread'.resched = thread.resched
  <2> DEFINE t == [thread EXCEPT !.calls = @ \ {d}]
  <2>1. t \in Threads /\ t.item = {} /\ t.calls = thread.calls \ {d} /\ t.resched = thread.resched
    BY <1>1, ThreadTyped DEF Threads, SchedInv
  <2>2. thread' = Onward(t)
    BY DEF Submit, SubmitRaises, Submitted
  <2> HIDE DEF t
  <2> QED
    BY <2>1, <2>2, OnwardKeeps
<1>3. \/ stopping /\ Submit(d) /\ UNCHANGED call
      \/ \E n \in Unused : Enqueued(n, d)
  BY DEF Submit, SubmitRaises
<1>4. ThreadStays /\ CallsStay
  <2>1. CASE stopping /\ Submit(d) /\ UNCHANGED call
    <3>1. CallsStay
      BY <2>1, NothingElse
    <3>2. ThreadStays
      BY <1>1, <1>2, <2>1 DEF ThreadStays, Submit
    <3> QED
      BY <3>1, <3>2
  <2>2. CASE \E n \in Unused : Enqueued(n, d)
    <3>1. PICK n \in Unused : Enqueued(n, d)
      BY <2>2
    <3>2. /\ n \in Call /\ call[n].st = "free" /\ Carries(n, d)'
          /\ \A m \in Call \ {n} : call'[m] = call[m]
      BY <1>1, <3>1, EnqueuedCall DEF Carries
    <3>3. \A c \in Caller : caller'[c].victim # n
      BY <3>1 DEF Unused, Submit, SubmitRaises
    <3>4. ASSUME NEW m \in Call, m # n PROVE Same(m) /\ call'[m].st = call[m].st
      BY <3>2, <3>4 DEF Same
    <3>5. CallsStay
      BY <3>2, <3>3, <3>4 DEF CallsStay, Owing
    <3>6. ThreadStays
      BY <1>1, <1>2, <3>2 DEF ThreadStays
    <3> QED
      BY <3>5, <3>6
  <2> QED
    BY <1>3, <2>1, <2>2
<1>5. CallersStay
  BY NothingElse DEF Submit, SubmitRaises
<1>6. RowsStay
  BY DEF RowsStay, Submit, SubmitRaises
<1>7. DefsStay
  <2>1. CASE Submit(d)
    BY <2>1, NothingElse DEF Submit
  <2>2. CASE SubmitRaises(d)
    <3>1. used \in Bound /\ used' = [used EXCEPT !.threads = used.threads + 1]
      BY <2>2 DEF SubmitRaises, SchedInv, Shape, Bound
    <3>2. used'.threads = used.threads + 1
      BY <3>1 DEF Bound
    <3> QED
      BY <2>2, <3>2 DEF SubmitRaises, DefsStay, Typed, RowInv, Numbers
  <2> QED
    BY <2>1, <2>2
<1> QED
  BY <1>4, <1>5, <1>6, <1>7, AsideSettles

(* The pool.                                                                 *)
LEMMA GoesStays ==
  ASSUME SchedInv, NEW n \in Call, NEW to \in {"started", "calling", "finishing", "returned"}, Goes(n, to),
         call[n].st \in {"queued", "started", "calling", "finishing"},
         to = "started" => call[n].st = "queued",
         to = "returned" => stopping \/ call[n].gen # generation[call[n].s] \/ ~enabled[call[n].s],
         stopping' = stopping
  PROVE  CallsStay
<1>1. /\ call'[n].st = to /\ Same(n) /\ \A m \in Call \ {n} : call'[m] = call[m]
  <2>1. call \in [Call -> Calls]
    BY DEF SchedInv, Shape
  <2> QED
    BY <2>1, CallMoves DEF Goes, Same
<1>2. ASSUME NEW m \in Call, m # n PROVE Same(m) /\ call'[m].st = call[m].st
  BY <1>1, <1>2 DEF Same
<1> QED
  BY <1>1, <1>2 DEF CallsStay, Owing

LEMMA PoolSettles ==
  ASSUME SchedInv, RowInv, Typed, Typed', NEW n \in Call,
         Take(n) \/ Check(n) \/ CallbackEnds(n) \/ Retire(n)
  PROVE  RowInv'
<1>1. DefsStay /\ RowsStay /\ ThreadStays /\ CallersStay
  BY NothingElse DEF Take, Check, CallbackEnds, Retire
<1>2. CASE Take(n)
  <2>1. call[n].st = "queued"
    <3>1. n \in Range(queue)
      BY <1>2, TailOfQueue DEF Take, SchedInv, Shape
    <3> QED
      BY <3>1 DEF SchedInv, Queued
  <2>2. CallsStay
    BY <1>2, <2>1, GoesStays DEF Take
  <2> QED
    BY <1>1, <2>2, AsideSettles
<1>3. CASE Check(n)
  <2>1. call[n].st # "free" /\ call[n].gen # 0
    BY <1>3 DEF Check, RowInv, Numbers, Typed
  <2>2. CASE ~stopping /\ Current(call[n].s, call[n].gen) /\ enabled[call[n].s]
    <3>1. CallsStay
      BY <1>3, <2>2, GoesStays DEF Check
    <3> QED
      BY <1>1, <3>1, AsideSettles
  <2>3. CASE ~(~stopping /\ Current(call[n].s, call[n].gen) /\ enabled[call[n].s])
    <3>1. stopping \/ call[n].gen # generation[call[n].s] \/ ~enabled[call[n].s]
      BY <2>1, <2>3 DEF Current
    <3>2. CallsStay
      BY <1>3, <2>3, <3>1, GoesStays DEF Check
    <3> QED
      BY <1>1, <3>2, AsideSettles
  <2> QED
    BY <2>2, <2>3
<1>4. CASE CallbackEnds(n)
  <2>1. CallsStay
    BY <1>4, GoesStays DEF CallbackEnds
  <2> QED
    BY <1>1, <2>1, AsideSettles
<1>5. CASE Retire(n)
  <2>1. call \in [Call -> Calls] /\ FreeCall.st = "free"
    BY Fresh DEF SchedInv, Shape
  <2>2. /\ call'[n].st = "free" /\ call[n].st \in {"returned", "cancelled"}
        /\ \A m \in Call \ {n} : call'[m] = call[m]
    BY <1>5, <2>1 DEF Retire
  <2>3. ASSUME NEW m \in Call, m # n PROVE Same(m) /\ call'[m].st = call[m].st
    BY <2>2, <2>3 DEF Same
  <2>4. CallsStay
    BY <2>2, <2>3 DEF CallsStay, Owing
  <2> QED
    BY <1>1, <2>4, AsideSettles
<1> QED
  BY <1>2, <1>3, <1>4, <1>5

(* On its completion an invocation takes the lock to write the due time that *)
(* its definition has now.                                                  *)
LEMMA CaptureNextSettles ==
  ASSUME SchedInv, SchedInv', RowInv, Typed, Typed', NEW n \in Call, CaptureNext(n)
  PROVE  RowInv'
<1>1. /\ call[n].st = "finishing" /\ io = "free" /\ call[n].gen # 0 /\ call[n].s \in Sched
      /\ call \in [Call -> Calls] /\ due \in [Sched -> Times]
      /\ UNCHANGED <<clock, generation, due, enabled, counter, stopping, toCancel, thread, caller, row, late, used>>
  <2>1. call[n].st = "finishing" /\ io = "free" /\ call \in [Call -> Calls] /\ due \in [Sched -> Times]
    BY DEF CaptureNext, SchedInv, Shape
  <2>2. call[n].gen # 0 /\ call[n].s \in Sched
    BY <2>1 DEF RowInv, Numbers, Typed
  <2>3. UNCHANGED <<clock, generation, due, enabled, counter, stopping, toCancel, thread, caller, row, late, used>>
    BY DEF CaptureNext
  <2> QED
    BY <2>1, <2>2, <2>3
<1>2. CASE ~(Current(call[n].s, call[n].gen) /\ enabled[call[n].s])
  <2>1. Goes(n, "returned") /\ (call[n].gen # generation[call[n].s] \/ ~enabled[call[n].s])
    BY <1>1, <1>2 DEF CaptureNext, Current
  <2>2. CallsStay
    BY <1>1, <2>1, GoesStays
  <2>3. DefsStay /\ RowsStay /\ ThreadStays /\ CallersStay
    BY <1>1, NothingElse
  <2> QED
    BY <2>2, <2>3, AsideSettles
<1>3. CASE Current(call[n].s, call[n].gen) /\ enabled[call[n].s]
  <2> DEFINE s == call[n].s
             e == [call[n] EXCEPT !.st = "writing", !.next = due[s]]
  <2>1. /\ e.st = "writing" /\ e.s = s /\ e.gen = call[n].gen /\ e.next = due[s]
        /\ call' = [call EXCEPT ![n] = e]
    BY <1>1, <1>3 DEF CaptureNext, Calls
  <2>2. /\ call'[n].st = "writing" /\ call'[n].s = s /\ call'[n].gen = call[n].gen /\ call'[n].next = due[s]
        /\ \A m \in Call \ {n} : call'[m] = call[m]
    <3> HIDE DEF e
    <3> QED
      BY <1>1, <2>1
  <2>3. generation[s] # 0 /\ generation[s] = call[n].gen /\ s \in Sched
    BY <1>1, <1>3 DEF Current
  <2> HIDE DEF e
  <2>4. /\ \A d \in Caller : caller[d].pc # "write"
        /\ \A m \in Call : call[m].st # "writing"
    BY <1>1, Constant DEF SchedInv, Locks
  <2>5. Numbers'
    <3>1. \A m \in Call : /\ call'[m].gen = call[m].gen /\ call'[m].s = call[m].s
                          /\ call'[m].st # "free" <=> call[m].st # "free"
      BY <1>1, <2>2
    <3>2. \A d \in Caller : LET m == caller[d].victim IN
             m # NoCall /\ call'[m].st # "free" => call'[m].gen # generation[call'[m].s]
      BY <3>1 DEF RowInv, Numbers, Typed
    <3> QED
      BY <1>1, <3>1, <3>2 DEF RowInv, Numbers
  <2>6. Dates'
    <3>1. \A m \in Call : call'[m].st = "writing" =>
             generation[call'[m].s] # 0 /\ call'[m].next <= due[call'[m].s]
      BY <1>1, <2>2, <2>3, <2>4 DEF Typed
    <3> QED
      BY <1>1, <3>1 DEF RowInv, Dates
  <2>7. Adding'
    BY <1>1 DEF RowInv, Adding
  <2>8. ASSUME NEW x \in Sched \ {s}, Owed(x) PROVE Owed(x)'
    BY <1>1, <2>2, <2>8 DEF Owed
  <2>9. Settling'
    <3>1. ASSUME ~stopping', NEW x \in Sched, row'[x].there, enabled'[x], x \notin late'
          PROVE  row'[x].next = due'[x] \/ Owed(x)' \/ Written(x)'
      <4>1. row[x].next = due[x] \/ Owed(x) \/ Written(x)
        BY <1>1, <3>1 DEF RowInv, Settling
      <4>2. CASE x = s
        BY <2>2, <4>2 DEF Written
      <4>3. CASE x # s
        BY <1>1, <2>4, <2>8, <4>1, <4>3 DEF Written
      <4> QED
        BY <4>2, <4>3
    <3>2. \A m \in Call : call'[m].st = "writing" => call'[m].next = due'[call'[m].s]
      BY <1>1, <2>2, <2>4
    <3> QED
      BY <1>1, <2>4, <3>1, <3>2 DEF Settling
  <2>10. Covered'
    <3>1. ASSUME NEW x \in Sched, NEW occ, NEW next, Behind(x, occ, next) PROVE Behind(x, occ, next)'
      BY <1>1, <3>1 DEF Behind
    <3>2. ASSUME used.threads = 0, NEW d \in thread.calls, d.gen = generation[d.s]
          PROVE  Behind(d.s, d.occ, d.next)'
      BY <3>1, <3>2 DEF RowInv, Covered, Typed
    <3>3. ASSUME used.threads = 0, NEW m \in Call, call'[m].st \in {"queued", "started"},
                 call'[m].gen = generation[call'[m].s]
          PROVE  Behind(call[m].s, call[m].occ, call[m].next)'
      <4>1. call'[m] = call[m]
        BY <2>2, <3>3
      <4>2. PICK x \in Sched, o \in Nat, y \in Nat : x = call[m].s /\ o = call[m].occ /\ y = call[m].next
        BY DEF Typed
      <4>3. Behind(x, o, y)
        BY <3>3, <4>1, <4>2 DEF RowInv, Covered
      <4>4. Behind(x, o, y)'
        BY <3>1, <4>3
      <4> QED
        BY <4>1, <4>2, <4>4 DEF Behind
    <3> QED
      BY <1>1, <3>2, <3>3 DEF Covered
  <2> QED
    BY <2>5, <2>6, <2>7, <2>9, <2>10 DEF RowInv
<1> QED
  BY <1>2, <1>3

(* It writes what it captured; while worker threads can be started no other  *)
(* occurrence of its schedule waits then, for it is the registered one.      *)
LEMMA WriteNextSettles ==
  ASSUME SchedInv, SchedInv', RowInv, Typed, Typed', NEW n \in Call, WriteNext(n)
  PROVE  RowInv'
<1>1. PICK s \in Sched, next \in Nat : s = call[n].s /\ next = call[n].next
  BY DEF Typed
<1>2. /\ call \in [Call -> Calls] /\ call[n].st = "writing" /\ io = n
      /\ PersistNext(s, next) /\ io' = "free" /\ Goes(n, "returned")
      /\ UNCHANGED <<clock, generation, due, enabled, counter, stopping, toCancel, thread, caller>>
  BY <1>1 DEF SchedInv, Shape, Locks, WriteNext
<1>3. /\ call'[n].st = "returned" /\ Same(n)
      /\ \A m \in Call \ {n} : call'[m] = call[m]
  BY <1>2, CallMoves DEF Goes, Same
<1>4. generation[s] # 0 /\ next <= due[s]
  BY <1>1, <1>2 DEF RowInv, Dates
<1>5. enabled[s] /\ ~stopping => next = due[s] \/ Owed(s)'
  <2>1. enabled[s] /\ ~stopping => next = due[s] \/ Owed(s)
    BY <1>1, <1>2 DEF RowInv, Settling
  <2>2. \A m \in Call : call[m].st \in Owing => call'[m] = call[m]
    BY <1>2, <1>3 DEF Owing
  <2>3. Owed(s) => Owed(s)'
    BY <1>2, <2>2 DEF Owed
  <2> QED
    BY <2>1, <2>3
<1>6. \A x \in Sched \ {s} : ~Written(x)
  <2>1. /\ \A d \in Caller : caller[d].pc # "write"
        /\ \A m \in Call : call[m].st = "writing" => m = n
    BY <1>2, Constant DEF SchedInv, Locks
  <2> QED
    BY <1>1, <2>1 DEF Written
<1>7. used.threads = 0 =>
            /\ \A d \in thread.calls : d.s = s /\ d.gen = generation[s] /\ d.next = due[s] => next <= d.occ
            /\ \A m \in Call : call[m].st \in {"queued", "started"} /\ call[m].s = s
                  /\ call[m].gen = generation[s] /\ call[m].next = due[s] => next <= call[m].occ
  <2> SUFFICES ASSUME used.threads = 0
               PROVE  /\ \A d \in thread.calls : d.s # s
                      /\ \A m \in Call : ~(call[m].st \in {"queued", "started"} /\ call[m].s = s)
    OBVIOUS
  <2>1. future[s] = n /\ n # NoCall
    BY <1>1, <1>2, Constant DEF SchedInv, Registered
  <2> QED
    BY <1>2, <2>1 DEF SchedInv, Registered
<1>8. /\ thread'.resched \subseteq thread.resched /\ thread'.item \subseteq thread'.resched
      /\ \A r \in thread.resched : r \in thread'.resched \/ r.s = s
      /\ thread'.calls = thread.calls
      /\ \A d \in Caller : caller'[d] = caller[d]
               \/ (caller'[d].pc # "add" /\ caller'[d].victim = caller[d].victim)
  BY <1>2 DEF RowInv, Numbers
<1>9. \A m \in Call : call'[m] = call[m] \/ (call'[m].st = "returned" /\ call[m].st = "writing" /\ Same(m))
  BY <1>2, <1>3
<1> QED
  BY <1>2, <1>4, <1>5, <1>6, <1>7, <1>8, <1>9, Wrote

(* The shutdown, the clock, and a step that changes nothing.                 *)
LEMMA ShutdownSettles ==
  ASSUME SchedInv, RowInv, Typed, Typed',
         BeginShutdown \/ (\E n \in toCancel : CancelOne(n)) \/ ShutdownExecutor \/ Drained \/ Tick
           \/ UNCHANGED vars
  PROVE  RowInv'
<1>1. RowsStay /\ ThreadStays /\ CallersStay
  BY NothingElse DEF BeginShutdown, CancelOne, ShutdownExecutor, Drained, Tick, vars
<1>2. CASE BeginShutdown \/ Drained \/ Tick \/ UNCHANGED vars
  <2>1. CallsStay
    BY <1>2, NothingElse DEF BeginShutdown, Drained, Tick, vars
  <2>2. DefsStay
    BY <1>2 DEF BeginShutdown, Drained, Tick, vars, DefsStay, RowInv, Numbers, Typed
  <2> QED
    BY <1>1, <2>1, <2>2, AsideSettles
<1>3. ASSUME NEW n \in toCancel, CancelOne(n) PROVE RowInv'
  <2>1. stopping /\ stopping' = stopping /\ toCancel' \subseteq toCancel
    BY <1>3 DEF CancelOne, RowInv, Numbers
  <2>2. CallsStay
    BY <1>3, <2>1, CancelStays DEF CancelOne
  <2>3. DefsStay
    BY <1>3, <2>1 DEF CancelOne, DefsStay, Typed
  <2> QED
    BY <1>1, <2>2, <2>3, AsideSettles
<1>4. CASE ShutdownExecutor
  <2>1. DefsStay /\ stopping /\ stopping'
    BY <1>4, NothingElse DEF ShutdownExecutor
  <2>2. ASSUME NEW m \in Call
        PROVE  /\ Same(m)
               /\ call'[m].st = call[m].st \/ (call'[m].st = "cancelled" /\ call[m].st = "queued")
    <3>1. call \in [Call -> Calls] /\ \A k \in Range(queue) : call[k].st = "queued"
      BY DEF SchedInv, Shape, Queued
    <3>2. call'[m] = IF m \in Range(queue) THEN [call[m] EXCEPT !.st = "cancelled"] ELSE call[m]
      BY <1>4 DEF ShutdownExecutor
    <3> QED
      BY <3>1, <3>2 DEF Same, Calls
  <2>3. CallsStay
    BY <2>1, <2>2 DEF CallsStay
  <2> QED
    BY <1>1, <2>1, <2>3, AsideSettles
<1> QED
  BY <1>2, <1>3, <1>4

(* One scan moves the due times on: what it fires is dispatched, or its new  *)
(* due time is to be persisted.                                              *)
LEMMA ScanSettles ==
  ASSUME SchedInv, RowInv, Typed, Typed', Scan
  PROVE  RowInv'
<1>1. /\ thread.calls = {} /\ thread.resched = {}
      /\ UNCHANGED <<clock, stopping, toCancel, call, caller, row, late>>
  BY DEF Scan, SchedInv, Lists
<1> DEFINE following == clock + Period
           fired(bad) == DueSchedules \ bad
           t(bad) == [pc |-> "work", item |-> {},
                      resched |-> {Pending(s, generation[s], following) : s \in fired(bad) \cap running},
                      calls |-> {Dispatch(s, generation[s], due[s], following) : s \in fired(bad) \ running}]
<1>2. PICK bad \in {{}} \cup {{s} : s \in DueSchedules} :
        /\ used' = [used EXCEPT !.faults = used.faults + Cardinality(bad)]
        /\ due' = [s \in Sched |-> IF s \in fired(bad) THEN following ELSE due[s]]
        /\ enabled' = [s \in Sched |-> enabled[s] /\ s \notin bad]
        /\ counter' = counter + Cardinality(bad)
        /\ generation' = [s \in Sched |-> IF s \in bad THEN counter + 1 ELSE generation[s]]
        /\ thread' = Onward(t(bad))
  BY DEF Scan
<1>3. used'.threads = used.threads
  BY <1>2 DEF SchedInv, Shape
<1>4. /\ counter' = counter \/ counter' = counter + 1
      /\ bad # {} => counter' = counter + 1
      /\ counter <= counter'
  <2>1. Cardinality(bad) \in {0, 1} /\ (bad # {} => Cardinality(bad) = 1)
    BY <1>2, FS_EmptySet, FS_Singleton
  <2> QED
    BY <1>2, <2>1 DEF Typed
<1>5. \A s \in DueSchedules : s \in Sched /\ generation[s] # 0 /\ enabled[s] /\ due[s] <= clock
  BY DEF DueSchedules, Loaded
<1>6. following \in Times /\ following \in Nat /\ clock < following
  BY Later DEF SchedInv, Typed
<1>7. t(bad) \in Threads
  <2>1. \A s \in Sched : generation[s] \in Nat /\ due[s] \in Times
    BY DEF SchedInv, Shape
  <2>2. {Pending(s, generation[s], following) : s \in fired(bad) \cap running} \subseteq Items
    BY <1>5, <1>6, <2>1 DEF Pending, Items
  <2>3. {Dispatch(s, generation[s], due[s], following) : s \in fired(bad) \ running} \subseteq Dispatches
    BY <1>5, <1>6, <2>1 DEF Dispatch, Dispatches
  <2> QED
    BY <2>2, <2>3 DEF Threads
<1>8. /\ thread'.item = {}
      /\ thread'.resched = {Pending(s, generation[s], following) : s \in fired(bad) \cap running}
      /\ thread'.calls = {Dispatch(s, generation[s], due[s], following) : s \in fired(bad) \ running}
  BY <1>2, <1>7, OnwardKeeps
<1> DEFINE F == fired(bad)
<1>9. /\ \A s \in F : /\ s \in Sched /\ s \notin bad /\ generation[s] # 0 /\ enabled[s] /\ due[s] <= clock
                     /\ due'[s] = following /\ generation'[s] = generation[s]
      /\ \A s \in Sched \ F : due'[s] = due[s]
      /\ \A s \in Sched \ bad : generation'[s] = generation[s]
      /\ \A s \in bad : s \in Sched /\ generation[s] # 0 /\ generation'[s] = counter + 1
      /\ \A s \in Sched : enabled'[s] => enabled[s] /\ s \notin bad
  BY <1>2, <1>5
<1>10. \A r \in thread'.resched :
          r.s \in F /\ r.s \in running /\ r.gen = generation[r.s] /\ r.next = following
  <2> SUFFICES ASSUME NEW r \in thread'.resched
               PROVE  r.s \in F /\ r.s \in running /\ r.gen = generation[r.s] /\ r.next = following
    OBVIOUS
  <2>1. PICK s \in F \cap running : r = Pending(s, generation[s], following)
    BY <1>8
  <2> HIDE DEF following, F
  <2> QED
    BY <2>1 DEF Pending
<1>11. \A d \in thread'.calls :
          d.s \in F /\ d.s \notin running /\ d.gen = generation[d.s] /\ d.occ = due[d.s] /\ d.next = following
  <2> SUFFICES ASSUME NEW d \in thread'.calls
               PROVE  /\ d.s \in F /\ d.s \notin running /\ d.gen = generation[d.s]
                      /\ d.occ = due[d.s] /\ d.next = following
    OBVIOUS
  <2>1. PICK s \in F \ running : d = Dispatch(s, generation[s], due[s], following)
    BY <1>8
  <2> HIDE DEF following, F
  <2> QED
    BY <2>1 DEF Dispatch
<1>12. \A s \in F : Owed(s)'
  <2> SUFFICES ASSUME NEW s \in F PROVE Owed(s)'
    OBVIOUS
  <2>1. CASE s \in running
    <3>1. Pending(s, generation[s], following) \in thread'.resched
      BY <1>8, <2>1
    <3>2. Pending(s, generation[s], following).s = s /\ Pending(s, generation[s], following).gen = generation[s]
      BY DEF Pending
    <3> QED
      BY <1>9, <3>1, <3>2 DEF Owed
  <2>2. CASE s \notin running
    <3>1. Dispatch(s, generation[s], due[s], following) \in thread'.calls
      BY <1>8, <2>2
    <3>2. /\ Dispatch(s, generation[s], due[s], following).s = s
          /\ Dispatch(s, generation[s], due[s], following).gen = generation[s]
      BY DEF Dispatch
    <3> QED
      BY <1>9, <3>1, <3>2 DEF Owed
  <2> QED
    BY <2>1, <2>2
<1>f. following = clock + Period
  OBVIOUS
<1> HIDE DEF F, following, t, fired
<1>13. \A s \in Sched : generation[s] # 0 => generation'[s] # 0 /\ due[s] <= due'[s]
  BY <1>6, <1>9 DEF Typed
<1>14. \A s \in Sched : generation[s] = 0 => generation'[s] = 0
  BY <1>9
<1>15. \A n \in Call : call[n].st # "free" /\ call[n].gen = generation'[call[n].s]
          => call[n].s \notin bad /\ call[n].gen = generation[call[n].s]
  BY <1>9 DEF RowInv, Numbers, Typed
<1>16. Numbers'
  <2>1. \A s \in F : generation[s] \in 1..counter'
    BY <1>4, <1>9 DEF Typed
  <2>2. \A g \in 1..counter : g \in 1..counter'
    BY <1>4 DEF Typed
  <2>3. ASSUME NEW c \in Caller, caller'[c].victim # NoCall, call'[caller'[c].victim].st # "free"
        PROVE  call'[caller'[c].victim].gen # generation'[call'[caller'[c].victim].s]
    <3>1. PICK n \in Call : n = caller[c].victim
      BY <1>1, <2>3 DEF Typed
    <3>2. call[n].gen # generation[call[n].s]
      BY <1>1, <2>3, <3>1 DEF RowInv, Numbers
    <3> QED
      BY <1>1, <1>15, <2>3, <3>1, <3>2
  <2>4. \A s \in Sched : enabled'[s] => generation'[s] # 0
    BY <1>9, <1>13 DEF RowInv, Numbers
  <2>5. \A r \in thread'.resched : r.gen \in 1..counter'
    BY <1>10, <2>1
  <2>6. \A d \in thread'.calls : d.gen \in 1..counter'
    BY <1>11, <2>1
  <2>7. \A n \in Call : call'[n].st # "free" => call'[n].gen \in 1..counter'
    BY <1>1, <2>2 DEF RowInv, Numbers
  <2> QED
    BY <1>1, <1>8, <2>3, <2>4, <2>5, <2>6, <2>7 DEF RowInv, Numbers
<1>17. Dates'
  <2>1. \A s \in Sched : due'[s] <= clock' + Period /\ row'[s].next <= clock' + Period
    BY <1>1, <1>6, <1>9, <1>f DEF RowInv, Dates
  <2>2. ASSUME NEW s \in Sched, generation'[s] # 0, NEW x \in Nat, x <= due[s] PROVE x <= due'[s]
    BY <1>13, <1>14, <2>2 DEF Typed
  <2>3. \A s \in Sched : generation'[s] # 0 /\ row'[s].there => row'[s].next <= due'[s]
    BY <1>1, <1>14, <2>2 DEF RowInv, Dates, Typed
  <2>4. ASSUME NEW c \in Caller, caller'[c].pc = "write"
        PROVE  generation'[caller'[c].s] # 0 /\ caller'[c].next <= due'[caller'[c].s]
    BY <1>1, <1>13, <2>2, <2>4 DEF RowInv, Dates, Typed
  <2>5. ASSUME NEW n \in Call, call'[n].st = "writing"
        PROVE  generation'[call'[n].s] # 0 /\ call'[n].next <= due'[call'[n].s]
    BY <1>1, <1>13, <2>2, <2>5 DEF RowInv, Dates, Typed
  <2>6. \A r \in thread'.resched : r.gen = generation'[r.s] => r.next = due'[r.s]
    BY <1>9, <1>10
  <2> QED
    BY <2>1, <2>3, <2>4, <2>5, <2>6 DEF Dates
<1>18. Adding'
  BY <1>1, <1>14 DEF RowInv, Adding, Typed
<1>19. ASSUME NEW s \in Sched, enabled'[s], Owed(s) PROVE Owed(s)'
  <2>1. PICK n \in Call : call[n].s = s /\ call[n].gen = generation[s] /\ call[n].st \in Owing
    BY <1>1, <1>19 DEF Owed
  <2> QED
    BY <1>1, <1>9, <1>19, <2>1 DEF Owed
<1>20. Settling'
  <2>1. ASSUME ~stopping', NEW s \in Sched, row'[s].there, enabled'[s], s \notin late'
        PROVE  row'[s].next = due'[s] \/ Owed(s)' \/ Written(s)'
    <3>1. row[s].next = due[s] \/ Owed(s) \/ Written(s)
      BY <1>1, <1>9, <2>1 DEF RowInv, Settling
    <3>2. Written(s) => Written(s)'
      BY <1>1 DEF Written
    <3> QED
      BY <1>1, <1>9, <1>12, <1>19, <2>1, <3>1, <3>2
  <2>2. ASSUME NEW s \in Sched, enabled'[s], NEW x, x = due[s] \/ Owed(s)
        PROVE  x = due'[s] \/ Owed(s)'
    BY <1>9, <1>12, <1>19, <2>2
  <2>3. ASSUME ~stopping', NEW c \in Caller, caller'[c].pc = "write", enabled'[caller'[c].s]
        PROVE  caller'[c].next = due'[caller'[c].s] \/ Owed(caller[c].s)'
    <3>1. PICK s \in Sched : s = caller[c].s
      BY DEF Typed
    <3>2. caller[c].next = due[s] \/ Owed(s)
      BY <1>1, <1>9, <2>3, <3>1 DEF RowInv, Settling
    <3>3. caller[c].next = due'[s] \/ Owed(s)'
      BY <1>1, <2>2, <2>3, <3>1, <3>2
    <3> QED
      BY <1>1, <3>1, <3>3 DEF Owed
  <2>4. ASSUME ~stopping', NEW n \in Call, call'[n].st = "writing", enabled'[call'[n].s]
        PROVE  call'[n].next = due'[call'[n].s] \/ Owed(call[n].s)'
    <3>1. PICK s \in Sched : s = call[n].s
      BY DEF Typed
    <3>2. call[n].next = due[s] \/ Owed(s)
      BY <1>1, <1>9, <2>4, <3>1 DEF RowInv, Settling
    <3>3. call[n].next = due'[s] \/ Owed(s)'
      BY <1>1, <2>2, <2>4, <3>1, <3>2
    <3> QED
      BY <1>1, <3>1, <3>3 DEF Owed
  <2> QED
    BY <2>1, <2>3, <2>4 DEF Settling
<1>21. Covered'
  <2>1. ASSUME NEW d \in thread'.calls PROVE Behind(d.s, d.occ, d.next)'
    <3>1. PICK s \in F : s = d.s /\ s \in Sched /\ s \notin running /\ d.occ = due[s] /\ d.next = due'[s]
      BY <1>9, <1>11
    <3>2. row[s].there => row[s].next <= due[s]
      BY <1>9, <3>1 DEF RowInv, Dates
    <3>3. \A c \in Caller : caller[c].pc = "write" /\ caller[c].s = s => caller[c].next <= due[s]
      BY DEF RowInv, Dates
    <3>4. \A r \in thread'.resched : r.s # s
      BY <1>10, <3>1
    <3>5. due'[s] <= due'[s]
      BY <3>1 DEF Typed
    <3> QED
      BY <1>1, <3>1, <3>2, <3>3, <3>4, <3>5 DEF Behind
  <2>2. ASSUME NEW s \in Sched \ bad, NEW occ \in Nat, NEW next \in Nat, Behind(s, occ, next)
        PROVE  Behind(s, occ, next)'
    <3>1. CASE s \in F
      <4>1. next < due'[s]
        BY <1>6, <1>9, <2>2, <3>1 DEF Behind, Typed
      <4>2. due'[s] \in Nat
        BY <3>1 DEF Typed
      <4> QED
        BY <1>1, <2>2, <4>1, <4>2 DEF Behind
    <3>2. CASE s \notin F
      <4>1. \A r \in thread'.resched : r.s # s
        BY <1>10, <3>2
      <4> QED
        BY <1>1, <1>9, <2>2, <3>2, <4>1 DEF Behind
    <3> QED
      BY <3>1, <3>2
  <2>3. ASSUME used.threads = 0, NEW n \in Call, call[n].st \in {"queued", "started"},
               call[n].gen = generation'[call[n].s]
        PROVE  Behind(call[n].s, call[n].occ, call[n].next)'
    <3>1. PICK s \in Sched \ bad, o \in Nat, y \in Nat : s = call[n].s /\ o = call[n].occ /\ y = call[n].next
      BY <1>15, <2>3 DEF Typed
    <3>2. Behind(s, o, y)
      BY <1>15, <2>3, <3>1 DEF RowInv, Covered
    <3>3. Behind(s, o, y)'
      BY <2>2, <3>2
    <3> QED
      BY <1>1, <3>1, <3>3 DEF Behind
  <2> QED
    BY <1>1, <1>3, <2>1, <2>3 DEF Covered
<1> QED
  BY <1>16, <1>17, <1>18, <1>20, <1>21 DEF RowInv

(* A process that has just started has nothing under way, and every loaded   *)
(* definition is due when its row says.                                     *)
LEMMA StartSettles ==
  ASSUME io' = "free", toCancel' = {}, thread' = Scanning, counter' \in Nat,
         call' = [n \in Call |-> FreeCall], caller' = [c \in Caller |-> IdleCaller],
         \A s \in Sched : /\ due'[s] = row'[s].next /\ row'[s].next \in Nat
                          /\ row'[s].next <= clock' + Period
                          /\ enabled'[s] => generation'[s] # 0
  PROVE  RowInv'
<1>1. /\ \A n \in Call : call'[n].st = "free"
      /\ \A c \in Caller : caller'[c].pc = "idle" /\ caller'[c].victim = NoCall
      /\ thread'.resched = {} /\ thread'.calls = {} /\ thread'.item = {}
  BY DEF FreeCall, IdleCaller, Scanning
<1>2. Numbers' /\ Dates' /\ Adding' /\ Settling' /\ Covered'
  BY <1>1 DEF Numbers, Dates, Adding, Settling, Covered
<1> QED
  BY <1>2 DEF RowInv

LEMMA InitSettles == Init => RowInv
<1> SUFFICES ASSUME Init PROVE RowInv
  OBVIOUS
<1>1. /\ \A n \in Call : call[n].st = "free"
      /\ \A c \in Caller : caller[c].pc = "idle" /\ caller[c].victim = NoCall
      /\ thread.resched = {} /\ thread.calls = {} /\ thread.item = {} /\ toCancel = {}
  BY DEF Init, FreeCall, IdleCaller, Scanning
<1>2. \A s \in Sched : row[s].next = 0 /\ due[s] = 0 /\ generation[s] = 0 /\ ~enabled[s]
  BY DEF Init
<1>3. clock = 0 /\ 0 <= 0 + Period
  BY Constant DEF Init
<1>4. Numbers /\ Dates /\ Adding /\ Settling /\ Covered
  BY <1>1, <1>2, <1>3 DEF Numbers, Dates, Adding, Settling, Covered
<1> QED
  BY <1>4 DEF RowInv

LEMMA RestartSettles ==
  ASSUME RowInv, Typed, Restart
  PROVE  RowInv'
<1> DEFINE rows == {s \in Sched : row[s].there}
<1>1. PICK g \in [Sched -> 0..Cardinality(rows)] :
        /\ \A s \in Sched : g[s] = 0 <=> s \notin rows
        /\ generation' = g /\ counter' = Cardinality(rows)
        /\ due' = [s \in Sched |-> row[s].next]
        /\ enabled' = [s \in Sched |-> row[s].there /\ row[s].on]
  BY DEF Restart
<1>2. counter' \in Nat
  BY <1>1, FS_Subset, FS_CardinalityType, Constant
<1>3. \A s \in Sched : /\ due'[s] = row'[s].next /\ row'[s].next \in Nat
                       /\ row'[s].next <= clock' + Period
                       /\ enabled'[s] => generation'[s] # 0
  BY <1>1 DEF Restart, RowInv, Dates, Typed
<1> QED
  BY <1>2, <1>3, StartSettles DEF Restart

(* The rows' invariant is inductive, relative to the first one.              *)
LEMMA RowStep == SchedInv /\ RowInv /\ [Next]_vars => SchedInv' /\ RowInv'
<1> SUFFICES ASSUME SchedInv, RowInv, [Next]_vars PROVE RowInv'
  BY TypedNext
<1>0. SchedInv' /\ Typed /\ Typed'
  BY TypedNext
<1>1. CASE \E c \in Caller : Command(c) \/ CallerStep(c)
  <2>1. PICK c \in Caller : Command(c) \/ CallerStep(c)
    BY <1>1
  <2>2. CASE Command(c)
    BY <1>0, <2>2, CommandSettles, SaveSettles, ReaffirmSettles DEF Command
  <2>3. CASE CallerStep(c)
    BY <1>0, <2>3, AddSettles, CallerWritesSettles, CallerCancelsSettles, CallerStoresSettles DEF CallerStep
  <2> QED
    BY <2>1, <2>2, <2>3
<1>2. CASE Scan \/ ThreadEnds \/ Rescheduling \/ Submitting
  BY <1>0, <1>2, ScanSettles, ThreadEndsSettles, CheckRescheduleSettles, WriteRescheduleSettles, SubmitSettles
     DEF Rescheduling, Submitting
<1>3. CASE \E n \in Call : CallStep(n)
  BY <1>0, <1>3, PoolSettles, CaptureNextSettles, WriteNextSettles DEF CallStep
<1>4. CASE BeginShutdown \/ ShutdownStep \/ Tick \/ UNCHANGED vars
  BY <1>0, <1>4, ShutdownSettles DEF ShutdownStep
<1>5. CASE Restart
  BY <1>0, <1>5, RestartSettles
<1> QED
  BY <1>1, <1>2, <1>3, <1>4, <1>5 DEF Next

LEMMA RowsAlways == Spec => [](SchedInv /\ RowInv)
<1>1. Init => SchedInv /\ RowInv
  BY InitKeeps, InitSettles
<1>2. (SchedInv /\ RowInv) /\ [Next]_vars => (SchedInv /\ RowInv)'
  BY RowStep
<1> QED
  BY <1>1, <1>2, PTL DEF Spec

(* When nothing of an enabled schedule is under way its row says when it is  *)
(* due: whoever moved its due time, scan, command or callback, has written   *)
(* it or still will; failed submissions included.                            *)
THEOREM SchedulerDurableSettles == Spec => []DurableSettles
<1>1. SchedInv /\ RowInv => DurableSettles
  <2> SUFFICES ASSUME SchedInv, RowInv, NEW s \in Sched, AtRest(s), ~stopping, row[s].there,
                      enabled[s], s \notin late
               PROVE  row[s].next = due[s]
    BY DEF DurableSettles
  <2>1. row[s].next = due[s] \/ Owed(s) \/ Written(s)
    BY DEF RowInv, Settling
  <2>2. ~Written(s)
    BY DEF Written, AtRest
  <2>3. \A d \in thread.calls : d.s # s
    <3> SUFFICES ASSUME NEW d \in thread.calls, d.s = s PROVE FALSE
      OBVIOUS
    <3>1. future[s] # NoCall /\ future[s] = NoCall
      BY DEF SchedInv, Registered, RunningExact, AtRest
    <3> QED
      BY <3>1
  <2>4. ~Owed(s)
    BY <2>3 DEF Owed, Owing, AtRest
  <2> QED
    BY <2>1, <2>2, <2>4
<1> QED
  BY <1>1, RowsAlways, PTL

(* Until a worker thread fails to start, the row of a schedule never passes  *)
(* over an occurrence that still waits to be called, so that a restart makes *)
(* it up, unless a later occurrence was skipped meanwhile.                   *)
THEOREM SchedulerDispatchNotPersisted == Spec => [](used.threads = 0 => DispatchNotPersisted)
<1>1. SchedInv /\ RowInv /\ used.threads = 0 => DispatchNotPersisted
  <2> SUFFICES ASSUME SchedInv, used.threads = 0, RowInv, NEW s \in Sched, NEW w \in Waiting(s),
                      Current(s, w.gen), row[s].there, due[s] = w.next
               PROVE  row[s].next <= w.occ
    BY DEF DispatchNotPersisted
  <2>1. CASE \E d \in thread.calls : d.s = s /\ w = [gen |-> d.gen, occ |-> d.occ, next |-> d.next]
    <3>1. PICK d \in thread.calls : d.s = s /\ w = [gen |-> d.gen, occ |-> d.occ, next |-> d.next]
      BY <2>1
    <3>2. w.gen = d.gen /\ w.occ = d.occ /\ w.next = d.next
      BY <3>1
    <3>3. Behind(s, w.occ, w.next)
      BY <3>1, <3>2 DEF RowInv, Covered, Current
    <3> QED
      BY <3>3 DEF Behind
  <2>2. CASE \E n \in Call : /\ call[n].s = s /\ call[n].st \in {"queued", "started"}
                             /\ w = [gen |-> call[n].gen, occ |-> call[n].occ, next |-> call[n].next]
    <3>1. PICK n \in Call : /\ call[n].s = s /\ call[n].st \in {"queued", "started"}
                            /\ w = [gen |-> call[n].gen, occ |-> call[n].occ, next |-> call[n].next]
      BY <2>2
    <3>2. w.gen = call[n].gen /\ w.occ = call[n].occ /\ w.next = call[n].next
      BY <3>1
    <3>3. Behind(s, w.occ, w.next)
      BY <3>1, <3>2 DEF RowInv, Covered, Current
    <3> QED
      BY <3>3 DEF Behind
  <2> QED
    BY <2>1, <2>2 DEF Waiting
<1> QED
  BY <1>1, RowsAlways, PTL

==============================================================================
