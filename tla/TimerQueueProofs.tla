-------------------------- MODULE TimerQueueProofs --------------------------
(***************************************************************************)
(* Proofs about TimerQueue, for every set of threads, addresses and        *)
(* intervals and any number of timers.                                     *)
(***************************************************************************)
EXTENDS TimerQueue, FiniteSetTheorems, WellFoundedInduction, TLAPS

IsAdd(i) == queue[i].op = "add"
Addr(i) == queue[i].id[1]

(***************************************************************************)
(* A Timer that has not been freed has one owner: timers_, the vector of   *)
(* HandleRead, or the functor that is to add it.                           *)
(***************************************************************************)
OwnedOnce ==
    /\ \A e \in timers_ \cup expired : heap[e[2]] # Null /\ heap[e[2]].exp = e[1]
    /\ \A e \in expired, f \in timers_ : e[2] # f[2]
    /\ \A i \in DOMAIN queue : IsAdd(i) =>
          /\ heap[Addr(i)] # Null /\ heap[Addr(i)].seq = queue[i].id[2]
          /\ \A e \in timers_ \cup expired : e[2] # Addr(i)
    /\ \A i, j \in DOMAIN queue : IsAdd(i) /\ IsAdd(j) /\ Addr(i) = Addr(j) => i = j

\* No two Timers have one sequence, and those to come have a new one.
SeqsUnique ==
    /\ \A a \in Addrs : heap[a] # Null => heap[a].seq < sNumCreated
    /\ \A a, b \in Addrs :
          heap[a] # Null /\ heap[b] # Null /\ heap[a].seq = heap[b].seq => a = b

\* A cancelled timer is freed, or is in the vector and noted for Reset to free it.
CancelNoted ==
    \A s \in 0..MaxSeq : <<s, TRUE>> \in cancelled =>
        /\ s < sNumCreated
        /\ \A a \in Addrs : heap[a] # Null /\ heap[a].seq = s =>
              <<a, s>> \in cancelingTimers_ /\ \E e \in expired : e[2] = a

TimerInv ==
    /\ TypeOK
    /\ IsFiniteSet(timers_) /\ IsFiniteSet(expired)
    /\ expired # {} => callingExpiredTimers_
    /\ activeTimers_ = {<<e[2], heap[e[2]].seq>> : e \in timers_}
    /\ OwnedOnce
    /\ SeqsUnique
    /\ CancelNoted

(***************************************************************************)
(* Minima, maxima and times.                                               *)
(***************************************************************************)
\* A set of numbers that is not empty has a least element.
LEMMA MinNat ==
  ASSUME NEW S, S \subseteq Nat, S # {}
  PROVE  Min(S) \in S /\ \A y \in S : Min(S) <= y
<1>1. PICK x \in S : \A y \in S : ~(<<y, x>> \in OpToRel(<, Nat))
  BY NatLessThanWellFounded, WFMin, Zenon
<1>2. \A y \in S : y \in Nat /\ x \in Nat => ~(y < x)
  BY <1>1, Zenon DEF OpToRel
<1>3. x \in S
  BY <1>1, Zenon
<1>4. \A y \in S : x <= y
  BY <1>2, <1>3
<1> QED
  BY <1>3, <1>4, Zenon DEF Min

\* Min and Max of two numbers.
LEMMA MinMaxOfTwo ==
  ASSUME NEW a \in Int, NEW b \in Int
  PROVE  /\ Min({a, b}) = IF a <= b THEN a ELSE b
         /\ Max({a, b}) = IF a >= b THEN a ELSE b
<1>1. PICK x \in {a, b} : \A y \in {a, b} : x <= y
  OBVIOUS
<1>2. Min({a, b}) \in {a, b} /\ \A y \in {a, b} : Min({a, b}) <= y
  BY <1>1 DEF Min
<1>3. PICK z \in {a, b} : \A y \in {a, b} : z >= y
  OBVIOUS
<1>4. Max({a, b}) \in {a, b} /\ \A y \in {a, b} : Max({a, b}) >= y
  BY <1>3 DEF Max
<1> QED
  BY <1>2, <1>4

\* Times are positive, and reach beyond the clock by every interval.
LEMMA TimesType ==
  /\ Times \subseteq Nat \ {0} /\ Null \notin Times
  /\ \A t \in 0..MaxTime, i \in Intervals : t + i > 0 => t + i \in Times
  /\ \A t \in Times : 1 .. t \subseteq Times
<1>1. Max(Intervals) \in Intervals /\ \A i \in Intervals : i <= Max(Intervals)
  BY TimerQueueAssumption, Zenon DEF Max
<1>2. /\ Max(Intervals) \in Nat /\ MaxTime \in Nat \ {0} /\ Intervals \subseteq Nat
      /\ \A i \in Intervals : i <= Max(Intervals)
  BY <1>1, TimerQueueAssumption, Zenon
<1>3. Times \subseteq Nat \ {0}
  BY <1>2 DEF Times
<1>4. Null \notin Times
  BY <1>3, TimerQueueAssumption, Zenon
<1>5. \A t \in 0..MaxTime, i \in Intervals : t + i > 0 => t + i \in Times
  BY <1>2 DEF Times
<1>6. \A t \in Times : 1 .. t \subseteq Times
  BY <1>2 DEF Times
<1> QED
  BY <1>3, <1>4, <1>5, <1>6

\* What the timerfd is set to: never 0, and at most what is left.
LEMMA HowMuch ==
  ASSUME TypeOK, NEW when \in Times
  PROVE  /\ HowMuchTimeFromNow(when) \in Times
         /\ HowMuchTimeFromNow(when) # Null
         /\ HowMuchTimeFromNow(when) = IF when - now >= 1 THEN when - now ELSE 1
<1>1. when \in Nat \ {0} /\ now \in Nat \ {0}
  BY TimesType DEF TypeOK
<1>2. HowMuchTimeFromNow(when) = IF when - now >= 1 THEN when - now ELSE 1
  BY <1>1, MinMaxOfTwo DEF HowMuchTimeFromNow
<1>3. HowMuchTimeFromNow(when) \in 1 .. when
  BY <1>1, <1>2
<1> QED
  BY <1>2, <1>3, TimesType

\* The earliest expiration is one of an entry.
LEMMA Earliest ==
  ASSUME NEW T, T \subseteq Entries, T # {}
  PROVE  /\ Min(Time(T)) \in Times
         /\ \E e \in T : e[1] = Min(Time(T))
         /\ \A e \in T : Min(Time(T)) <= e[1]
<1>1. Time(T) # {} /\ Time(T) \subseteq Times
  BY DEF Time, Entries
<1>2. Min(Time(T)) \in Time(T) /\ \A y \in Time(T) : Min(Time(T)) <= y
  BY <1>1, TimesType, MinNat, Zenon
<1> QED
  BY <1>1, <1>2, Zenon DEF Time

(***************************************************************************)
(* The shape of the state.                                                 *)
(***************************************************************************)
Functor == [op : {"add", "cancel"}, id : Ids]
Timer == [seq : 0..MaxSeq, exp : Times, interval : Intervals]

\* The address of a Timer is not null.
LEMMA NullIsNoTimer == Null \notin Timer
<1>1. 0..MaxSeq \subseteq Nat /\ Times \subseteq Nat /\ Intervals \subseteq Nat
  BY TimesType, TimerQueueAssumption
<1>2. Timer \subseteq [seq : Nat, exp : Nat, interval : Nat]
  BY <1>1, Zenon DEF Timer
<1> QED
  BY <1>2, TimerQueueAssumption

\* Entries are pairs, live Timers records, and an address has at most one entry.
LEMMA Shapes ==
  ASSUME TimerInv
  PROVE  /\ heap \in [Addrs -> Timer \cup {Null}]
         /\ \A a \in Addrs : heap[a] # Null => heap[a] \in Timer
         /\ \A e \in timers_ \cup expired : e[1] \in Times /\ e[2] \in Addrs /\ e = <<e[1], e[2]>>
         /\ \A e, f \in timers_ : e[2] = f[2] => e = f
         /\ \A e, f \in expired : e[2] = f[2] => e = f
         /\ queue \in Seq(Functor)
         /\ \A i \in DOMAIN queue : queue[i].id \in Ids /\ Addr(i) \in Addrs
<1>1. heap \in [Addrs -> Timer \cup {Null}]
  BY DEF TimerInv, TypeOK, Timer
<1>2. \A e \in timers_ \cup expired : e[1] \in Times /\ e[2] \in Addrs /\ e = <<e[1], e[2]>>
  BY DEF TimerInv, TypeOK, Entries
<1>3. \A e \in timers_ \cup expired : heap[e[2]].exp = e[1]
  BY DEF TimerInv, OwnedOnce
<1>4. queue \in Seq(Functor)
  BY DEF TimerInv, TypeOK, Functor
<1>5. \A i \in DOMAIN queue : queue[i].id \in Ids
  <2>1. \A i \in DOMAIN queue : queue[i] \in Functor
    BY <1>4
  <2> QED
    BY <2>1 DEF Functor
<1>6. \A id \in Ids : id[1] \in Addrs
  BY DEF Ids
<1> QED
  BY <1>1, <1>2, <1>3, <1>4, <1>5, <1>6 DEF Addr

\* The ids of active timers, one by one.
LEMMA ActiveIds ==
  ASSUME TimerInv, NEW id
  PROVE  id \in activeTimers_ <=> \E e \in timers_ : id = <<e[2], heap[e[2]].seq>>
BY DEF TimerInv

\* The conjuncts of OwnedOnce, one by one.
LEMMA Owners ==
  ASSUME TimerInv
  PROVE  /\ \A e \in timers_ \cup expired : heap[e[2]] # Null /\ heap[e[2]].exp = e[1]
         /\ \A e \in expired, f \in timers_ : e[2] # f[2]
         /\ \A i \in DOMAIN queue : IsAdd(i) =>
               /\ heap[Addr(i)] # Null /\ heap[Addr(i)].seq = queue[i].id[2]
               /\ \A e \in timers_ \cup expired : e[2] # Addr(i)
         /\ \A i, j \in DOMAIN queue : IsAdd(i) /\ IsAdd(j) /\ Addr(i) = Addr(j) => i = j
BY Zenon DEF TimerInv, OwnedOnce

\* A step that adds no entry and no add functor (g says where the functors left in the
\* queue were), and changes no Timer they own, keeps the owners apart.
LEMMA OwnersStay ==
  ASSUME TimerInv, NEW g,
         \A i \in DOMAIN queue' : queue'[i].op = "add" =>
            g[i] \in DOMAIN queue /\ queue'[i] = queue[g[i]],
         \A i, j \in DOMAIN queue' : g[i] = g[j] => i = j,
         timers_' \cup expired' \subseteq timers_ \cup expired,
         \A e \in timers_' \cup expired' : heap'[e[2]] = heap[e[2]],
         \A e \in expired', f \in timers_' : e[2] # f[2],
         \A i \in DOMAIN queue : IsAdd(i) => heap'[Addr(i)] = heap[Addr(i)]
  PROVE  OwnedOnce'
<1>1. \A e \in timers_' \cup expired' : heap'[e[2]] # Null /\ heap'[e[2]].exp = e[1]
  BY Owners, Zenon
<1>2. ASSUME NEW i \in DOMAIN queue', IsAdd(i)'
      PROVE  /\ g[i] \in DOMAIN queue /\ IsAdd(g[i]) /\ Addr(i)' = Addr(g[i])
             /\ queue'[i] = queue[g[i]]
  BY <1>2, Zenon DEF IsAdd, Addr
<1>3. ASSUME NEW i \in DOMAIN queue', IsAdd(i)'
      PROVE  /\ heap'[Addr(i)'] # Null /\ heap'[Addr(i)'].seq = queue'[i].id[2]
             /\ \A e \in timers_' \cup expired' : e[2] # Addr(i)'
  <2>1. /\ g[i] \in DOMAIN queue /\ IsAdd(g[i]) /\ Addr(i)' = Addr(g[i])
        /\ queue'[i] = queue[g[i]]
    BY <1>2, <1>3, Zenon
  <2>2. /\ heap[Addr(g[i])] # Null /\ heap[Addr(g[i])].seq = queue[g[i]].id[2]
        /\ \A e \in timers_ \cup expired : e[2] # Addr(g[i])
    BY <2>1, Owners, Zenon
  <2>3. heap'[Addr(g[i])] = heap[Addr(g[i])]
    BY <2>1, Zenon
  <2> QED
    BY <2>1, <2>2, <2>3, Zenon
<1>4. ASSUME NEW i \in DOMAIN queue', NEW j \in DOMAIN queue',
             IsAdd(i)', IsAdd(j)', Addr(i)' = Addr(j)'
      PROVE  i = j
  <2>1. /\ g[i] \in DOMAIN queue /\ IsAdd(g[i]) /\ Addr(i)' = Addr(g[i])
        /\ g[j] \in DOMAIN queue /\ IsAdd(g[j]) /\ Addr(j)' = Addr(g[j])
    BY <1>2, <1>4, Zenon
  <2>2. \A x, y \in DOMAIN queue : IsAdd(x) /\ IsAdd(y) /\ Addr(x) = Addr(y) => x = y
    BY Owners, Zenon
  <2>3. Addr(g[i]) = Addr(g[j])
    BY <1>4, <2>1, Zenon
  <2>4. g[i] = g[j]
    BY <2>1, <2>2, <2>3, Zenon
  <2> QED
    BY <2>4, Zenon
<1> QED
  BY <1>1, <1>3, <1>4, Zenon DEF OwnedOnce

(***************************************************************************)
(* Insert.                                                                 *)
(***************************************************************************)
\* AddTimerInLoop on a live Timer that timers_ and the vector do not have: the sets go
\* on agreeing, and the timerfd holds a time.
LEMMA InsertKeeps ==
  ASSUME TimerInv, NEW a \in Addrs, NEW tm \in Timer, AddTimerInLoop(a, tm),
         heap' \in [Addrs -> Timer \cup {Null}], heap'[a] = tm,
         \A b \in Addrs \ {a} : heap'[b] = heap[b],
         \A e \in timers_ \cup expired : e[2] # a,
         expired' = expired
  PROVE  /\ timers_' \subseteq Entries /\ activeTimers_' \subseteq Ids
         /\ timerfd' \in Times \cup {0, Null}
         /\ IsFiniteSet(timers_')
         /\ activeTimers_' = {<<e[2], heap'[e[2]].seq>> : e \in timers_'}
         /\ \A e \in timers_' \cup expired' : heap'[e[2]] # Null /\ heap'[e[2]].exp = e[1]
         /\ \A e \in expired', f \in timers_' : e[2] # f[2]
<1> DEFINE new == <<tm.exp, a>>
<1>1. /\ timers_' = timers_ \cup {new}
      /\ activeTimers_' = activeTimers_ \cup {<<a, tm.seq>>}
      /\ timerfd' = IF EarliestChanged(tm.exp, timers_)
                    THEN HowMuchTimeFromNow(tm.exp) ELSE timerfd
  BY DEF AddTimerInLoop
<1>2. tm.exp \in Times /\ tm.seq \in 0..MaxSeq /\ tm # Null
  BY NullIsNoTimer DEF Timer
<1>3. new[1] = tm.exp /\ new[2] = a
  OBVIOUS
<1>4. \A e \in timers_ \cup expired : e[2] \in Addrs /\ heap'[e[2]] = heap[e[2]]
  BY Shapes
<1>5. timers_' \subseteq Entries /\ activeTimers_' \subseteq Ids
  BY <1>1, <1>2 DEF TimerInv, TypeOK, Entries, Ids
<1>6. timerfd' \in Times \cup {0, Null}
  <2>1. HowMuchTimeFromNow(tm.exp) \in Times
    BY <1>2, HowMuch DEF TimerInv
  <2> QED
    BY <1>1, <2>1 DEF TimerInv, TypeOK
<1>7. IsFiniteSet(timers_')
  BY <1>1, FS_AddElement, Zenon DEF TimerInv
<1> HIDE DEF new
<1>8. activeTimers_' = {<<e[2], heap'[e[2]].seq>> : e \in timers_'}
  <2>1. \A id : id \in activeTimers_ <=> \E e \in timers_ : id = <<e[2], heap'[e[2]].seq>>
    BY <1>4, ActiveIds
  <2>2. <<a, tm.seq>> = <<new[2], heap'[new[2]].seq>>
    BY <1>3
  <2> QED
    BY <1>1, <2>1, <2>2
<1>9. \A e \in timers_' \cup expired' : heap'[e[2]] # Null /\ heap'[e[2]].exp = e[1]
  BY <1>1, <1>2, <1>3, <1>4 DEF TimerInv, OwnedOnce
<1>10. \A e \in expired', f \in timers_' : e[2] # f[2]
  BY <1>1, <1>3 DEF TimerInv, OwnedOnce
<1> QED
  BY <1>5, <1>6, <1>7, <1>8, <1>9, <1>10

\* A Timer that is allocated has a free address and a new sequence.
LEMMA AllocateKeeps ==
  ASSUME TimerInv, NEW a \in Addrs, NEW when \in Times, NEW interval \in Intervals,
         Allocate(a, NewTimer(when, interval)),
         UNCHANGED <<expired, cancelingTimers_, cancelled>>
  PROVE  LET tm == NewTimer(when, interval)
         IN  /\ tm \in Timer /\ tm.seq = sNumCreated /\ tm.exp = when
             /\ heap' \in [Addrs -> Timer \cup {Null}] /\ heap'[a] = tm
             /\ \A b \in Addrs \ {a} : heap'[b] = heap[b]
             /\ \A e \in timers_ \cup expired : e[2] # a
             /\ \A i \in DOMAIN queue : IsAdd(i) => Addr(i) # a
             /\ sNumCreated' \in 0..MaxSeq
             /\ SeqsUnique' /\ CancelNoted'
<1> DEFINE tm == NewTimer(when, interval)
<1>1. sNumCreated \in 0..MaxSeq /\ sNumCreated + 1 \in 0..MaxSeq
  BY TimerQueueAssumption DEF TimerInv, TypeOK, Allocate
<1>2. tm \in Timer /\ tm.seq = sNumCreated /\ tm.exp = when
  BY <1>1 DEF NewTimer, Timer
<1>3. heap[a] = Null /\ heap' = [heap EXCEPT ![a] = tm] /\ sNumCreated' = sNumCreated + 1
  BY DEF Allocate
<1> HIDE DEF tm
<1>4. /\ heap' \in [Addrs -> Timer \cup {Null}] /\ heap'[a] = tm
      /\ \A b \in Addrs \ {a} : heap'[b] = heap[b]
  BY <1>2, <1>3, Shapes
<1>5. \A e \in timers_ \cup expired : e[2] # a
  BY <1>3 DEF TimerInv, OwnedOnce
<1>6. \A i \in DOMAIN queue : IsAdd(i) => Addr(i) # a
  BY <1>3 DEF TimerInv, OwnedOnce
<1>7. \A b \in Addrs : heap[b] # Null => heap[b].seq < sNumCreated /\ heap[b].seq \in 0..MaxSeq
  BY Shapes DEF TimerInv, SeqsUnique, Timer
<1>8. SeqsUnique'
  BY <1>1, <1>2, <1>3, <1>4, <1>7 DEF TimerInv, SeqsUnique
<1>9. CancelNoted'
  <2> SUFFICES ASSUME NEW s \in 0..MaxSeq, <<s, TRUE>> \in cancelled
               PROVE  /\ s < sNumCreated'
                      /\ \A b \in Addrs : heap'[b] # Null /\ heap'[b].seq = s =>
                            <<b, s>> \in cancelingTimers_ /\ \E e \in expired : e[2] = b
    BY Zenon DEF CancelNoted
  <2>1. /\ s < sNumCreated
        /\ \A b \in Addrs : heap[b] # Null /\ heap[b].seq = s =>
              <<b, s>> \in cancelingTimers_ /\ \E e \in expired : e[2] = b
    BY Zenon DEF TimerInv, CancelNoted
  <2> QED
    BY <1>1, <1>2, <1>3, <1>4, <2>1
<1> QED
  BY <1>1, <1>2, <1>3, <1>4, <1>5, <1>6, <1>8, <1>9 DEF tm

\* AddTimer in the loop thread.
LEMMA AddTimerHereKeeps ==
  ASSUME TimerInv, NEW a \in Addrs, NEW when \in Times, NEW interval \in Intervals,
         AddTimerHere(a, when, interval)
  PROVE  TimerInv'
<1> DEFINE tm == NewTimer(when, interval)
<1>1. /\ Allocate(a, tm) /\ AddTimerInLoop(a, tm) /\ ids' = ids \cup {<<a, tm.seq>>}
      /\ UNCHANGED <<now, steps, cancelingTimers_, handleVars, queue, adding, cancelled>>
  BY DEF AddTimerHere, AddTimerInLoop
<1> HIDE DEF tm
<1>2. /\ tm \in Timer /\ tm.seq = sNumCreated
      /\ heap' \in [Addrs -> Timer \cup {Null}] /\ heap'[a] = tm
      /\ \A b \in Addrs \ {a} : heap'[b] = heap[b]
      /\ \A e \in timers_ \cup expired : e[2] # a
      /\ \A i \in DOMAIN queue : IsAdd(i) => Addr(i) # a
      /\ sNumCreated' \in 0..MaxSeq
      /\ SeqsUnique' /\ CancelNoted'
  BY <1>1, AllocateKeeps DEF handleVars, tm
<1>3. /\ timers_' \subseteq Entries /\ activeTimers_' \subseteq Ids
      /\ timerfd' \in Times \cup {0, Null}
      /\ IsFiniteSet(timers_')
      /\ activeTimers_' = {<<e[2], heap'[e[2]].seq>> : e \in timers_'}
      /\ \A e \in timers_' \cup expired' : heap'[e[2]] # Null /\ heap'[e[2]].exp = e[1]
      /\ \A e \in expired', f \in timers_' : e[2] # f[2]
  BY <1>1, <1>2, InsertKeeps DEF handleVars
<1>4. TypeOK'
  <2>1. ids' \subseteq Ids
    BY <1>1, <1>2 DEF TimerInv, TypeOK, Ids
  <2> QED
    BY <1>1, <1>2, <1>3, <2>1, Zenon DEF TimerInv, TypeOK, Timer, handleVars
<1>5. OwnedOnce'
  <2>1. timers_' = timers_ \cup {<<tm.exp, a>>} /\ queue' = queue /\ expired' = expired
    BY <1>1 DEF AddTimerInLoop, handleVars
  <2>2. \A e \in timers_' \cup expired' : e \in timers_ \cup expired \/ e[2] = a
    BY <2>1
  <2>3. ASSUME NEW i \in DOMAIN queue', IsAdd(i)'
        PROVE  /\ heap'[Addr(i)'] # Null /\ heap'[Addr(i)'].seq = queue'[i].id[2]
               /\ \A e \in timers_' \cup expired' : e[2] # Addr(i)'
    <3>1. IsAdd(i) /\ Addr(i)' = Addr(i) /\ queue'[i] = queue[i] /\ i \in DOMAIN queue
      BY <2>1, <2>3 DEF IsAdd, Addr
    <3>2. Addr(i) \in Addrs \ {a}
      BY <1>2, <3>1, Shapes
    <3>3. heap'[Addr(i)] = heap[Addr(i)]
      BY <1>2, <3>2, Zenon
    <3>4. /\ heap[Addr(i)] # Null /\ heap[Addr(i)].seq = queue[i].id[2]
          /\ \A e \in timers_ \cup expired : e[2] # Addr(i)
      BY <3>1, Owners, Zenon
    <3>5. \A e \in timers_' \cup expired' : e[2] # Addr(i)
      BY <2>2, <3>2, <3>4, Zenon
    <3> QED
      BY <3>1, <3>3, <3>4, <3>5, Zenon
  <2>4. \A i, j \in DOMAIN queue' : IsAdd(i)' /\ IsAdd(j)' /\ Addr(i)' = Addr(j)' => i = j
    BY <2>1, Zenon DEF TimerInv, OwnedOnce, IsAdd, Addr
  <2> QED
    BY <1>3, <2>3, <2>4 DEF OwnedOnce
<1> QED
  BY <1>1, <1>2, <1>3, <1>4, <1>5, Zenon DEF TimerInv, handleVars

\* AddTimer in another thread: the functor is the Timer's owner.
LEMMA AddTimerKeeps ==
  ASSUME TimerInv, NEW t \in Threads, NEW a \in Addrs, NEW when \in Times,
         NEW interval \in Intervals, AddTimer(t, a, when, interval)
  PROVE  TimerInv'
<1> DEFINE tm == NewTimer(when, interval)
           add == [op |-> "add", id |-> <<a, tm.seq>>]
<1>1. /\ Allocate(a, tm) /\ queue' = Append(queue, add)
      /\ adding' = [adding EXCEPT ![t] = <<a, tm.seq>>]
      /\ UNCHANGED <<now, steps, timerfd, setVars, cancelingTimers_, handleVars, ids, cancelled>>
  BY DEF AddTimer
<1> HIDE DEF tm
<1>2. /\ tm \in Timer /\ tm.seq = sNumCreated
      /\ heap' \in [Addrs -> Timer \cup {Null}] /\ heap'[a] = tm
      /\ \A b \in Addrs \ {a} : heap'[b] = heap[b]
      /\ \A e \in timers_ \cup expired : e[2] # a
      /\ \A i \in DOMAIN queue : IsAdd(i) => Addr(i) # a
      /\ sNumCreated' \in 0..MaxSeq
      /\ SeqsUnique' /\ CancelNoted'
  <2>1. Allocate(a, NewTimer(when, interval))
    BY <1>1, Zenon DEF tm
  <2>2. UNCHANGED <<expired, cancelingTimers_, cancelled>>
    BY <1>1, Zenon DEF handleVars
  <2> QED
    BY <2>1, <2>2, AllocateKeeps DEF tm
<1>3. <<a, tm.seq>> \in Ids /\ add \in Functor /\ add.op = "add" /\ add.id = <<a, tm.seq>>
  BY <1>2, Zenon DEF TimerInv, TypeOK, Ids, Functor
<1> HIDE DEF add
<1>4. /\ queue' \in Seq(Functor) /\ Len(queue') = Len(queue) + 1
      /\ queue'[Len(queue) + 1] = add /\ \A i \in DOMAIN queue : queue'[i] = queue[i]
  BY <1>1, <1>3, Shapes
<1>5. UNCHANGED <<timers_, expired>>
  BY <1>1 DEF setVars, handleVars
<1>6. \A e \in timers_ \cup expired : e[2] \in Addrs /\ heap'[e[2]] = heap[e[2]]
  BY <1>2, Shapes
<1>7. TypeOK'
  <2>1. adding' \in [Threads -> Ids \cup {Null}]
    BY <1>1, <1>3 DEF TimerInv, TypeOK
  <2> QED
    BY <1>1, <1>2, <1>4, <2>1, Zenon DEF TimerInv, TypeOK, Timer, Functor, setVars, handleVars
<1>8. activeTimers_' = {<<e[2], heap'[e[2]].seq>> : e \in timers_'}
  <2>1. \A id : id \in activeTimers_ <=> \E e \in timers_ : id = <<e[2], heap'[e[2]].seq>>
    BY <1>6, ActiveIds
  <2> QED
    BY <1>1, <2>1 DEF setVars
<1>9. OwnedOnce'
  <2>1. /\ \A e \in timers_' \cup expired' : heap'[e[2]] # Null /\ heap'[e[2]].exp = e[1]
        /\ \A e \in expired', f \in timers_' : e[2] # f[2]
    BY <1>5, <1>6, Owners, Zenon
  <2>0. PICK n \in Nat : n = Len(queue) + 1
    BY Shapes
  <2>2. DOMAIN queue' = DOMAIN queue \cup {n} /\ n \notin DOMAIN queue
    BY <1>4, <2>0, Shapes
  <2>3. \A i \in DOMAIN queue : IsAdd(i)' = IsAdd(i) /\ Addr(i)' = Addr(i)
    BY <1>4 DEF IsAdd, Addr
  <2>4. IsAdd(n)' /\ Addr(n)' = a
    BY <1>3, <1>4, <2>0 DEF IsAdd, Addr
  <2>5. ASSUME NEW i \in DOMAIN queue, IsAdd(i)
        PROVE  /\ heap'[Addr(i)] # Null /\ heap'[Addr(i)].seq = queue[i].id[2]
               /\ \A e \in timers_' \cup expired' : e[2] # Addr(i)
    <3>1. Addr(i) \in Addrs \ {a}
      BY <1>2, <2>5, Shapes
    <3> QED
      BY <1>2, <1>5, <2>5, <3>1, Zenon DEF TimerInv, OwnedOnce
  <2>6. ASSUME NEW i \in DOMAIN queue', IsAdd(i)'
        PROVE  /\ heap'[Addr(i)'] # Null /\ heap'[Addr(i)'].seq = queue'[i].id[2]
               /\ \A e \in timers_' \cup expired' : e[2] # Addr(i)'
    <3>1. CASE i = n
      BY <1>2, <1>3, <1>4, <1>5, <2>0, <2>4, <3>1, NullIsNoTimer
    <3>2. CASE i \in DOMAIN queue
      <4>1. IsAdd(i) /\ Addr(i)' = Addr(i) /\ queue'[i] = queue[i]
        BY <1>4, <2>3, <2>6, <3>2, Zenon
      <4> QED
        BY <2>5, <3>2, <4>1, Zenon
    <3> QED
      BY <2>2, <3>1, <3>2
  <2>7. \A i, j \in DOMAIN queue' : IsAdd(i)' /\ IsAdd(j)' /\ Addr(i)' = Addr(j)' => i = j
    <3>1. \A i, j \in DOMAIN queue : IsAdd(i) /\ IsAdd(j) /\ Addr(i) = Addr(j) => i = j
      BY Owners, Zenon
    <3>2. \A i \in DOMAIN queue : IsAdd(i) => Addr(i) # a
      BY <1>2, Zenon
    <3> QED
      BY <2>2, <2>3, <2>4, <3>1, <3>2, Zenon
  <2> QED
    BY <2>1, <2>6, <2>7, Zenon DEF OwnedOnce
<1> QED
  BY <1>1, <1>2, <1>5, <1>7, <1>8, <1>9, Zenon DEF TimerInv, handleVars, setVars

(***************************************************************************)
(* Cancel.                                                                 *)
(***************************************************************************)
\* What CancelInLoop adds to the history.
LEMMA CancelHistory ==
  ASSUME NEW id, CancelInLoop(id), NEW s, <<s, TRUE>> \in cancelled'
  PROVE  \/ <<s, TRUE>> \in cancelled
         \/ /\ s = id[2]
            /\ \/ id \in activeTimers_
               \/ \E e \in expired : e[2] = id[1] /\ heap[id[1]].seq = id[2]
BY Zenon DEF CancelInLoop

\* CancelInLoop frees at most a Timer that only timers_ owns; one in the vector is noted.
LEMMA CancelInLoopKeeps ==
  ASSUME TimerInv, NEW id \in Ids, CancelInLoop(id),
         UNCHANGED <<expired, callingExpiredTimers_, sNumCreated>>
  PROVE  /\ timers_' \subseteq timers_ /\ activeTimers_' \subseteq Ids
         /\ cancelingTimers_' \subseteq Ids /\ timerfd' = timerfd
         /\ heap' \in [Addrs -> Timer \cup {Null}]
         /\ activeTimers_' = {<<e[2], heap'[e[2]].seq>> : e \in timers_'}
         /\ \A e \in timers_' \cup expired : heap'[e[2]] = heap[e[2]]
         /\ \A i \in DOMAIN queue : IsAdd(i) => heap'[Addr(i)] = heap[Addr(i)]
         /\ SeqsUnique' /\ CancelNoted'
<1>0. id[1] \in Addrs /\ id[2] \in 0..MaxSeq /\ id = <<id[1], id[2]>>
  BY DEF Ids
<1>1. CASE id \in activeTimers_
  <2>1. PICK e \in timers_ : id = <<e[2], heap[e[2]].seq>>
    BY <1>1, ActiveIds
  <2>2. /\ e[2] = id[1] /\ heap[id[1]] # Null /\ heap[id[1]].seq = id[2]
        /\ e = <<heap[id[1]].exp, id[1]>>
    BY <2>1, Shapes DEF TimerInv, OwnedOnce
  <2>3. /\ timers_' = timers_ \ {e} /\ activeTimers_' = activeTimers_ \ {id}
        /\ heap' = [heap EXCEPT ![id[1]] = Null]
        /\ cancelingTimers_' = cancelingTimers_ /\ timerfd' = timerfd
    BY <1>1, <2>2 DEF CancelInLoop
  <2>4. heap' \in [Addrs -> Timer \cup {Null}]
    BY <1>0, <2>3, Shapes
  <2>5. \A a \in Addrs : heap'[a] = IF a = id[1] THEN Null ELSE heap[a]
    BY <1>0, <2>3, Shapes
  <2>6. \A f \in timers_' \cup expired : f[2] \in Addrs /\ f[2] # id[1]
    BY <2>2, <2>3, Shapes, Zenon DEF TimerInv, OwnedOnce
  <2>7. activeTimers_' = {<<f[2], heap'[f[2]].seq>> : f \in timers_'}
    <3>1. \A f \in timers_' : heap'[f[2]] = heap[f[2]] /\ f \in timers_
      BY <2>3, <2>5, <2>6
    <3>2. \A x : x \in activeTimers_ <=> \E f \in timers_ : x = <<f[2], heap[f[2]].seq>>
      BY ActiveIds
    <3>3. \A f \in timers_' : <<f[2], heap[f[2]].seq>> # id
      BY <1>0, <2>6
    <3> QED
      BY <2>1, <2>3, <3>1, <3>2, <3>3, SMTT(20)
  <2>8. ASSUME NEW i \in DOMAIN queue, IsAdd(i) PROVE heap'[Addr(i)] = heap[Addr(i)]
    <3>1. Addr(i) # id[1] /\ Addr(i) \in Addrs
      BY <2>2, <2>8, Shapes, Zenon DEF TimerInv, OwnedOnce
    <3> QED
      BY <2>5, <3>1
  <2>9. SeqsUnique'
    BY <2>5, Zenon DEF TimerInv, SeqsUnique
  <2>10. CancelNoted'
    <3> SUFFICES ASSUME NEW s \in 0..MaxSeq, <<s, TRUE>> \in cancelled'
                 PROVE  /\ s < sNumCreated
                        /\ \A a \in Addrs : heap'[a] # Null /\ heap'[a].seq = s =>
                              <<a, s>> \in cancelingTimers_ /\ \E f \in expired : f[2] = a
      BY <2>3, Zenon DEF CancelNoted
    <3>1. CASE <<s, TRUE>> \in cancelled
      BY <2>5, <3>1, Zenon DEF TimerInv, CancelNoted
    <3>2. CASE s = id[2]
      BY <1>0, <2>2, <2>5, <3>2 DEF TimerInv, SeqsUnique
    <3> QED
      BY <3>1, <3>2, CancelHistory, Zenon
  <2> QED
    BY <2>3, <2>4, <2>5, <2>6, <2>7, <2>8, <2>9, <2>10, Zenon DEF TimerInv, TypeOK
<1>2. CASE id \notin activeTimers_
  <2>1. /\ timers_' = timers_ /\ activeTimers_' = activeTimers_ /\ heap' = heap
        /\ timerfd' = timerfd
        /\ cancelingTimers_' = IF callingExpiredTimers_ THEN cancelingTimers_ \cup {id}
                               ELSE cancelingTimers_
    BY <1>2 DEF CancelInLoop
  <2>2. SeqsUnique' /\ activeTimers_' = {<<e[2], heap'[e[2]].seq>> : e \in timers_'}
    BY <2>1 DEF TimerInv, SeqsUnique
  <2>3. CancelNoted'
    <3> SUFFICES ASSUME NEW s \in 0..MaxSeq, <<s, TRUE>> \in cancelled'
                 PROVE  /\ s < sNumCreated
                        /\ \A a \in Addrs : heap[a] # Null /\ heap[a].seq = s =>
                              <<a, s>> \in cancelingTimers_' /\ \E f \in expired : f[2] = a
      BY <2>1, Zenon DEF CancelNoted
    <3>1. CASE <<s, TRUE>> \in cancelled
      BY <2>1, <3>1, Zenon DEF TimerInv, CancelNoted
    <3>2. CASE s = id[2] /\ \E e \in expired : e[2] = id[1] /\ heap[id[1]].seq = id[2]
      <4>1. PICK e \in expired : e[2] = id[1] /\ heap[id[1]].seq = id[2]
        BY <3>2
      <4>2. heap[id[1]] # Null /\ callingExpiredTimers_
        BY <4>1 DEF TimerInv, OwnedOnce
      <4>3. id \in cancelingTimers_'
        BY <2>1, <4>2
      <4>4. s < sNumCreated /\ \A a \in Addrs : heap[a] # Null /\ heap[a].seq = s => a = id[1]
        BY <1>0, <3>2, <4>1, <4>2 DEF TimerInv, SeqsUnique
      <4> QED
        BY <1>0, <3>2, <4>1, <4>3, <4>4
    <3> QED
      BY <1>2, <3>1, <3>2, CancelHistory, Zenon
  <2>4. cancelingTimers_' \subseteq Ids
    BY <2>1 DEF TimerInv, TypeOK
  <2> QED
    BY <2>1, <2>2, <2>3, <2>4, Shapes, Zenon DEF TimerInv, TypeOK
<1> QED
  BY <1>1, <1>2

\* Steps that leave the Timers, their owners and the history alone.
LEMMA FrameKeeps ==
  ASSUME TimerInv, TypeOK',
         UNCHANGED <<heap, sNumCreated, timers_, activeTimers_, cancelingTimers_, expired,
                     callingExpiredTimers_, queue, cancelled>>
  PROVE  TimerInv'
<1>1. OwnedOnce'
  BY Zenon DEF TimerInv, OwnedOnce, IsAdd, Addr
<1>2. SeqsUnique' /\ CancelNoted'
  BY Zenon DEF TimerInv, SeqsUnique, CancelNoted
<1> QED
  BY <1>1, <1>2 DEF TimerInv

\* AddTimer returns an id.
LEMMA AddTimerReturnsKeeps ==
  ASSUME TimerInv, NEW t \in Threads, AddTimerReturns(t)
  PROVE  TimerInv'
<1>1. adding[t] \in Ids
  BY DEF AddTimerReturns, TimerInv, TypeOK
<1>2. adding[t][1] \in Addrs
  BY <1>1 DEF Ids
<1>3. heap[adding[t][1]] # Null => <<adding[t][1], heap[adding[t][1]].seq>> \in Ids
  BY <1>2, Shapes DEF Ids, Timer
<1>4. ids' \subseteq Ids
  BY <1>1, <1>3, Zenon DEF AddTimerReturns, TimerInv, TypeOK
<1>5. adding' \in [Threads -> Ids \cup {Null}]
  BY DEF AddTimerReturns, TimerInv, TypeOK
<1>6. TypeOK'
  BY <1>4, <1>5 DEF AddTimerReturns, TimerInv, TypeOK, setVars, handleVars
<1> QED
  BY <1>6, FrameKeeps, Zenon DEF AddTimerReturns, setVars, handleVars

\* Cancel in the loop thread.
LEMMA CancelHereKeeps ==
  ASSUME TimerInv, NEW id \in ids, CancelHere(id)
  PROVE  TimerInv'
<1>0. id \in Ids
  BY DEF TimerInv, TypeOK
<1>1. /\ CancelInLoop(id)
      /\ UNCHANGED <<now, steps, sNumCreated, handleVars, queue, adding, ids>>
  BY DEF CancelHere
<1>2. /\ timers_' \subseteq timers_ /\ activeTimers_' \subseteq Ids
      /\ cancelingTimers_' \subseteq Ids /\ timerfd' = timerfd
      /\ heap' \in [Addrs -> Timer \cup {Null}]
      /\ activeTimers_' = {<<e[2], heap'[e[2]].seq>> : e \in timers_'}
      /\ \A e \in timers_' \cup expired : heap'[e[2]] = heap[e[2]]
      /\ \A i \in DOMAIN queue : IsAdd(i) => heap'[Addr(i)] = heap[Addr(i)]
      /\ SeqsUnique' /\ CancelNoted'
  BY <1>0, <1>1, CancelInLoopKeeps, Zenon DEF handleVars
<1>3. TypeOK'
  BY <1>1, <1>2, Zenon DEF TimerInv, TypeOK, Timer, handleVars
<1>4. OwnedOnce'
  <2>1. expired' = expired /\ queue' = queue
    BY <1>1 DEF handleVars
  <2> DEFINE g == [i \in DOMAIN queue |-> i]
  <2>2. /\ \A i \in DOMAIN queue' : queue'[i].op = "add" =>
              g[i] \in DOMAIN queue /\ queue'[i] = queue[g[i]]
        /\ \A i, j \in DOMAIN queue' : g[i] = g[j] => i = j
    BY <2>1, Zenon
  <2> HIDE DEF g
  <2>3. /\ timers_' \cup expired' \subseteq timers_ \cup expired
        /\ \A e \in timers_' \cup expired' : heap'[e[2]] = heap[e[2]]
        /\ \A i \in DOMAIN queue : IsAdd(i) => heap'[Addr(i)] = heap[Addr(i)]
    BY <1>2, <2>1, Zenon
  <2>4. \A e \in expired', f \in timers_' : e[2] # f[2]
    BY <1>2, <2>1, Owners, Zenon
  <2> QED
    BY <2>2, <2>3, <2>4, OwnersStay, Zenon
<1>5. IsFiniteSet(timers_')
  BY <1>2, FS_Subset DEF TimerInv
<1> QED
  BY <1>1, <1>2, <1>3, <1>4, <1>5, Zenon DEF TimerInv, handleVars

\* Cancel in another thread: its functor owns nothing.
LEMMA CancelKeeps ==
  ASSUME TimerInv, NEW id \in ids, Cancel(id)
  PROVE  TimerInv'
<1> DEFINE cancel == [op |-> "cancel", id |-> id]
<1>1. cancel \in Functor /\ cancel.op # "add"
  BY DEF TimerInv, TypeOK, Functor
<1>2. queue' = Append(queue, cancel)
  BY DEF Cancel
<1>3. UNCHANGED <<now, steps, timerfd, heap, sNumCreated, timers_, activeTimers_,
                  cancelingTimers_, polled, callingExpiredTimers_, expired, toRun, handleNow,
                  adding, ids, cancelled>>
  BY DEF Cancel, setVars, handleVars
<1> HIDE DEF cancel
<1>4. /\ queue' \in Seq(Functor)
      /\ \A i \in DOMAIN queue' : queue'[i].op = "add" => i \in DOMAIN queue /\ queue'[i] = queue[i]
  BY <1>1, <1>2, Shapes
<1>5. TypeOK'
  BY <1>3, <1>4, Zenon DEF TimerInv, TypeOK, Functor
<1>6. OwnedOnce'
  <2> DEFINE g == [i \in DOMAIN queue' |-> i]
  <2>1. /\ \A i \in DOMAIN queue' : queue'[i].op = "add" =>
              g[i] \in DOMAIN queue /\ queue'[i] = queue[g[i]]
        /\ \A i, j \in DOMAIN queue' : g[i] = g[j] => i = j
    BY <1>4, Zenon
  <2> HIDE DEF g
  <2>2. timers_' = timers_ /\ expired' = expired /\ heap' = heap
    BY <1>3, Zenon
  <2>3. \A e \in expired', f \in timers_' : e[2] # f[2]
    BY <2>2, Owners, Zenon
  <2> QED
    BY <2>1, <2>2, <2>3, OwnersStay, Zenon
<1>7. SeqsUnique' /\ CancelNoted'
  BY <1>3, Zenon DEF TimerInv, SeqsUnique, CancelNoted
<1> QED
  BY <1>3, <1>5, <1>6, <1>7 DEF TimerInv

\* The next functor of the queue.
LEMMA RunQueuedKeeps ==
  ASSUME TimerInv, RunQueued
  PROVE  TimerInv'
<1> DEFINE id == Head(queue).id
<1>1. /\ queue # <<>> /\ queue' = Tail(queue) /\ expired = {}
      /\ UNCHANGED <<now, steps, sNumCreated, polled, callingExpiredTimers_, expired, toRun,
                     handleNow, adding, ids>>
  BY Zenon DEF RunQueued, handleVars, TimerInv
<1>2. /\ queue' \in Seq(Functor) /\ 1 \in DOMAIN queue /\ Head(queue) = queue[1]
      /\ \A i \in DOMAIN queue' : i + 1 \in DOMAIN queue /\ i + 1 # 1 /\ queue'[i] = queue[i + 1]
      /\ \A i \in DOMAIN queue' : i \in Nat
  BY <1>1, Shapes
<1>3. id \in Ids /\ id[1] = Addr(1) /\ id[1] \in Addrs
  BY <1>2, Shapes DEF Addr
<1>4. CASE Head(queue).op = "cancel" /\ CancelInLoop(id)
  <2> HIDE DEF id
  <2>1. /\ timers_' \subseteq timers_ /\ activeTimers_' \subseteq Ids
        /\ cancelingTimers_' \subseteq Ids /\ timerfd' = timerfd
        /\ heap' \in [Addrs -> Timer \cup {Null}]
        /\ activeTimers_' = {<<e[2], heap'[e[2]].seq>> : e \in timers_'}
        /\ \A e \in timers_' \cup expired : heap'[e[2]] = heap[e[2]]
        /\ \A i \in DOMAIN queue : IsAdd(i) => heap'[Addr(i)] = heap[Addr(i)]
        /\ SeqsUnique' /\ CancelNoted'
    BY <1>1, <1>3, <1>4, CancelInLoopKeeps, Zenon
  <2>2. TypeOK'
    BY <1>1, <1>2, <2>1, Zenon DEF TimerInv, TypeOK, Timer, Functor
  <2>3. OwnedOnce'
    <3> DEFINE g == [i \in DOMAIN queue' |-> i + 1]
    <3>1. \A i \in DOMAIN queue' : queue'[i].op = "add" =>
             g[i] \in DOMAIN queue /\ queue'[i] = queue[g[i]]
      BY <1>2, Zenon
    <3>2. \A i, j \in DOMAIN queue' : g[i] = g[j] => i = j
      <4>1. \A i, j \in Nat : i + 1 = j + 1 => i = j
        OBVIOUS
      <4> QED
        BY <1>2, <4>1, Zenon
    <3> HIDE DEF g
    <3>3. /\ timers_' \cup expired' \subseteq timers_ \cup expired
          /\ \A e \in timers_' \cup expired' : heap'[e[2]] = heap[e[2]]
          /\ \A i \in DOMAIN queue : IsAdd(i) => heap'[Addr(i)] = heap[Addr(i)]
      BY <1>1, <2>1, Zenon
    <3>4. \A e \in expired', f \in timers_' : e[2] # f[2]
      BY <1>1, <2>1, Owners, Zenon
    <3> QED
      BY <3>1, <3>2, <3>3, <3>4, OwnersStay, Zenon
  <2>4. IsFiniteSet(timers_')
    BY <2>1, FS_Subset, Zenon DEF TimerInv
  <2> QED
    BY <1>1, <2>1, <2>2, <2>3, <2>4, Zenon DEF TimerInv
<1>5. CASE /\ Head(queue).op = "add" /\ AddTimerInLoop(id[1], heap[id[1]])
           /\ UNCHANGED <<heap, cancelingTimers_>>
  <2>1. /\ IsAdd(1) /\ heap[id[1]] # Null /\ \A e \in timers_ \cup expired : e[2] # id[1]
    <3>1. 1 \in DOMAIN queue /\ IsAdd(1)
      BY <1>2, <1>5, Zenon DEF IsAdd
    <3> QED
      BY <1>3, <3>1, Owners, Zenon
  <2> HIDE DEF id
  <2>2. heap[id[1]] \in Timer /\ heap' \in [Addrs -> Timer \cup {Null}]
    BY <1>3, <1>5, <2>1, Shapes
  <2>3. /\ timers_' \subseteq Entries /\ activeTimers_' \subseteq Ids
        /\ timerfd' \in Times \cup {0, Null}
        /\ IsFiniteSet(timers_')
        /\ activeTimers_' = {<<e[2], heap'[e[2]].seq>> : e \in timers_'}
        /\ \A e \in timers_' \cup expired' : heap'[e[2]] # Null /\ heap'[e[2]].exp = e[1]
        /\ \A e \in expired', f \in timers_' : e[2] # f[2]
    BY <1>1, <1>3, <1>5, <2>1, <2>2, InsertKeeps, Zenon
  <2>4. timers_' = timers_ \cup {<<heap[id[1]].exp, id[1]>>} /\ cancelled' = cancelled
    BY <1>5, Zenon DEF AddTimerInLoop
  <2>5. \A e \in timers_' \cup expired' : e \in timers_ \cup expired \/ e[2] = id[1]
    <3>1. expired' = expired
      BY <1>1, Zenon
    <3>2. <<heap[id[1]].exp, id[1]>>[2] = id[1]
      BY Zenon
    <3> QED
      BY <2>4, <3>1, <3>2, Zenon
  <2>6. ASSUME NEW i \in DOMAIN queue', IsAdd(i)'
        PROVE  /\ heap'[Addr(i)'] # Null /\ heap'[Addr(i)'].seq = queue'[i].id[2]
               /\ \A e \in timers_' \cup expired' : e[2] # Addr(i)'
    <3>1. /\ i + 1 \in DOMAIN queue /\ IsAdd(i + 1) /\ Addr(i)' = Addr(i + 1)
          /\ queue'[i] = queue[i + 1]
      BY <1>2, <2>6 DEF IsAdd, Addr
    <3>2. Addr(i + 1) # id[1]
      BY <1>2, <1>3, <2>1, <3>1, Zenon DEF TimerInv, OwnedOnce
    <3> QED
      BY <1>5, <2>5, <3>1, <3>2, Zenon DEF TimerInv, OwnedOnce
  <2>7. \A i, j \in DOMAIN queue' : IsAdd(i)' /\ IsAdd(j)' /\ Addr(i)' = Addr(j)' => i = j
    <3>1. \A i \in DOMAIN queue' : IsAdd(i)' => IsAdd(i + 1) /\ Addr(i)' = Addr(i + 1)
      BY <1>2 DEF IsAdd, Addr
    <3> QED
      BY <1>2, <3>1 DEF TimerInv, OwnedOnce
  <2>8. OwnedOnce'
    BY <2>3, <2>6, <2>7 DEF OwnedOnce
  <2>9. SeqsUnique' /\ CancelNoted'
    BY <1>1, <1>5, <2>4, Zenon DEF TimerInv, SeqsUnique, CancelNoted
  <2>10. TypeOK'
    BY <1>1, <1>2, <1>5, <2>2, <2>3, Zenon DEF TimerInv, TypeOK, Timer, Functor
  <2> QED
    BY <1>1, <2>3, <2>8, <2>9, <2>10, Zenon DEF TimerInv
<1> QED
  BY <1>4, <1>5, Zenon DEF RunQueued

(***************************************************************************)
(* HandleRead and time.                                                    *)
(***************************************************************************)
\* GetExpired moves the timers that are due from the sets to the vector.
LEMMA HandleReadKeeps ==
  ASSUME TimerInv, HandleRead
  PROVE  TimerInv'
<1> DEFINE due == GetExpired
<1>1. /\ expired = {} /\ expired' = due /\ toRun' = due /\ timers_' = timers_ \ due
      /\ activeTimers_' = ActiveAfter(due)
      /\ handleNow' = now /\ timerfd' \in {timerfd, Null} /\ cancelingTimers_' = {}
      /\ UNCHANGED <<now, steps, heap, sNumCreated, queue, adding, ids, cancelled>>
  BY Zenon DEF HandleRead, TimerInv
<1>2. callingExpiredTimers_' = TRUE /\ polled' = FALSE
  BY DEF HandleRead
<1>3. due \subseteq timers_
  BY DEF GetExpired
<1> HIDE DEF due
<1>4. activeTimers_' = {<<e[2], heap'[e[2]].seq>> : e \in timers_'}
  <2>1. \A id : id \in activeTimers_' <=>
            id \in activeTimers_ /\ ~\E e \in due : id = <<e[2], heap[e[2]].seq>>
    BY <1>1 DEF ActiveAfter
  <2>2. \A e, f \in timers_ : <<e[2], heap[e[2]].seq>> = <<f[2], heap[f[2]].seq>> => e = f
    BY Shapes
  <2> QED
    BY <1>1, <1>3, <2>1, <2>2, ActiveIds
<1>5. TypeOK'
  <2>1. activeTimers_' \subseteq Ids
    BY <1>1, Zenon DEF TimerInv, TypeOK, ActiveAfter
  <2>2. callingExpiredTimers_' \in BOOLEAN /\ polled' \in BOOLEAN
    BY <1>2, Zenon
  <2>3. handleNow' \in 0..MaxTime
    <3>1. handleNow' = now /\ now \in 1..MaxTime
      BY <1>1, Zenon DEF TimerInv, TypeOK
    <3>2. 1..MaxTime \subseteq 0..MaxTime
      BY TimerQueueAssumption
    <3> QED
      BY <3>1, <3>2, Zenon
  <2> QED
    BY <1>1, <1>3, <2>1, <2>2, <2>3, Zenon DEF TimerInv, TypeOK
<1>6. IsFiniteSet(timers_') /\ IsFiniteSet(expired')
  BY <1>1, <1>3, FS_Subset DEF TimerInv
<1>7. OwnedOnce'
  <2>1. \A e \in expired', f \in timers_' : e[2] # f[2]
    BY <1>1, <1>3, Shapes
  <2>2. timers_' \cup expired' \subseteq timers_ \cup expired
    BY <1>1, <1>3
  <2> QED
    <3> DEFINE g == [i \in DOMAIN queue |-> i]
    <3>1. queue' = queue /\ heap' = heap
      BY <1>1, Zenon
    <3>2. /\ \A i \in DOMAIN queue' : queue'[i].op = "add" =>
                g[i] \in DOMAIN queue /\ queue'[i] = queue[g[i]]
          /\ \A i, j \in DOMAIN queue' : g[i] = g[j] => i = j
      BY <3>1, Zenon
    <3> HIDE DEF g
    <3>3. /\ \A e \in timers_' \cup expired' : heap'[e[2]] = heap[e[2]]
          /\ \A i \in DOMAIN queue : IsAdd(i) => heap'[Addr(i)] = heap[Addr(i)]
      BY <3>1, Zenon
    <3> QED
      BY <2>1, <2>2, <3>2, <3>3, OwnersStay, Zenon
<1>8. SeqsUnique' /\ CancelNoted'
  BY <1>1, Zenon DEF TimerInv, SeqsUnique, CancelNoted
<1> QED
  BY <1>2, <1>4, <1>5, <1>6, <1>7, <1>8 DEF TimerInv

\* A poll, a callback, a tick and a step of the wall clock leave the Timers alone.
LEMMA RunAndTimeKeep ==
  ASSUME TimerInv, Poll \/ Tick \/ StepClock \/ \E e \in toRun : Run(e)
  PROVE  TimerInv'
<1>1. /\ UNCHANGED <<heap, sNumCreated, timers_, activeTimers_, cancelingTimers_, expired,
                     callingExpiredTimers_, queue, cancelled, handleNow, adding, ids>>
      /\ toRun' \subseteq toRun
  BY DEF Poll, Tick, StepClock, Run, setVars, handleVars
<1>6. polled' \in BOOLEAN
  BY Zenon DEF Poll, Tick, StepClock, Run, handleVars, TimerInv, TypeOK
<1>2. now' \in 1..MaxTime
  <2>1. CASE Tick
    <3>1. now \in Int /\ MaxTime \in Int /\ 1 <= now /\ now <= MaxTime
      BY TimerQueueAssumption DEF TimerInv, TypeOK
    <3>2. now' = IF now + 1 <= MaxTime THEN now + 1 ELSE MaxTime
      BY <2>1, <3>1, MinMaxOfTwo DEF Tick
    <3> QED
      BY <3>1, <3>2
  <2> QED
    BY <2>1, Zenon DEF Poll, StepClock, Run, TimerInv, TypeOK
<1>3. timerfd' \in Times \cup {0, Null}
  <2>1. CASE Tick
    <3>1. timerfd \in Times => timerfd - 1 \in Times \cup {0}
      BY TimesType
    <3> QED
      BY <2>1, <3>1, Zenon DEF Tick, TimerInv, TypeOK
  <2> QED
    BY <2>1, Zenon DEF Poll, StepClock, Run, TimerInv, TypeOK
<1>4. steps' \in 0..ClockSteps
  <2>1. steps \in 0..ClockSteps /\ ClockSteps \in Nat
    BY TimerQueueAssumption, Zenon DEF TimerInv, TypeOK
  <2>2. steps' = steps \/ (steps < ClockSteps /\ steps' = steps + 1)
    BY Zenon DEF Poll, Tick, StepClock, Run
  <2> QED
    BY <2>1, <2>2
<1>5. TypeOK'
  BY <1>1, <1>2, <1>3, <1>4, <1>6, Zenon DEF TimerInv, TypeOK
<1> QED
  BY <1>1, <1>5, FrameKeeps

\* Reset restarts the expired timers that repeat and were not cancelled, under new
\* entries, and frees the others.
LEMMA ResetKeeps ==
  ASSUME TimerInv, Reset
  PROVE  TimerInv'
<1> DEFINE restarted == {e[2] : e \in {x \in expired : Restarts(x)}}
           deleted == {e[2] : e \in expired} \ restarted
           entry(a) == <<handleNow + heap[a].interval, a>>
           new == {entry(a) : a \in restarted}
<1>1. /\ timers_' = timers_ \cup new
      /\ heap' = [a \in Addrs |-> IF a \in deleted THEN Null
                                  ELSE IF a \in restarted THEN Restart(heap[a]) ELSE heap[a]]
      /\ activeTimers_' = activeTimers_ \cup {<<a, heap[a].seq>> : a \in restarted}
      /\ timerfd' = NextExpire(timers_ \cup new, restarted)
      /\ expired' = {} /\ handleNow' = 0 /\ toRun' = {}
      /\ UNCHANGED <<now, steps, sNumCreated, cancelingTimers_, queue, adding, ids, cancelled>>
  BY Zenon DEF Reset
<1>2. callingExpiredTimers_' = FALSE /\ polled' = polled
  BY Zenon DEF Reset
<1>3. \A a \in restarted :
         /\ a \in Addrs /\ heap[a] \in Timer /\ heap[a].interval > 0
         /\ <<a, heap[a].seq>> \notin cancelingTimers_
         /\ \E e \in expired : e[2] = a
  BY Shapes, ZenonT(40) DEF Restarts, TimerInv, OwnedOnce
<1>4. \A a \in deleted : a \in Addrs /\ \E e \in expired : e[2] = a
  BY Shapes
<1>5. \A e \in expired : e[2] \in restarted \/ e[2] \in deleted
  OBVIOUS
<1>6. IsFiniteSet(new)
  <2> DEFINE f == [e \in expired |-> entry(e[2])]
  <2>1. f \in Surjection(expired, Range(f))
    BY DEF Surjection, Range
  <2>2. IsFiniteSet(Range(f))
    BY <2>1, FS_Surjection DEF TimerInv
  <2>3. new \subseteq Range(f)
    BY DEF Range
  <2> QED
    BY <2>2, <2>3, FS_Subset
<1>7. \A a \in restarted :
         /\ Restart(heap[a]) \in Timer /\ Restart(heap[a]).seq = heap[a].seq
         /\ Restart(heap[a]).exp = handleNow + heap[a].interval
         /\ handleNow + heap[a].interval \in Times
  <2>1. ASSUME NEW a \in restarted
        PROVE  handleNow + heap[a].interval \in Times
    <3>1. heap[a].interval \in Intervals /\ heap[a].interval > 0 /\ handleNow \in 0..MaxTime
      BY <1>3, Zenon DEF TimerInv, TypeOK, Timer
    <3>2. Intervals \subseteq Nat /\ MaxTime \in Nat
      BY TimerQueueAssumption
    <3> HIDE DEF restarted, deleted, new, entry
    <3>3. heap[a].interval \in Nat
      BY <3>1, <3>2, Zenon
    <3>4. handleNow \in Nat
      BY <3>1, <3>2
    <3>5. handleNow + heap[a].interval > 0
      BY <3>1, <3>3, <3>4
    <3> QED
      BY <3>1, <3>5, TimesType
  <2> QED
    BY <1>3, <2>1, Zenon DEF Restart, Timer
<1>8. \A e \in new : /\ e[2] \in restarted /\ e[1] = handleNow + heap[e[2]].interval
                      /\ e = <<e[1], e[2]>>
  OBVIOUS
<1>9. \A a \in restarted : entry(a) \in new /\ entry(a)[2] = a
  OBVIOUS
<1>10. \A a \in restarted : a \notin deleted
  OBVIOUS
<1>11. \A id : id \in {<<a, heap[a].seq>> : a \in restarted} <=>
               \E a \in restarted : id = <<a, heap[a].seq>>
  OBVIOUS
<1> HIDE DEF restarted, deleted, new, entry
<1>12. new \subseteq Entries
  <2>1. \A e \in new : e[1] \in Times /\ e[2] \in Addrs /\ e = <<e[1], e[2]>>
    BY <1>3, <1>7, <1>8, Zenon
  <2> QED
    BY <2>1 DEF Entries
<1>13. /\ heap' \in [Addrs -> Timer \cup {Null}]
       /\ \A a \in deleted : heap'[a] = Null
       /\ \A a \in restarted : heap'[a] = Restart(heap[a])
       /\ \A a \in Addrs : (\A e \in expired : e[2] # a) => heap'[a] = heap[a]
  BY <1>1, <1>3, <1>4, <1>7, <1>10, Shapes, Zenon
<1>14. \A e \in timers_ : heap'[e[2]] = heap[e[2]] /\ e[2] \notin restarted
  <2>1. \A e \in timers_ : e[2] \in Addrs /\ \A x \in expired : x[2] # e[2]
    BY Shapes DEF TimerInv, OwnedOnce
  <2> QED
    BY <1>3, <1>13, <2>1, ZenonT(40)
<1>15. activeTimers_' = {<<e[2], heap'[e[2]].seq>> : e \in timers_'}
  <2> DEFINE Old(id)   == \E e \in timers_ : id = <<e[2], heap[e[2]].seq>>
             Kept(id)  == \E e \in timers_ : id = <<e[2], heap'[e[2]].seq>>
             Again(id) == \E a \in restarted : id = <<a, heap[a].seq>>
             Fresh(id) == \E e \in new : id = <<e[2], heap'[e[2]].seq>>
             After(id) == \E e \in timers_' : id = <<e[2], heap'[e[2]].seq>>
  <2>1. \A id : id \in activeTimers_' <=> Old(id) \/ Again(id)
    BY <1>1, <1>11, ActiveIds, Zenon
  <2>2. \A id : Again(id) <=> Fresh(id)
    BY <1>7, <1>8, <1>9, <1>13
  <2>3. \A id : Old(id) <=> Kept(id)
    BY <1>14, Zenon
  <2>4. \A id : After(id) <=> Kept(id) \/ Fresh(id)
    <3>1. timers_' = timers_ \cup new
      BY <1>1, Zenon
    <3> QED
      BY <3>1, Zenon
  <2>5. \A id : id \in activeTimers_' <=> After(id)
    <3> HIDE DEF Old, Kept, Again, Fresh, After
    <3> QED
      BY <2>1, <2>2, <2>3, <2>4, Zenon
  <2> QED
    BY <2>5
<1>16. OwnedOnce'
  <2>1. \A e \in timers_' \cup expired' : heap'[e[2]] # Null /\ heap'[e[2]].exp = e[1]
    <3>1. \A e \in new : heap'[e[2]] # Null /\ heap'[e[2]].exp = e[1]
      BY <1>7, <1>8, <1>13, NullIsNoTimer
    <3>2. \A e \in timers_ : heap'[e[2]] # Null /\ heap'[e[2]].exp = e[1]
      BY <1>14, Zenon DEF TimerInv, OwnedOnce
    <3> QED
      BY <1>1, <3>1, <3>2, Zenon
  <2>2. ASSUME NEW i \in DOMAIN queue', IsAdd(i)'
        PROVE  /\ heap'[Addr(i)'] # Null /\ heap'[Addr(i)'].seq = queue'[i].id[2]
               /\ \A e \in timers_' \cup expired' : e[2] # Addr(i)'
    <3>1. i \in DOMAIN queue /\ IsAdd(i) /\ Addr(i)' = Addr(i) /\ queue' = queue
      BY <1>1, <2>2, Zenon DEF IsAdd, Addr
    <3>2. Addr(i) \in Addrs /\ \A e \in timers_ \cup expired : e[2] # Addr(i)
      BY <3>1, Shapes, Zenon DEF TimerInv, OwnedOnce
    <3>3. Addr(i) \notin restarted /\ heap'[Addr(i)] = heap[Addr(i)]
      BY <1>3, <1>13, <3>2, Zenon
    <3> QED
      BY <1>1, <1>8, <3>1, <3>2, <3>3, Zenon DEF TimerInv, OwnedOnce
  <2>3. \A i, j \in DOMAIN queue' : IsAdd(i)' /\ IsAdd(j)' /\ Addr(i)' = Addr(j)' => i = j
    BY <1>1, Zenon DEF TimerInv, OwnedOnce, IsAdd, Addr
  <2> QED
    BY <1>1, <2>1, <2>2, <2>3, Zenon DEF OwnedOnce
<1>17. \A a \in Addrs : heap'[a] # Null => heap[a] # Null /\ heap'[a].seq = heap[a].seq
  <2>1. \A a \in restarted : heap[a] # Null
    BY <1>3, NullIsNoTimer, Zenon
  <2> QED
    BY <1>5, <1>7, <1>13, <2>1
<1>18. SeqsUnique'
  <2>1. \A a \in Addrs : heap'[a] # Null => heap'[a].seq < sNumCreated'
    BY <1>1, <1>17, Zenon DEF TimerInv, SeqsUnique
  <2>2. ASSUME NEW a \in Addrs, NEW b \in Addrs,
               heap'[a] # Null, heap'[b] # Null, heap'[a].seq = heap'[b].seq
        PROVE  a = b
    <3>1. heap[a] # Null /\ heap[b] # Null /\ heap[a].seq = heap[b].seq
      BY <1>17, <2>2, Zenon
    <3> QED
      BY <3>1, Zenon DEF TimerInv, SeqsUnique
  <2> QED
    BY <2>1, <2>2, Zenon DEF SeqsUnique
<1>19. CancelNoted'
  <2>1. ASSUME NEW s \in 0..MaxSeq, <<s, TRUE>> \in cancelled, NEW a \in Addrs,
               heap'[a] # Null, heap'[a].seq = s
        PROVE  FALSE
    <3>1. /\ heap[a] # Null /\ heap[a].seq = s
          /\ <<a, s>> \in cancelingTimers_ /\ \E e \in expired : e[2] = a
      BY <1>17, <2>1, Zenon DEF TimerInv, CancelNoted
    <3> QED
      BY <1>3, <1>5, <1>13, <2>1, <3>1
  <2> QED
    BY <1>1, <2>1, Zenon DEF TimerInv, CancelNoted
<1>20. TypeOK'
  <2>1. timerfd' \in Times \cup {0, Null}
    <3>1. CASE timers_ \cup new = {}
      BY <1>1, <3>1, Zenon DEF NextExpire, TimerInv, TypeOK
    <3>2. CASE timers_ \cup new # {}
      <4>1. Min(Time(timers_ \cup new)) \in Times
        BY <1>12, <3>2, Earliest, Zenon DEF TimerInv, TypeOK
      <4> QED
        BY <1>1, <3>2, <4>1, HowMuch, Zenon DEF NextExpire, TimerInv
    <3> QED
      BY <3>1, <3>2
  <2>2. activeTimers_' \subseteq Ids
    <3>1. \A a \in restarted : <<a, heap[a].seq>> \in Ids
      BY <1>3 DEF Ids, Timer
    <3> QED
      BY <1>1, <1>11, <3>1, Zenon DEF TimerInv, TypeOK
  <2>3. callingExpiredTimers_' \in BOOLEAN /\ polled' \in BOOLEAN
    BY <1>2, Zenon DEF TimerInv, TypeOK
  <2>4. handleNow' \in 0..MaxTime
    <3>1. 0 \in 0..MaxTime
      BY TimerQueueAssumption
    <3> QED
      BY <1>1, <3>1, Zenon
  <2> QED
    BY <1>1, <1>12, <1>13, <2>1, <2>2, <2>3, <2>4, Zenon DEF TimerInv, TypeOK, Timer
<1>21. IsFiniteSet(timers_') /\ IsFiniteSet(expired')
  BY <1>1, <1>6, FS_Union, FS_EmptySet, Zenon DEF TimerInv
<1> QED
  BY <1>1, <1>15, <1>16, <1>18, <1>19, <1>20, <1>21, Zenon DEF TimerInv

(***************************************************************************)
(* The invariant.                                                          *)
(***************************************************************************)
\* No timer is there at first.
LEMMA TimerInvInit == Init => TimerInv
<1> SUFFICES ASSUME Init PROVE TimerInv
  OBVIOUS
<1>0. polled \in BOOLEAN /\ callingExpiredTimers_ \in BOOLEAN
  BY Zenon DEF Init
<1>1. /\ queue \in Seq(Functor) /\ DOMAIN queue = {}
      /\ heap \in [Addrs -> Timer \cup {Null}] /\ adding \in [Threads -> Ids \cup {Null}]
  BY DEF Init
<1>2. TypeOK
  BY <1>0, <1>1, TimerQueueAssumption DEF Init, TypeOK, Functor, Timer
<1>3. IsFiniteSet(timers_) /\ IsFiniteSet(expired)
  BY FS_EmptySet DEF Init
<1>4. OwnedOnce /\ SeqsUnique /\ CancelNoted
  BY <1>1, Zenon DEF Init, OwnedOnce, SeqsUnique, CancelNoted
<1> QED
  BY <1>2, <1>3, <1>4, Zenon DEF Init, TimerInv

\* Every step keeps the Timers, their owners and the cancellations in order.
LEMMA TimerInvStep ==
  ASSUME TimerInv, [Next]_vars
  PROVE  TimerInv'
<1>1. CASE Call
  <2>1. ASSUME NEW a \in Addrs, NEW when \in Times, NEW i \in Intervals,
               AddTimerHere(a, when, i)
        PROVE  TimerInv'
    BY <2>1, AddTimerHereKeeps
  <2>2. ASSUME NEW a \in Addrs, NEW when \in Times, NEW i \in Intervals, NEW t \in Threads,
               AddTimer(t, a, when, i)
        PROVE  TimerInv'
    BY <2>2, AddTimerKeeps
  <2>3. ASSUME NEW t \in Threads, AddTimerReturns(t)
        PROVE  TimerInv'
    BY <2>3, AddTimerReturnsKeeps
  <2>4. ASSUME NEW id \in ids, CancelHere(id)
        PROVE  TimerInv'
    BY <2>4, CancelHereKeeps
  <2>5. ASSUME NEW id \in ids, Cancel(id)
        PROVE  TimerInv'
    BY <2>5, CancelKeeps
  <2> QED
    BY <1>1, <2>1, <2>2, <2>3, <2>4, <2>5 DEF Call
<1>2. CASE RunQueued
  BY <1>2, RunQueuedKeeps
<1>3. CASE HandleRead
  BY <1>3, HandleReadKeeps
<1>4. CASE Reset
  BY <1>4, ResetKeeps
<1>5. CASE Poll \/ Tick \/ StepClock \/ \E e \in toRun : Run(e)
  BY <1>5, RunAndTimeKeep
<1>6. CASE UNCHANGED vars
  <2>1. UNCHANGED <<now, steps, timerfd, heap, sNumCreated, timers_, activeTimers_,
                    cancelingTimers_, polled, callingExpiredTimers_, expired, toRun, handleNow,
                    queue, adding, ids, cancelled>>
    BY <1>6 DEF vars, setVars, handleVars
  <2>2. TypeOK'
    BY <2>1, Zenon DEF TimerInv, TypeOK
  <2> QED
    BY <2>1, <2>2, FrameKeeps
<1> QED
  BY <1>1, <1>2, <1>3, <1>4, <1>5, <1>6 DEF Next

\* The inductive invariant holds.
LEMMA TimerInvHolds == Spec => []TimerInv
BY TimerInvInit, TimerInvStep, PTL DEF Spec

\* For every set of threads and addresses, any timers and any steps of the clock: the two
\* sets of raw pointers and the vector of HandleRead agree with each other and hold only
\* Timers that are alive, whatever is added and cancelled, from the callbacks too.
THEOREM SetsStayConsistent == Spec => []TimersConsistent
<1>1. TimerInv => TimersConsistent
  <2> SUFFICES ASSUME TimerInv PROVE TimersConsistent
    OBVIOUS
  <2> DEFINE id(e) == <<e[2], heap[e[2]].seq>>
             f == [e \in timers_ |-> id(e)]
  <2>1. \A e, x \in timers_ : id(e) = id(x) => e = x
    BY Shapes
  <2>2. f \in Bijection(timers_, activeTimers_)
    <3>1. f \in [timers_ -> activeTimers_]
      BY ActiveIds
    <3>2. \A x \in activeTimers_ : \E e \in timers_ : f[e] = x
      BY ActiveIds
    <3>3. \A e, x \in timers_ : f[e] = f[x] => e = x
      BY <2>1
    <3> QED
      BY <3>1, <3>2, <3>3 DEF Bijection, Injection, Surjection, IsInjective
  <2>3. Cardinality(timers_) = Cardinality(activeTimers_)
    BY <2>2, FS_Bijection DEF ExistsBijection, TimerInv
  <2>4. ExpiredAlive
    <3>1. \A x \in activeTimers_ : \E e \in timers_ : x[1] = e[2]
      BY ActiveIds
    <3> QED
      BY <3>1, Owners, Zenon DEF ExpiredAlive
  <2> QED
    BY <2>3, <2>4, Zenon DEF TimerInv, OwnedOnce, SetsAgree, TimersConsistent
<1> QED
  BY <1>1, TimerInvHolds, PTL

\* A timer that Cancel has found, in the sets or in the vector of HandleRead, never
\* becomes active again: Reset does not restart it, and its sequence is not reused.
THEOREM CancelledStaysOut == Spec => []CancelIsFinal
<1>1. TimerInv => CancelIsFinal
  <2> SUFFICES ASSUME TimerInv, NEW id \in activeTimers_, <<id[2], TRUE>> \in cancelled
               PROVE  FALSE
    BY Zenon DEF CancelIsFinal
  <2>1. PICK e \in timers_ : id = <<e[2], heap[e[2]].seq>>
    BY ActiveIds
  <2>2. /\ e[2] \in Addrs /\ heap[e[2]] # Null /\ heap[e[2]].seq \in 0..MaxSeq
        /\ id[2] = heap[e[2]].seq
    BY <2>1, Shapes, Zenon DEF TimerInv, OwnedOnce, Timer
  <2>3. \E x \in expired : x[2] = e[2]
    BY <2>2, Zenon DEF TimerInv, CancelNoted
  <2> QED
    BY <2>3, Zenon DEF TimerInv, OwnedOnce
<1> QED
  BY <1>1, TimerInvHolds, PTL

(***************************************************************************)
(* The timerfd.                                                            *)
(***************************************************************************)
\* TimerfdArmed without minima: between two calls of HandleRead an armed timerfd goes off
\* in a tick or before any timer is due.
InTime ==
    timers_ # {} /\ ~callingExpiredTimers_ =>
        /\ timerfd # Null
        /\ steps = 0 => timerfd <= 1 \/ \A e \in timers_ : timerfd + now <= e[1]

\* Numbers for the clock, the timerfd and the entries.
LEMMA Numbers ==
  ASSUME TypeOK
  PROVE  /\ now \in Nat \ {0} /\ steps \in Nat
         /\ timerfd # Null => timerfd \in Nat
         /\ \A e \in timers_ : e[1] \in Nat
<1>1. \A e \in timers_ : e[1] \in Times
  BY DEF TypeOK, Entries
<1>2. now \in Nat \ {0} /\ steps \in Nat
  BY TimerQueueAssumption DEF TypeOK
<1>3. timerfd # Null => timerfd \in Nat
  BY TimesType DEF TypeOK
<1> QED
  BY <1>1, <1>2, <1>3, TimesType, Zenon

\* InTime says at least what TimerfdArmed says.
LEMMA InTimeIsArmed ==
  ASSUME TypeOK, InTime
  PROVE  TimerfdArmed
<1>1. Armed
  BY DEF InTime, Armed
<1>2. ASSUME timers_ # {}, ~callingExpiredTimers_, steps = 0
      PROVE  timerfd # Null /\ timerfd <= Max({1, Min(Time(timers_)) - now})
  <2>1. timerfd # Null /\ (timerfd <= 1 \/ \A e \in timers_ : timerfd + now <= e[1])
    BY <1>2 DEF InTime
  <2>2. PICK e \in timers_ : e[1] = Min(Time(timers_))
    BY <1>2, Earliest DEF TypeOK
  <2>3. e[1] - now \in Int /\ timerfd \in Nat /\ now \in Nat
    BY <2>1, Numbers
  <2>4. PICK left \in Int : left = e[1] - now
    BY <2>3
  <2>5. Max({1, left}) = IF 1 >= left THEN 1 ELSE left
    BY MinMaxOfTwo
  <2>6. timerfd <= 1 \/ timerfd <= left
    BY <2>1, <2>3, <2>4, Numbers
  <2>7. timerfd <= Max({1, left})
    BY <2>3, <2>5, <2>6
  <2> QED
    BY <2>1, <2>2, <2>4, <2>7
<1> QED
  BY <1>1, <1>2 DEF ArmedInTime, TimerfdArmed

\* Steps after which there are no other timers, no more calls and no later timerfd.
LEMMA InTimeFrame ==
  ASSUME InTime, timers_' \subseteq timers_,
         UNCHANGED <<now, steps, timerfd, callingExpiredTimers_>>
  PROVE  InTime'
BY DEF InTime

\* Arming for the earliest of some entries.
LEMMA ArmForEarliest ==
  ASSUME TypeOK, timers_' \subseteq Entries, timers_' # {}, now' = now,
         timerfd' = HowMuchTimeFromNow(Min(Time(timers_')))
  PROVE  InTime'
<1>1. /\ Min(Time(timers_')) \in Times
      /\ \A e \in timers_' : Min(Time(timers_')) <= e[1]
      /\ \A e \in timers_' : e[1] \in Nat
  <2>1. \A e \in timers_' : e[1] \in Times
    BY DEF Entries
  <2> QED
    BY <2>1, Earliest, TimesType, Zenon
<1> DEFINE first == Min(Time(timers_'))
<1>2. /\ timerfd' # Null /\ first \in Nat /\ now \in Nat
      /\ timerfd' = IF first - now >= 1 THEN first - now ELSE 1
  BY <1>1, HowMuch, Numbers, TimesType, Zenon
<1>3. timerfd' <= 1 \/ \A e \in timers_' : timerfd' + now <= e[1]
  BY <1>1, <1>2
<1> QED
  BY <1>2, <1>3 DEF InTime

\* Insert re-arms the timerfd for a new first timer, and only then.
LEMMA InsertInTime ==
  ASSUME TypeOK, InTime, NEW a \in Addrs, NEW tm \in Timer, AddTimerInLoop(a, tm),
         UNCHANGED <<now, steps, callingExpiredTimers_>>
  PROVE  InTime'
<1> DEFINE new == <<tm.exp, a>>
<1>1. /\ timers_' = timers_ \cup {new} /\ new \in Entries /\ new[1] = tm.exp
      /\ tm.exp \in Nat /\ tm.exp \in Times
      /\ timerfd' = IF EarliestChanged(tm.exp, timers_)
                    THEN HowMuchTimeFromNow(tm.exp) ELSE timerfd
  BY TimesType, Zenon DEF AddTimerInLoop, Timer, Entries
<1> HIDE DEF new
<1>2. timers_' \subseteq Entries /\ timers_' # {} /\ timers_ \subseteq Entries
  BY <1>1, Zenon DEF TypeOK
<1>3. CASE EarliestChanged(tm.exp, timers_)
  <2>1. \A e \in timers_ : tm.exp <= e[1]
    <3>1. CASE timers_ # {}
      <4> DEFINE least == Min(Time(timers_))
      <4>1. /\ least \in Nat /\ \A e \in timers_ : least <= e[1] /\ e[1] \in Nat
        BY <1>2, <3>1, Earliest, Numbers, TimesType, Zenon
      <4>2. tm.exp < least
        BY <1>3, <3>1, Zenon DEF EarliestChanged
      <4> HIDE DEF least
      <4> QED
        BY <1>1, <4>1, <4>2
    <3> QED
      BY <3>1
  <2>2. Min(Time(timers_')) = tm.exp
    <3>1. /\ Min(Time(timers_')) \in Times
          /\ \E e \in timers_' : e[1] = Min(Time(timers_'))
          /\ Min(Time(timers_')) <= new[1]
      BY <1>1, <1>2, Earliest
    <3> QED
      <4> DEFINE least == Min(Time(timers_'))
      <4>1. /\ least \in Nat /\ least <= tm.exp /\ tm.exp \in Nat
            /\ \A e \in timers_ : e[1] \in Nat
        BY <1>1, <3>1, Numbers, TimesType, Zenon
      <4>2. PICK e \in timers_' : e[1] = least
        BY <3>1, Zenon
      <4>3. e[1] = tm.exp \/ (e[1] \in Nat /\ tm.exp <= e[1])
        BY <1>1, <2>1, <4>1, Zenon
      <4> HIDE DEF least
      <4>4. least = tm.exp
        BY <4>1, <4>2, <4>3
      <4> QED
        BY <4>4, Zenon DEF least
  <2> QED
    BY <1>1, <1>2, <1>3, <2>2, ArmForEarliest
<1>4. CASE ~EarliestChanged(tm.exp, timers_)
  <2>1. /\ timers_ # {} /\ timerfd' = timerfd
        /\ \E e \in timers_ : e[1] <= tm.exp
    <3>1. timers_ # {} /\ ~(tm.exp < Min(Time(timers_)))
      BY <1>4 DEF EarliestChanged
    <3> DEFINE least == Min(Time(timers_))
    <3>2. least \in Nat /\ \E e \in timers_ : e[1] = least
      BY <1>2, <3>1, Earliest, TimesType, Zenon
    <3>3. timerfd' = timerfd
      BY <1>1, <1>4, Zenon
    <3>4. ~(tm.exp < least)
      BY <3>1
    <3> HIDE DEF least
    <3>5. \E e \in timers_ : e[1] <= tm.exp
      BY <1>1, <3>2, <3>4
    <3> QED
      BY <3>1, <3>3, <3>5
  <2> QED
    BY <1>1, <2>1, Numbers DEF InTime
<1> QED
  BY <1>3, <1>4

\* A cancellation leaves the timerfd armed, perhaps too early.
LEMMA CancelInTime ==
  ASSUME InTime, NEW id, CancelInLoop(id), UNCHANGED <<now, steps, callingExpiredTimers_>>
  PROVE  InTime'
<1>1. timers_' \subseteq timers_ /\ timerfd' = timerfd
  BY Zenon DEF CancelInLoop
<1> QED
  BY <1>1, InTimeFrame

\* Every step leaves the timerfd armed in time; only a step of the wall clock may
\* make it late.
LEMMA InTimeStep ==
  ASSUME TimerInv, TimerInv', InTime, [Next]_vars
  PROVE  InTime'
<1>0. TypeOK /\ TypeOK'
  BY Zenon DEF TimerInv
<1>1. CASE Call
  <2>1. ASSUME NEW a \in Addrs, NEW when \in Times, NEW i \in Intervals,
               AddTimerHere(a, when, i)
        PROVE  InTime'
    <3>1. NewTimer(when, i) \in Timer
      BY <1>0, Zenon DEF NewTimer, Timer, TypeOK
    <3> QED
      BY <1>0, <2>1, <3>1, InsertInTime DEF AddTimerHere, handleVars
  <2>2. ASSUME NEW a \in Addrs, NEW when \in Times, NEW i \in Intervals, NEW t \in Threads,
               AddTimer(t, a, when, i)
        PROVE  InTime'
    BY <2>2, InTimeFrame DEF AddTimer, setVars, handleVars
  <2>3. ASSUME NEW t \in Threads, AddTimerReturns(t)
        PROVE  InTime'
    BY <2>3, InTimeFrame, Zenon DEF AddTimerReturns, setVars, handleVars
  <2>4. ASSUME NEW id \in ids, CancelHere(id)
        PROVE  InTime'
    BY <2>4, CancelInTime DEF CancelHere, handleVars
  <2>5. ASSUME NEW id \in ids, Cancel(id)
        PROVE  InTime'
    BY <2>5, InTimeFrame DEF Cancel, setVars, handleVars
  <2> QED
    BY <1>1, <2>1, <2>2, <2>3, <2>4, <2>5 DEF Call
<1>2. CASE RunQueued
  <2>1. UNCHANGED <<now, steps, callingExpiredTimers_>>
    BY <1>2 DEF RunQueued, handleVars
  <2>2. CASE Head(queue).op = "cancel" /\ CancelInLoop(Head(queue).id)
    BY <2>1, <2>2, CancelInTime
  <2>3. CASE Head(queue).op = "add" /\ AddTimerInLoop(Head(queue).id[1], heap[Head(queue).id[1]])
    <3>1. queue # <<>> /\ queue \in Seq(Functor)
      BY <1>2, Shapes DEF RunQueued
    <3>2. 1 \in DOMAIN queue /\ Head(queue) = queue[1]
      BY <3>1
    <3>3. IsAdd(1) /\ Addr(1) \in Addrs /\ heap[Addr(1)] # Null /\ Head(queue).id[1] = Addr(1)
      BY <2>3, <3>2, Shapes, Zenon DEF IsAdd, Addr, TimerInv, OwnedOnce
    <3>4. heap[Addr(1)] \in Timer
      BY <3>3, Shapes
    <3> QED
      BY <1>0, <2>1, <2>3, <3>3, <3>4, InsertInTime, Zenon
  <2> QED
    BY <1>2, <2>2, <2>3, Zenon DEF RunQueued
<1>3. CASE HandleRead
  BY <1>3 DEF HandleRead, InTime
<1>4. CASE Reset
  <2> DEFINE restarted == {e[2] : e \in {x \in expired : Restarts(x)}}
  <2>1. now' = now /\ timerfd' = NextExpire(timers_', restarted)
    BY <1>4, Zenon DEF Reset
  <2>2. CASE timers_' = {}
    BY <2>2 DEF InTime
  <2>3. CASE timers_' # {}
    <3>1. timerfd' = HowMuchTimeFromNow(Min(Time(timers_')))
      BY <2>1, <2>3 DEF NextExpire
    <3>2. timers_' \subseteq Entries
      BY <1>0, Zenon DEF TypeOK
    <3> QED
      BY <1>0, <2>1, <2>3, <3>1, <3>2, ArmForEarliest
  <2> QED
    BY <2>2, <2>3
<1>5. CASE Tick
  <2>1. UNCHANGED <<steps, timers_, callingExpiredTimers_>>
    BY <1>5 DEF Tick, setVars, handleVars
  <2>2. now' \in Nat /\ now' <= now + 1
    <3>1. now \in Nat /\ MaxTime \in Nat
      BY <1>0, Numbers, TimerQueueAssumption
    <3>2. now' = IF now + 1 <= MaxTime THEN now + 1 ELSE MaxTime
      BY <1>5, <3>1, MinMaxOfTwo DEF Tick
    <3> QED
      BY <3>1, <3>2
  <2>3. timerfd # Null => timerfd' # Null /\ timerfd' \in Nat
                           /\ (timerfd' = 0 \/ timerfd' = timerfd - 1)
    <3>1. timerfd \in Times => timerfd - 1 \in Nat /\ timerfd - 1 # Null
      BY TimesType, TimerQueueAssumption
    <3> QED
      <4>1. timerfd # Null => timerfd = 0 \/ timerfd \in Times
        BY <1>0, Zenon DEF TypeOK
      <4>2. timerfd' = IF timerfd \in {0, Null} THEN timerfd ELSE timerfd - 1
        BY <1>5, Zenon DEF Tick
      <4>3. 0 \in Nat /\ Null # 0 /\ 0 \notin Times /\ Null \notin Times
        BY TimesType, TimerQueueAssumption
      <4> QED
        BY <3>1, <4>1, <4>2, <4>3, Zenon
  <2> QED
    BY <1>0, <2>1, <2>2, <2>3, Numbers DEF InTime
<1>6. CASE StepClock
  <2>1. steps' # 0
    BY <1>0, <1>6, Numbers DEF StepClock
  <2> QED
    BY <1>6, <2>1 DEF StepClock, InTime, setVars, handleVars
<1>7. CASE Poll \/ \E e \in toRun : Run(e)
  BY <1>7, InTimeFrame DEF Poll, Run, setVars
<1>8. CASE UNCHANGED vars
  BY <1>8, InTimeFrame DEF vars, setVars, handleVars
<1> QED
  BY <1>1, <1>2, <1>3, <1>4, <1>5, <1>6, <1>7, <1>8 DEF Next

\* While there is a timer, the timerfd is armed, and it goes off no later than a tick
\* after the earliest timer is due, as long as the wall clock has not been stepped.
THEOREM TimerfdStaysArmed == Spec => []TimerfdArmed
<1>1. Init => InTime
  BY DEF Init, InTime
<1>2. TimerInv /\ TimerInv' /\ InTime /\ [Next]_vars => InTime'
  BY InTimeStep
<1>3. TimerInv /\ InTime => TimerfdArmed
  BY InTimeIsArmed, Zenon DEF TimerInv
<1> QED
  BY <1>1, <1>2, <1>3, TimerInvHolds, PTL DEF Spec
=============================================================================
