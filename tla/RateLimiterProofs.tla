-------------------------- MODULE RateLimiterProofs --------------------------
(***************************************************************************)
(* Proofs that the rate limiter keeps its promise for any number of        *)
(* requests, keys, limits, windows and retries.                            *)
(*                                                                         *)
(* The invariant is built in three layers, each inductive over the ones    *)
(* before it: what the variables hold (Shape), how entries, the clocks     *)
(* read and the TTL relate (Timing), and what a transaction whose WATCH is *)
(* still good knows about the sorted set (Locking).                        *)
(***************************************************************************)
EXTENDS RateLimiter, FiniteSetTheorems, WellFoundedInduction, TLAPS

USE NoKeyAssumption, KeysAssumption, LimitAssumption, ClockAssumption,
    RetriesAssumption

-----------------------------------------------------------------------------
(* Durations. *)

(* Windows and TTLs are positive and a key outlives its window. *)
LEMMA Durations ==
    ASSUME NEW k \in Keys
    PROVE  /\ WindowOf[k] \in Nat \ {0}
           /\ TtlOf(k) \in Nat
           /\ WindowOf[k] <= TtlOf(k)
<1> DEFINE w == WindowSecondsOf[k]
           t == TicksPerSecond
<1>1. w \in Nat \ {0} /\ t \in Nat \ {0}
  BY WindowAssumption, TickAssumption
<1>2. w * t \in Nat \ {0}
  BY <1>1
<1>3. WindowOf[k] = w * t
  BY DEF WindowOf
<1>4. TtlOf(k) = 2 * (w * t)
  BY <1>1 DEF TtlOf, Max2
<1> HIDE DEF w, t
<1> QED
  BY <1>2, <1>3, <1>4

(* A set of entries that is not empty has an oldest one. *)
LEMMA OldestExists ==
    ASSUME NEW S \in SUBSET Entries, S # {}
    PROVE  /\ OldestScore(S) \in {e.score : e \in S}
           /\ \A e \in S : OldestScore(S) <= e.score
<1> DEFINE T == {e.score : e \in S}
           Less == OpToRel(<, Nat)
<1>1. T \subseteq Nat /\ T # {}
  BY DEF Entries
<1>2. IsWellFoundedOn(Less, Nat)
  BY NatLessThanWellFounded
<1>3. \A u, v \in Nat : u < v => <<u, v>> \in Less
  BY DEF OpToRel
<1> HIDE DEF Less, T
<1>4. PICK s \in T : \A u \in T : ~ (<<u, s>> \in Less)
  BY <1>1, <1>2, WFMin
<1>5. \A u \in T : ~ (u < s)
  BY <1>1, <1>3, <1>4
<1>6. \A u \in T : s <= u
  BY <1>1, <1>5
<1>7. \A e \in S : s <= e.score
  BY <1>6 DEF T
<1> QED
  BY <1>4, <1>7 DEF OldestScore, T

(* The delay announced is a whole number of seconds, at least one, and covers
   what is left of the oldest entry's stay in the window. *)
LEMMA RetryAfterCovers ==
    ASSUME NEW k \in Keys, NEW S \in SUBSET Entries, NEW now \in Nat
    PROVE  /\ RetryAfterSeconds(S, now, k) \in Nat \ {0}
           /\ S # {} => OldestScore(S) + WindowOf[k]
                          <= now + RetryAfterSeconds(S, now, k) * TicksPerSecond
<1> DEFINE t == TicksPerSecond
           left == OldestScore(S) + WindowOf[k] - now
           d == RetryAfterSeconds(S, now, k)
<1>1. t \in Nat \ {0}
  BY TickAssumption
<1>2. CASE S = {}
  BY <1>2 DEF RetryAfterSeconds
<1>3. CASE S # {}
  <2>1. OldestScore(S) \in Nat
    BY <1>3, OldestExists DEF Entries
  <2>2. left \in Int
    BY <2>1, Durations
  <2>3. d = Max2(CeilSeconds(left), 1)
    BY <1>3 DEF RetryAfterSeconds
  <2> HIDE DEF left, d
  <2>4. CeilSeconds(left) \in Int /\ CeilSeconds(left) * t >= left
    <3> DEFINE q == (-left) \div t
    <3>1. q \in Int /\ q * t <= -left
      BY <1>1, <2>2
    <3>2. CeilSeconds(left) = -q
      BY DEF CeilSeconds
    <3> HIDE DEF q, t
    <3>3. (-q) * t = -(q * t)
      BY <3>1, <1>1
    <3> QED
      BY <3>1, <3>2, <3>3, <2>2, <1>1
  <2>5. d \in Nat \ {0} /\ d >= CeilSeconds(left)
    BY <2>3, <2>4 DEF Max2
  <2> HIDE DEF t
  <2>6. d * t >= CeilSeconds(left) * t
    BY <2>4, <2>5, <1>1
  <2>7. d * t >= left
    BY <2>2, <2>4, <2>5, <2>6, <1>1
  <2>8. OldestScore(S) + WindowOf[k] <= now + d * t
    BY <2>1, <2>5, <2>7, <1>1, Durations DEF left
  <2> QED
    BY <2>5, <2>8 DEF d, t
<1> QED
  BY <1>2, <1>3

-----------------------------------------------------------------------------
(* First layer: what the variables hold. *)

InHit == {"clock", "backoff", "rejected"} \cup Calling

HasKey == \A r \in Requests : pc[r] \in InHit => KeyOf(r) \in Keys

FiniteLogs == \A k \in Keys : IsFiniteSet(log[k]) /\ zset[k] \subseteq log[k]

Shape == TypeOK /\ HasKey /\ FiniteLogs

LEMMA ShapeInit == Init => Shape
<1> SUFFICES ASSUME Init PROVE Shape
  OBVIOUS
<1>1. TypeOK
  BY DEF Init, TypeOK, Phases
<1>2. HasKey
  BY DEF Init, HasKey, InHit, Calling, Watching
<1>3. FiniteLogs
  BY FS_EmptySet DEF Init, FiniteLogs
<1> QED
  BY <1>1, <1>2, <1>3 DEF Shape

LEMMA BrokenType ==
    ASSUME TypeOK, NEW K
    PROVE  Broken(K) \in [Requests -> BOOLEAN]
BY DEF TypeOK, Broken

(* What EXEC does to the shared state, whether or not its reply arrives. *)
LEMMA AddShape ==
    ASSUME Shape, NEW r \in Requests, Add(r)
    PROVE  /\ zset' \in [Keys -> SUBSET Entries]
           /\ expireAt' \in [Keys -> Nat]
           /\ dirty' \in [Requests -> BOOLEAN]
           /\ log' \in [Keys -> SUBSET Entries]
           /\ FiniteLogs'
<1> DEFINE k == KeyOf(r)
           entry == EntryOf(r)
<1>1. k \in Keys
  BY DEF Shape, HasKey, Add, InHit, Calling, Watching
<1>2. entry \in Entries
  BY DEF Shape, TypeOK, Entries, EntryOf
<1>3. /\ zset' = [zset EXCEPT ![k] = @ \cup {entry}]
      /\ log' = [log EXCEPT ![k] = @ \cup {entry}]
      /\ expireAt' = [expireAt EXCEPT ![k] = clock + TtlOf(k)]
      /\ dirty' = Broken({k})
  BY DEF Add
<1>4. clock + TtlOf(k) \in Nat
  BY <1>1, Durations DEF Shape, TypeOK
<1> HIDE DEF k, entry
<1>5. /\ zset' \in [Keys -> SUBSET Entries]
      /\ log' \in [Keys -> SUBSET Entries]
      /\ expireAt' \in [Keys -> Nat]
  BY <1>1, <1>2, <1>3, <1>4 DEF Shape, TypeOK
<1>6. dirty' \in [Requests -> BOOLEAN]
  BY <1>3, BrokenType DEF Shape
<1>7. FiniteLogs'
  <2> SUFFICES ASSUME NEW j \in Keys
               PROVE  IsFiniteSet(log'[j]) /\ zset'[j] \subseteq log'[j]
    BY DEF FiniteLogs
  <2>1. IsFiniteSet(log[j]) /\ zset[j] \subseteq log[j]
    BY DEF Shape, FiniteLogs
  <2>2. IsFiniteSet(log[j] \cup {entry})
    BY <2>1, FS_AddElement
  <2>3. /\ log'[j] = IF j = k THEN log[j] \cup {entry} ELSE log[j]
        /\ zset'[j] = IF j = k THEN zset[j] \cup {entry} ELSE zset[j]
    BY <1>1, <1>3 DEF Shape, TypeOK
  <2> QED
    BY <2>1, <2>2, <2>3
<1> QED
  BY <1>5, <1>6, <1>7

LEMMA ShapeNext == Shape /\ [Next]_vars => Shape'
<1> SUFFICES ASSUME Shape, [Next]_vars PROVE Shape'
  OBVIOUS
<1> USE DEF Shape, TypeOK, Phases, Done, Refused, Calling, Watching, InHit, redis
<1>1. CASE Tick
  <2>1. TypeOK'
    BY <1>1, BrokenType DEF Tick
  <2>2. HasKey'
    BY <1>1 DEF Tick, HasKey, KeyOf
  <2>3. FiniteLogs'
    BY <1>1 DEF Tick, FiniteLogs
  <2> QED
    BY <2>1, <2>2, <2>3
<1>2. ASSUME NEW r \in Requests, Arrive(r) PROVE Shape'
  BY <1>2 DEF Arrive, HasKey, KeyOf, FiniteLogs
<1>3. ASSUME NEW r \in Requests, ReadClock(r) PROVE Shape'
  BY <1>3 DEF ReadClock, HasKey, KeyOf, FiniteLogs
<1>4. ASSUME NEW r \in Requests, Trim(r) PROVE Shape'
  <2>1. KeyOf(r) \in Keys
    BY <1>4 DEF Trim, HasKey
  <2>2. TypeOK'
    BY <1>4, <2>1, BrokenType DEF Trim
  <2>3. HasKey'
    BY <1>4 DEF Trim, HasKey, KeyOf
  <2>4. FiniteLogs'
    BY <1>4, <2>1 DEF Trim, FiniteLogs
  <2> QED
    BY <2>2, <2>3, <2>4
<1>5. ASSUME NEW r \in Requests, Watch(r) PROVE Shape'
  BY <1>5 DEF Watch, HasKey, KeyOf, FiniteLogs
<1>6. ASSUME NEW r \in Requests, ReadCount(r) PROVE Shape'
  <2>1. KeyOf(r) \in Keys
    BY <1>6 DEF ReadCount, HasKey
  <2>2. Cardinality(zset[KeyOf(r)]) \in Nat
    BY <2>1, FS_Subset, FS_CardinalityType DEF FiniteLogs
  <2> QED
    BY <1>6, <2>2 DEF ReadCount, HasKey, KeyOf, FiniteLogs
<1>7. ASSUME NEW r \in Requests, ReadOldest(r) PROVE Shape'
  <2>1. KeyOf(r) \in Keys
    BY <1>7 DEF ReadOldest, HasKey
  <2>2. zset[KeyOf(r)] \in SUBSET Entries /\ nowMs[r] \in Nat
    BY <2>1
  <2>3. RetryAfterSeconds(zset[KeyOf(r)], nowMs[r], KeyOf(r)) \in Nat
    BY <2>1, <2>2, RetryAfterCovers
  <2> QED
    BY <1>7, <2>1, <2>3 DEF ReadOldest, HasKey, KeyOf, FiniteLogs
<1>8. ASSUME NEW r \in Requests, Conflict(r) PROVE Shape'
  BY <1>8 DEF Conflict, Retry, HasKey, KeyOf, FiniteLogs
<1>9. ASSUME NEW r \in Requests, Execute(r) PROVE Shape'
  <2>1. /\ FiniteLogs' /\ zset' \in [Keys -> SUBSET Entries] /\ expireAt' \in [Keys -> Nat]
        /\ dirty' \in [Requests -> BOOLEAN] /\ log' \in [Keys -> SUBSET Entries]
    BY <1>9, AddShape DEF Execute
  <2>3. TypeOK'
    BY <1>9, <2>1 DEF Execute
  <2>2. HasKey'
    BY <1>9 DEF Execute, HasKey, KeyOf
  <2> QED
    BY <2>1, <2>2, <2>3
<1>10. ASSUME NEW r \in Requests, ExecuteReplyLost(r) PROVE Shape'
  <2>1. KeyOf(r) \in Keys /\ EntryOf(r) \in Entries
    BY <1>10 DEF ExecuteReplyLost, Add, HasKey, EntryOf, Entries
  <2>2. lost' \in [Keys -> SUBSET Entries]
    BY <1>10, <2>1 DEF ExecuteReplyLost
  <2>3. FiniteLogs' /\ TypeOK'
    BY <1>10, <2>2, AddShape DEF ExecuteReplyLost, Retry
  <2>4. HasKey'
    BY <1>10 DEF ExecuteReplyLost, Retry, Add, HasKey, KeyOf
  <2> QED
    BY <2>3, <2>4
<1>11. ASSUME NEW r \in Requests, Backoff(r) PROVE Shape'
  BY <1>11 DEF Backoff, HasKey, KeyOf, FiniteLogs
<1>12. ASSUME NEW r \in Requests, ConnectionLost(r) \/ RedisFails(r) PROVE Shape'
  BY <1>12 DEF ConnectionLost, RedisFails, Retry, HasKey, KeyOf, FiniteLogs
<1>13. CASE UNCHANGED vars
  BY <1>13 DEF vars, HasKey, KeyOf, FiniteLogs
<1> QED
  BY <1>1, <1>2, <1>3, <1>4, <1>5, <1>6, <1>7, <1>8, <1>9, <1>10, <1>11,
     <1>12, <1>13 DEF Next, Step

(* Every variable keeps its type, in every behaviour of the limiter. *)
THEOREM TypeCorrect == Spec => []TypeOK
<1>1. Init => Shape
  BY ShapeInit
<1>2. Shape /\ [Next]_vars => Shape'
  BY ShapeNext
<1>3. Shape => TypeOK
  BY DEF Shape
<1> QED
  BY <1>1, <1>2, <1>3, PTL DEF Spec

-----------------------------------------------------------------------------
(* Second layer: how scores, the clocks read and the TTLs relate. *)

ReadPast == \A r \in Requests : nowMs[r] <= clock

EntriesPast == \A k \in Keys : \A e \in log[k] : e.score <= clock

Outlives == \A k \in Keys : \A e \in zset[k] : e.score + TtlOf(k) <= expireAt[k]

Timing == ReadPast /\ EntriesPast /\ Outlives /\ NoEarlyEviction

LEMMA TimingInit == Init => Timing
BY DEF Init, Timing, ReadPast, EntriesPast, Outlives, NoEarlyEviction, InWindow

(* Nothing is lost when neither the clock nor the stored data move. *)
LEMMA TimingQuiet ==
    ASSUME Timing, UNCHANGED <<clock, redis, log, nowMs>>
    PROVE  Timing'
BY DEF Timing, ReadPast, EntriesPast, Outlives, NoEarlyEviction, InWindow, redis

LEMMA AddTiming ==
    ASSUME Shape, Timing, NEW r \in Requests, Add(r), UNCHANGED <<clock, nowMs>>
    PROVE  Timing'
<1> DEFINE k == KeyOf(r)
           entry == EntryOf(r)
<1>1. k \in Keys
  BY DEF Shape, HasKey, Add, InHit, Calling, Watching
<1>2. /\ zset' = [zset EXCEPT ![k] = @ \cup {entry}]
      /\ log' = [log EXCEPT ![k] = @ \cup {entry}]
      /\ expireAt' = [expireAt EXCEPT ![k] = clock + TtlOf(k)]
  BY DEF Add
<1>3. entry.score = nowMs[r] /\ nowMs[r] \in Nat /\ nowMs[r] <= clock
  BY DEF Shape, TypeOK, Timing, ReadPast, EntryOf
<1> HIDE DEF k, entry
<1>4. \A j \in Keys :
         /\ log'[j] = IF j = k THEN log[j] \cup {entry} ELSE log[j]
         /\ zset'[j] = IF j = k THEN zset[j] \cup {entry} ELSE zset[j]
         /\ expireAt'[j] = IF j = k THEN clock + TtlOf(k) ELSE expireAt[j]
  BY <1>1, <1>2 DEF Shape, TypeOK
<1>5. ReadPast'
  BY DEF Timing, ReadPast
<1>6. EntriesPast'
  BY <1>3, <1>4 DEF Timing, EntriesPast
<1>7. Outlives'
  <2> SUFFICES ASSUME NEW j \in Keys, NEW e \in zset'[j]
               PROVE  e.score + TtlOf(j) <= expireAt'[j]
    BY DEF Outlives, TtlOf
  <2>1. CASE j # k
    BY <2>1, <1>4 DEF Timing, Outlives
  <2>2. CASE j = k
    <3>1. e.score <= clock
      BY <2>2, <1>3, <1>4 DEF Timing, EntriesPast, Shape, FiniteLogs
    <3>2. e.score \in Nat
      <4>1. zset[k] \subseteq Entries
        BY <1>1 DEF Shape, TypeOK
      <4>2. e \in zset[k] \/ e = entry
        BY <2>2, <1>1, <1>4
      <4> QED
        BY <4>1, <4>2, <1>3 DEF Entries
    <3>3. clock \in Nat /\ TtlOf(k) \in Nat
      BY <1>1, Durations DEF Shape, TypeOK
    <3>4. expireAt'[j] = clock + TtlOf(k)
      BY <2>2, <1>1, <1>4
    <3>5. e.score + TtlOf(k) <= clock + TtlOf(k)
      BY <3>1, <3>2, <3>3
    <3> QED
      BY <2>2, <3>4, <3>5
  <2> QED
    BY <2>1, <2>2
<1>8. NoEarlyEviction'
  BY <1>4 DEF Timing, NoEarlyEviction, InWindow
<1> QED
  BY <1>5, <1>6, <1>7, <1>8 DEF Timing

(* Trimming uses a clock read in the past, so what it removes has left the
   window. *)
LEMMA TrimTiming ==
    ASSUME Shape, Timing, NEW r \in Requests, Trim(r)
    PROVE  Timing'
<1> DEFINE k == KeyOf(r)
           old == Stale(k, nowMs[r])
<1>1. k \in Keys
  BY DEF Shape, HasKey, Trim, InHit, Calling
<1>2. /\ zset' = [zset EXCEPT ![k] = @ \ old]
      /\ expireAt' = [expireAt EXCEPT ![k] = IF zset[k] = old THEN 0 ELSE @]
      /\ UNCHANGED <<clock, nowMs, log>>
  BY DEF Trim
<1>3. \A e \in old : e.score <= clock - WindowOf[k]
  <2>1. /\ nowMs[r] \in Nat /\ clock \in Nat /\ nowMs[r] <= clock
        /\ \A e \in zset[k] : e.score \in Nat
    BY <1>1 DEF Shape, TypeOK, Timing, ReadPast, Entries
  <2> QED
    BY <1>1, <2>1, Durations DEF Stale
<1> HIDE DEF k, old
<1>4. \A j \in Keys :
         /\ zset'[j] = IF j = k THEN zset[j] \ old ELSE zset[j]
         /\ expireAt'[j] = IF j = k /\ zset[k] = old THEN 0 ELSE expireAt[j]
  BY <1>1, <1>2 DEF Shape, TypeOK
<1>5. ReadPast' /\ EntriesPast'
  BY <1>2 DEF Timing, ReadPast, EntriesPast
<1>6. Outlives'
  BY <1>4 DEF Timing, Outlives, TtlOf
<1>7. NoEarlyEviction'
  <2> SUFFICES ASSUME NEW j \in Keys, NEW e \in log[j],
                      e.score > clock - WindowOf[j]
               PROVE  e \in zset'[j]
    BY <1>2 DEF NoEarlyEviction, InWindow, WindowOf
  <2>1. e \in zset[j]
    BY DEF Timing, NoEarlyEviction, InWindow
  <2>2. ASSUME j = k PROVE e \notin old
    <3>1. e.score \in Nat /\ clock \in Nat /\ WindowOf[k] \in Nat
      BY <1>1, Durations DEF Shape, TypeOK, Entries
    <3> QED
      BY <2>2, <3>1, <1>3
  <2> QED
    BY <2>1, <2>2, <1>4
<1> QED
  BY <1>5, <1>6, <1>7 DEF Timing

(* A key that expires has outlived the window of everything in it. *)
LEMMA TickTiming ==
    ASSUME Shape, Timing, Tick
    PROVE  Timing'
<1>1. /\ clock \in Nat /\ clock' = clock + 1
      /\ UNCHANGED <<nowMs, log>>
  BY DEF Tick, Shape, TypeOK
<1>2. \A j \in Keys :
         /\ zset'[j] = IF j \in Expired THEN {} ELSE zset[j]
         /\ expireAt'[j] = IF j \in Expired THEN 0 ELSE expireAt[j]
  BY DEF Tick
<1>3. ReadPast' /\ EntriesPast'
  BY <1>1 DEF Timing, ReadPast, EntriesPast, Shape, TypeOK, Entries
<1>4. Outlives'
  BY <1>2 DEF Timing, Outlives, TtlOf
<1>5. NoEarlyEviction'
  <2> SUFFICES ASSUME NEW j \in Keys, NEW e \in log[j],
                      e.score > clock' - WindowOf[j]
               PROVE  e \in zset'[j]
    BY <1>1 DEF NoEarlyEviction, InWindow, WindowOf
  <2>1. /\ e.score \in Nat
        /\ WindowOf[j] \in Nat /\ TtlOf(j) \in Nat
        /\ WindowOf[j] <= TtlOf(j)
        /\ expireAt[j] \in Nat
    BY Durations DEF Shape, TypeOK, Entries
  <2>2. e \in zset[j]
    BY <1>1, <2>1 DEF Timing, NoEarlyEviction, InWindow
  <2>3. e.score + TtlOf(j) <= expireAt[j]
    BY <2>2 DEF Timing, Outlives
  <2>4. j \notin Expired
    BY <1>1, <2>1, <2>3 DEF Expired
  <2> QED
    BY <1>2, <2>2, <2>4
<1> QED
  BY <1>3, <1>4, <1>5 DEF Timing

LEMMA TimingNext == Shape /\ Timing /\ [Next]_vars => Timing'
<1> SUFFICES ASSUME Shape, Timing, [Next]_vars PROVE Timing'
  OBVIOUS
<1>1. CASE Tick
  BY <1>1, TickTiming
<1>2. ASSUME NEW r \in Requests, ReadClock(r) PROVE Timing'
  BY <1>2 DEF ReadClock, Shape, TypeOK, Timing, ReadPast, EntriesPast,
              Outlives, NoEarlyEviction, InWindow, redis
<1>3. ASSUME NEW r \in Requests, Trim(r) PROVE Timing'
  BY <1>3, TrimTiming
<1>4. ASSUME NEW r \in Requests, Execute(r) \/ ExecuteReplyLost(r) PROVE Timing'
  BY <1>4, AddTiming DEF Execute, ExecuteReplyLost
<1>5. ASSUME NEW r \in Requests,
             \/ Arrive(r) \/ Watch(r) \/ ReadCount(r) \/ ReadOldest(r)
             \/ Conflict(r) \/ Backoff(r)
             \/ ConnectionLost(r) \/ RedisFails(r)
      PROVE  Timing'
  BY <1>5, TimingQuiet DEF Arrive, Watch, ReadCount, ReadOldest, Conflict,
                           Backoff, ConnectionLost, RedisFails, Retry
<1>6. CASE UNCHANGED vars
  BY <1>6, TimingQuiet DEF vars, redis
<1> QED
  BY <1>1, <1>2, <1>3, <1>4, <1>5, <1>6 DEF Next, Step

(* No entry that still counts is dropped from its sorted set, whatever clock
   the trimming request read and whenever the key expires. *)
THEOREM EvictionIsLate == Spec => []NoEarlyEviction
<1>1. Init => Shape /\ Timing
  BY ShapeInit, TimingInit
<1>2. (Shape /\ Timing) /\ [Next]_vars => (Shape /\ Timing)'
  BY ShapeNext, TimingNext
<1>3. Shape /\ Timing => NoEarlyEviction
  BY DEF Timing
<1> QED
  BY <1>1, <1>2, <1>3, PTL DEF Spec

-----------------------------------------------------------------------------
(* Third layer: what a transaction whose WATCH is still good knows. *)

Decided == {"oldest", "exec"}

CountIsCurrent ==
    \A r \in Requests :
        pc[r] \in Decided /\ ~dirty[r] => count[r] = Cardinality(zset[KeyOf(r)])

RoomSeen ==
    \A r \in Requests : pc[r] = "exec" => count[r] < LimitOf[KeyOf(r)]

Locking == CountIsCurrent /\ RoomSeen /\ NeverOverLimit

LEMMA LockingInit == Init => Locking
<1> SUFFICES ASSUME Init PROVE Locking
  OBVIOUS
<1>1. CountIsCurrent /\ RoomSeen
  BY DEF Init, CountIsCurrent, RoomSeen, Decided
<1>2. NeverOverLimit
  BY FS_EmptySet DEF Init, NeverOverLimit
<1> QED
  BY <1>1, <1>2 DEF Locking

LEMMA SetsAreFinite ==
    ASSUME Shape, NEW k \in Keys
    PROVE  /\ IsFiniteSet(zset[k])
           /\ Cardinality(zset[k]) \in Nat
           /\ \A S \in SUBSET zset[k] :
                 IsFiniteSet(S) /\ Cardinality(S) \in Nat
                                /\ Cardinality(S) <= Cardinality(zset[k])
BY FS_Subset, FS_CardinalityType DEF Shape, FiniteLogs

LEMMA OneMore ==
    ASSUME NEW S, NEW x, IsFiniteSet(S)
    PROVE  /\ Cardinality(S \cup {x}) \in Nat
           /\ Cardinality(S \cup {x}) <= Cardinality(S) + 1
<1>1. IsFiniteSet(S \cup {x}) /\ Cardinality(S) \in Nat
  BY FS_AddElement, FS_CardinalityType
<1>2. Cardinality(S \cup {x}) \in {Cardinality(S), Cardinality(S) + 1}
  BY FS_AddElement, Zenon
<1> QED
  BY <1>1, <1>2

(* What another request learnt stays true when the keys K change: either its
   WATCH is broken, or its key is not one of them. *)
LEMMA WatchersSurvive ==
    ASSUME Shape, CountIsCurrent, NEW K, dirty' = Broken(K),
           \A j \in Keys \ K : zset'[j] = zset[j],
           NEW s \in Requests, pc[s] \in Decided, ~dirty'[s]
    PROVE  count[s] = Cardinality(zset'[KeyOf(s)])
<1>1. KeyOf(s) \in Keys
  BY DEF Shape, HasKey, InHit, Calling, Watching, Decided
<1>2. ~dirty[s] /\ KeyOf(s) \notin K
  BY DEF Broken, Watching, Decided
<1> QED
  BY <1>1, <1>2 DEF CountIsCurrent

LEMMA AddLocking ==
    ASSUME Shape, Locking, NEW r \in Requests, Add(r),
           NEW q \in Phases \ Decided, pc' = [pc EXCEPT ![r] = q],
           \A s \in Requests \ {r} : scope'[s] = scope[s],
           UNCHANGED count
    PROVE  Locking'
<1> DEFINE k == KeyOf(r)
           entry == EntryOf(r)
<1>1. k \in Keys
  BY DEF Shape, HasKey, Add, InHit, Calling, Watching
<1>2. /\ pc[r] = "exec" /\ ~dirty[r]
      /\ zset' = [zset EXCEPT ![k] = @ \cup {entry}]
      /\ dirty' = Broken({k})
  BY DEF Add
<1>3. count[r] = Cardinality(zset[k]) /\ count[r] < LimitOf[k]
  BY <1>2 DEF Locking, CountIsCurrent, RoomSeen, Decided
<1> HIDE DEF k, entry
<1>4. \A j \in Keys :
         zset'[j] = IF j = k THEN zset[j] \cup {entry} ELSE zset[j]
  BY <1>1, <1>2 DEF Shape, TypeOK
<1>5. /\ pc'[r] \notin Decided
      /\ \A s \in Requests \ {r} : pc'[s] = pc[s] /\ KeyOf(s)' = KeyOf(s)
  BY DEF Shape, TypeOK, KeyOf
<1>6. CountIsCurrent'
  BY <1>2, <1>4, <1>5, WatchersSurvive DEF Locking, CountIsCurrent
<1>7. RoomSeen'
  BY <1>5 DEF Locking, RoomSeen, Decided
<1>8. NeverOverLimit'
  <2> SUFFICES ASSUME NEW j \in Keys
               PROVE  Cardinality(zset'[j]) <= LimitOf[j]
    BY DEF NeverOverLimit
  <2>1. CASE j # k
    BY <2>1, <1>4 DEF Locking, NeverOverLimit
  <2>2. CASE j = k
    <3>1. /\ IsFiniteSet(zset[k])
          /\ Cardinality(zset[k]) \in Nat /\ LimitOf[k] \in Nat
      BY <1>1, SetsAreFinite
    <3>2. /\ Cardinality(zset[k] \cup {entry}) \in Nat
          /\ Cardinality(zset[k] \cup {entry}) <= Cardinality(zset[k]) + 1
      BY <3>1, OneMore
    <3> QED
      BY <2>2, <1>1, <1>3, <1>4, <3>1, <3>2
  <2> QED
    BY <2>1, <2>2
<1> QED
  BY <1>6, <1>7, <1>8 DEF Locking

(* Removing entries breaks the WATCH of the key's watchers and makes room. *)
LEMMA RemovalLocking ==
    ASSUME Shape, Locking, NEW K,
           dirty' = Broken(K) \/ UNCHANGED <<zset, dirty>>,
           \A j \in Keys : zset'[j] \subseteq zset[j],
           \A j \in Keys \ K : zset'[j] = zset[j],
           \A s \in Requests :
              /\ KeyOf(s)' = KeyOf(s)
              /\ pc'[s] \in Decided => pc'[s] = pc[s],
           UNCHANGED count
    PROVE  Locking'
<1>1. CountIsCurrent'
  BY WatchersSurvive DEF Locking, CountIsCurrent
<1>2. RoomSeen'
  BY DEF Locking, RoomSeen, Decided
<1>3. NeverOverLimit'
  <2> SUFFICES ASSUME NEW j \in Keys
               PROVE  Cardinality(zset'[j]) <= LimitOf[j]
    BY DEF NeverOverLimit
  <2>1. /\ Cardinality(zset[j]) \in Nat /\ Cardinality(zset'[j]) \in Nat
        /\ Cardinality(zset'[j]) <= Cardinality(zset[j])
    BY SetsAreFinite
  <2> QED
    BY <2>1 DEF Locking, NeverOverLimit
<1> QED
  BY <1>1, <1>2, <1>3 DEF Locking

LEMMA LockingNext == Shape /\ Locking /\ [Next]_vars => Locking'
<1> SUFFICES ASSUME Shape, Locking, [Next]_vars PROVE Locking'
  OBVIOUS
<1> USE DEF Shape, TypeOK, Decided, KeyOf, redis
<1>1. CASE Tick
  <2>1. \A j \in Keys : zset'[j] = IF j \in Expired THEN {} ELSE zset[j]
    BY <1>1 DEF Tick
  <2>2. dirty' = Broken(Expired) /\ UNCHANGED <<pc, scope, count>>
    BY <1>1 DEF Tick
  <2>3. /\ \A j \in Keys : zset'[j] \subseteq zset[j]
        /\ \A j \in Keys \ Expired : zset'[j] = zset[j]
    BY <2>1
  <2> QED
    BY <2>2, <2>3, RemovalLocking
<1>2. ASSUME NEW r \in Requests, Trim(r) PROVE Locking'
  <2>1. /\ dirty' = Broken({KeyOf(r)}) \/ UNCHANGED <<zset, dirty>>
        /\ \A j \in Keys : zset'[j] \subseteq zset[j]
        /\ \A j \in Keys \ {KeyOf(r)} : zset'[j] = zset[j]
    BY <1>2 DEF Trim
  <2>2. /\ UNCHANGED <<scope, count>>
        /\ \A s \in Requests : pc'[s] \in Decided => pc'[s] = pc[s]
    BY <1>2 DEF Trim
  <2> QED
    BY <2>1, <2>2, RemovalLocking
<1>3. ASSUME NEW r \in Requests, Execute(r) PROVE Locking'
  <2> DEFINE q == IF scope[r] = "ip" /\ AuthKey[r] # NoKey
                    THEN "clock" ELSE "admitted"
  <2>1. /\ Add(r) /\ UNCHANGED count
        /\ pc' = [pc EXCEPT ![r] = q]
        /\ \A s \in Requests \ {r} : scope'[s] = scope[s]
    BY <1>3 DEF Execute
  <2>2. q \in Phases \ Decided
    BY DEF Phases, Done
  <2> QED
    BY <2>1, <2>2, AddLocking
<1>4. ASSUME NEW r \in Requests, ExecuteReplyLost(r) PROVE Locking'
  <2> DEFINE q == IF attempt[r] + 1 >= WatchRetries THEN "conflict" ELSE "backoff"
  <2>1. q \in Phases \ Decided
    BY DEF Phases, Done, Refused
  <2> QED
    BY <1>4, <2>1, AddLocking DEF ExecuteReplyLost, Retry
<1>5. ASSUME NEW r \in Requests, ReadCount(r) PROVE Locking'
  BY <1>5 DEF ReadCount, Locking, CountIsCurrent, RoomSeen, NeverOverLimit
<1>6. ASSUME NEW r \in Requests, ReadOldest(r) PROVE Locking'
  <2>1. KeyOf(r) \in Keys
    BY <1>6 DEF ReadOldest, HasKey, InHit, Calling, Watching
  <2>2. pc'[r] = "exec" => count[r] < LimitOf[KeyOf(r)]
    BY <1>6, <2>1 DEF ReadOldest
  <2>3. /\ UNCHANGED <<zset, dirty, scope, count>>
        /\ \A s \in Requests \ {r} : pc'[s] = pc[s]
        /\ pc[r] = "oldest" /\ pc'[r] \in {"rejected", "exec"}
    BY <1>6 DEF ReadOldest
  <2> QED
    BY <2>2, <2>3 DEF Locking, CountIsCurrent, RoomSeen, NeverOverLimit
<1>7. ASSUME NEW r \in Requests,
             \/ Arrive(r) \/ ReadClock(r) \/ Watch(r)
             \/ Conflict(r) \/ Backoff(r)
             \/ ConnectionLost(r) \/ RedisFails(r)
      PROVE  Locking'
  <2>1. /\ UNCHANGED <<zset, count>>
        /\ \A s \in Requests \ {r} :
              pc'[s] = pc[s] /\ scope'[s] = scope[s] /\ dirty'[s] = dirty[s]
        /\ pc'[r] \notin Decided
    BY <1>7 DEF Arrive, ReadClock, Watch, Conflict, Backoff, ConnectionLost, RedisFails, Retry
  <2> QED
    BY <2>1 DEF Locking, CountIsCurrent, RoomSeen, NeverOverLimit
<1>8. CASE UNCHANGED vars
  BY <1>8 DEF vars, Locking, CountIsCurrent, RoomSeen, NeverOverLimit
<1> QED
  BY <1>1, <1>2, <1>3, <1>4, <1>5, <1>6, <1>7, <1>8 DEF Next, Step

-----------------------------------------------------------------------------
(* The inductive invariant and what follows from it. *)

Safe == Shape /\ Timing /\ Locking

LEMMA SafeInvariant == Spec => []Safe
<1>1. Init => Safe
  BY ShapeInit, TimingInit, LockingInit DEF Safe
<1>2. Safe /\ [Next]_vars => Safe'
  BY ShapeNext, TimingNext, LockingNext DEF Safe
<1> QED
  BY <1>1, <1>2, PTL DEF Spec

(* The sorted set of a key never holds more entries than its limit, however
   many requests race for the last slot. *)
THEOREM LimitHolds == Spec => []NeverOverLimit
<1>1. Safe => NeverOverLimit
  BY DEF Safe, Locking
<1> QED
  BY <1>1, SafeInvariant, PTL

LEMMA WindowInSet ==
    ASSUME Safe, NEW k \in Keys
    PROVE  /\ InWindow(k) \subseteq zset[k]
           /\ IsFiniteSet(InWindow(k))
           /\ Cardinality(InWindow(k)) \in Nat
           /\ Cardinality(zset[k]) \in Nat
           /\ Cardinality(InWindow(k)) <= Cardinality(zset[k])
BY SetsAreFinite DEF Safe, Timing, NoEarlyEviction

(* The limiter's promise: at every moment, the requests let through in the
   window ending now are within the limit. *)
THEOREM WindowHolds == Spec => []SlidingWindow
<1>1. Safe => SlidingWindow
  <2> SUFFICES ASSUME Safe, NEW k \in Keys
               PROVE  Cardinality(InWindow(k)) <= LimitOf[k]
    BY DEF SlidingWindow
  <2>1. Cardinality(zset[k]) <= LimitOf[k]
    BY DEF Safe, Locking, NeverOverLimit
  <2> QED
    BY <2>1, WindowInSet
<1> QED
  BY <1>1, SafeInvariant, PTL

-----------------------------------------------------------------------------
(* The retry loop. *)

LoopBounded ==
    \A r \in Requests :
        /\ pc[r] = "backoff" => attempt[r] + 1 < WatchRetries
        /\ pc[r] # "unreachable"

LEMMA LoopNext == Shape /\ LoopBounded /\ [Next]_vars => LoopBounded'
<1> SUFFICES ASSUME Shape, LoopBounded, [Next]_vars PROVE LoopBounded'
  OBVIOUS
<1> USE DEF Shape, TypeOK, LoopBounded
<1>1. ASSUME NEW r \in Requests, Backoff(r) PROVE LoopBounded'
  <2>1. pc'[r] = "clock"
    BY <1>1 DEF Backoff, Attempts, Max2
  <2>2. \A s \in Requests \ {r} : pc'[s] = pc[s] /\ attempt'[s] = attempt[s]
    BY <1>1 DEF Backoff
  <2> QED
    BY <2>1, <2>2
<1>2. ASSUME NEW r \in Requests, Conflict(r) \/ ConnectionLost(r) \/ ExecuteReplyLost(r)
      PROVE  LoopBounded'
  <2>1. /\ pc' = [pc EXCEPT ![r] = IF attempt[r] + 1 >= WatchRetries THEN "conflict"
                                                                   ELSE "backoff"]
        /\ UNCHANGED attempt
    BY <1>2 DEF Conflict, ConnectionLost, ExecuteReplyLost, Retry
  <2>2. pc'[r] = "conflict" \/ (pc'[r] = "backoff" /\ attempt[r] + 1 < WatchRetries)
    BY <2>1
  <2>3. \A s \in Requests \ {r} : pc'[s] = pc[s]
    BY <2>1
  <2> QED
    BY <2>1, <2>2, <2>3
<1>3. ASSUME NEW r \in Requests,
             \/ Arrive(r) \/ ReadClock(r) \/ Trim(r) \/ Watch(r)
             \/ ReadCount(r) \/ ReadOldest(r) \/ RedisFails(r) \/ Execute(r)
      PROVE  LoopBounded'
  <2>1. /\ pc'[r] \notin {"backoff", "unreachable"}
        /\ \A s \in Requests \ {r} : pc'[s] = pc[s] /\ attempt'[s] = attempt[s]
    BY <1>3 DEF Arrive, ReadClock, Trim, Watch, ReadCount, ReadOldest,
                RedisFails, Execute
  <2> QED
    BY <2>1
<1>4. CASE Tick \/ UNCHANGED vars
  BY <1>4 DEF Tick, vars
<1> QED
  BY <1>1, <1>2, <1>3, <1>4 DEF Next, Step

(* The code after the retry loop is unreachable, as it says, for every value
   of rate_limit_watch_retries, zero included. *)
THEOREM LoopReturns == Spec => []LoopNeverFallsThrough
<1>1. Init => Shape /\ LoopBounded
  <2>1. Init => LoopBounded
    BY DEF Init, LoopBounded
  <2> QED
    BY <2>1, ShapeInit
<1>2. (Shape /\ LoopBounded) /\ [Next]_vars => (Shape /\ LoopBounded)'
  BY ShapeNext, LoopNext
<1>3. Shape /\ LoopBounded => LoopNeverFallsThrough
  BY DEF LoopBounded, LoopNeverFallsThrough
<1> QED
  BY <1>1, <1>2, <1>3, PTL DEF Spec

-----------------------------------------------------------------------------
(* Both scopes. *)

(* A request in its second check has a slot under its IP. *)
SecondScopeCounted ==
    \A r \in Requests :
        pc[r] \in InHit /\ scope[r] = "auth" /\ IpKey[r] # NoKey
            => Counted(r, IpKey[r])

Slots == SecondScopeCounted /\ AdmittedIsCounted

LEMMA AddCounts ==
    ASSUME Shape, NEW r \in Requests, Add(r)
    PROVE  /\ KeyOf(r) \in Keys
           /\ \A s \in Requests, k \in Keys :
                 Counted(s, k)' <=> Counted(s, k) \/ (s = r /\ k = KeyOf(r))
<1> DEFINE k == KeyOf(r)
           entry == EntryOf(r)
<1>1. k \in Keys
  BY DEF Shape, HasKey, Add, InHit, Calling, Watching
<1>2. log' = [log EXCEPT ![k] = @ \cup {entry}] /\ entry.req = r
  BY DEF Add, EntryOf
<1> HIDE DEF k, entry
<1>3. \A j \in Keys : log'[j] = IF j = k THEN log[j] \cup {entry} ELSE log[j]
  BY <1>1, <1>2 DEF Shape, TypeOK
<1>4. \A s \in Requests, j \in Keys :
         Counted(s, j)' <=> Counted(s, j) \/ (s = r /\ j = k)
  BY <1>2, <1>3 DEF Counted
<1> QED
  BY <1>1, <1>4 DEF k

LEMMA SlotsQuiet ==
    ASSUME Shape, Slots, UNCHANGED log, NEW r \in Requests,
           \A s \in Requests \ {r} : pc'[s] = pc[s] /\ scope'[s] = scope[s],
           pc'[r] # "admitted",
           pc'[r] \in InHit /\ scope'[r] = "auth" /\ IpKey[r] # NoKey
               => Counted(r, IpKey[r])
    PROVE  Slots'
BY DEF Slots, SecondScopeCounted, AdmittedIsCounted, Counted

LEMMA SlotsExecute ==
    ASSUME Shape, Slots, NEW r \in Requests, Execute(r)
    PROVE  Slots'
<1>1. /\ Add(r) /\ pc[r] \in InHit
      /\ pc' \in [Requests -> Phases] /\ scope \in [Requests -> {"ip", "auth"}]
      /\ \A s \in Requests \ {r} : pc'[s] = pc[s] /\ scope'[s] = scope[s]
  BY DEF Execute, Add, Shape, TypeOK, InHit, Calling, Watching, Phases, Done
<1>2. /\ KeyOf(r) \in Keys
      /\ \A s \in Requests, k \in Keys :
            Counted(s, k)' <=> Counted(s, k) \/ (s = r /\ k = KeyOf(r))
  BY <1>1, AddCounts
<1>3. /\ \A s \in Requests : IpKey[s] \in Keys \cup {NoKey}
      /\ \A s \in Requests : AuthKey[s] \in Keys \cup {NoKey}
  OBVIOUS
<1>4. \A s \in Requests, k \in Keys : Counted(s, k) => Counted(s, k)'
  BY <1>2
<1>5. CASE scope[r] = "ip"
  <2>1. KeyOf(r) = IpKey[r] /\ Counted(r, IpKey[r])'
    BY <1>2, <1>5 DEF KeyOf
  <2>2. \A s \in Requests : AuthKey[s] # KeyOf(r)
    BY <1>2, <2>1, ScopesAssumption
  <2>3. pc'[r] \in {"clock", "admitted"} /\ (pc'[r] = "admitted" => AuthKey[r] = NoKey)
    BY <1>5 DEF Execute, Shape, TypeOK
  <2>4. SecondScopeCounted'
    BY <1>1, <1>3, <1>4, <2>1 DEF Slots, SecondScopeCounted
  <2>5. AdmittedIsCounted'
    BY <1>1, <1>2, <1>3, <1>4, <2>1, <2>2, <2>3 DEF Slots, AdmittedIsCounted
  <2> QED
    BY <2>4, <2>5 DEF Slots
<1>6. CASE scope[r] = "auth"
  <2>1. KeyOf(r) = AuthKey[r] /\ Counted(r, AuthKey[r])'
    BY <1>2, <1>6 DEF KeyOf
  <2>2. IpKey[r] # NoKey => Counted(r, IpKey[r])'
    BY <1>1, <1>3, <1>4, <1>6 DEF Slots, SecondScopeCounted
  <2>3. pc'[r] = "admitted"
    BY <1>6 DEF Execute, Shape, TypeOK
  <2>4. SecondScopeCounted'
    BY <1>1, <1>3, <1>4, <2>2 DEF Slots, SecondScopeCounted
  <2>5. AdmittedIsCounted'
    BY <1>1, <1>2, <1>3, <1>4, <2>1, <2>2 DEF Slots, AdmittedIsCounted
  <2> QED
    BY <2>4, <2>5 DEF Slots
<1> QED
  BY <1>1, <1>5, <1>6

LEMMA SlotsNext == Shape /\ Slots /\ [Next]_vars => Slots'
<1> SUFFICES ASSUME Shape, Slots, [Next]_vars PROVE Slots'
  OBVIOUS
<1> USE DEF InHit, Calling, Watching
<1>1. ASSUME NEW r \in Requests, Execute(r) PROVE Slots'
  BY <1>1, SlotsExecute
<1>2. ASSUME NEW r \in Requests, ExecuteReplyLost(r) PROVE Slots'
  <2>1. /\ Add(r) /\ pc[r] = "exec" /\ UNCHANGED scope
        /\ pc' = [pc EXCEPT ![r] = IF attempt[r] + 1 >= WatchRetries THEN "conflict"
                                                                   ELSE "backoff"]
    BY <1>2 DEF ExecuteReplyLost, Retry, Add
  <2>2. /\ KeyOf(r) \in Keys
        /\ \A s \in Requests, k \in Keys :
              Counted(s, k)' <=> Counted(s, k) \/ (s = r /\ k = KeyOf(r))
    BY <2>1, AddCounts
  <2>3. /\ \A s \in Requests : IpKey[s] \in Keys \cup {NoKey}
        /\ \A s \in Requests : AuthKey[s] \in Keys \cup {NoKey}
    OBVIOUS
  <2>4. /\ pc'[r] \in {"conflict", "backoff"}
        /\ \A s \in Requests \ {r} : pc'[s] = pc[s]
    BY <2>1 DEF Shape, TypeOK
  <2>5. SecondScopeCounted'
    BY <2>1, <2>2, <2>3, <2>4 DEF Slots, SecondScopeCounted
  <2>6. AuthKey[r] = KeyOf(r) /\ IpKey[r] # NoKey => Counted(r, IpKey[r])
    BY <2>1, <2>2, ScopesAssumption
       DEF KeyOf, Slots, SecondScopeCounted, Shape, TypeOK
  <2>7. AdmittedIsCounted'
    BY <2>2, <2>3, <2>4, <2>6 DEF Slots, AdmittedIsCounted
  <2> QED
    BY <2>5, <2>7 DEF Slots
<1>3. ASSUME NEW r \in Requests, Arrive(r) PROVE Slots'
  <2>1. /\ UNCHANGED log
        /\ pc' = [pc EXCEPT ![r] = IF IpKey[r] # NoKey \/ AuthKey[r] # NoKey
                                     THEN "clock" ELSE "admitted"]
        /\ scope' = [scope EXCEPT ![r] = IF IpKey[r] # NoKey THEN "ip" ELSE "auth"]
    BY <1>3 DEF Arrive
  <2>2. /\ \A s \in Requests \ {r} : pc'[s] = pc[s] /\ scope'[s] = scope[s]
        /\ pc'[r] = "admitted" => IpKey[r] = NoKey /\ AuthKey[r] = NoKey
        /\ IpKey[r] # NoKey => scope'[r] = "ip"
    BY <2>1 DEF Shape, TypeOK
  <2> QED
    BY <2>1, <2>2 DEF Slots, SecondScopeCounted, AdmittedIsCounted, Counted
<1>4. ASSUME NEW r \in Requests,
             \/ ReadClock(r) \/ Trim(r) \/ Watch(r) \/ ReadCount(r)
             \/ ReadOldest(r) \/ Conflict(r) \/ Backoff(r)
             \/ ConnectionLost(r) \/ RedisFails(r)
      PROVE  Slots'
  <2>1. /\ UNCHANGED <<log, scope>>
        /\ pc[r] \in InHit /\ pc'[r] # "admitted"
        /\ \A s \in Requests \ {r} : pc'[s] = pc[s]
    BY <1>4 DEF ReadClock, Trim, Watch, ReadCount, ReadOldest, Conflict,
                Backoff, ConnectionLost, RedisFails, Retry, Shape, TypeOK
  <2> QED
    BY <2>1, SlotsQuiet DEF Slots, SecondScopeCounted
<1>5. CASE Tick \/ UNCHANGED vars
  BY <1>5 DEF Tick, vars, Slots, SecondScopeCounted, AdmittedIsCounted, Counted
<1> QED
  BY <1>1, <1>2, <1>3, <1>4, <1>5 DEF Next, Step

(* No request goes through without a slot under each key it is counted under,
   and none takes its identifier's before its IP's. *)
THEOREM SlotsTaken == Spec => []AdmittedIsCounted
<1>1. Init => Shape /\ Slots
  <2>1. Init => Slots
    BY DEF Init, Slots, SecondScopeCounted, AdmittedIsCounted, Counted, InHit,
           Calling, Watching
  <2> QED
    BY <2>1, ShapeInit
<1>2. (Shape /\ Slots) /\ [Next]_vars => (Shape /\ Slots)'
  BY ShapeNext, SlotsNext
<1>3. Shape /\ Slots => AdmittedIsCounted
  BY DEF Slots
<1> QED
  BY <1>1, <1>2, <1>3, PTL DEF Spec

-----------------------------------------------------------------------------
(* Retry-After. *)

(* The entries r found, r having been refused, that are still in the window
   at time t. *)
StillThere(r, t) == {e \in seen[r] : e.score > t - WindowOf[KeyOf(r)]}

Comeback(r) == nowMs[r] + retry[r] * TicksPerSecond

HonestFor(r) ==
    /\ IsFiniteSet(seen[r])
    /\ \A t \in Nat : t >= clock /\ t >= Comeback(r)
          => Cardinality(StillThere(r, t)) < LimitOf[KeyOf(r)]

Honest == \A r \in Requests : pc[r] = "rejected" => HonestFor(r)

LEMMA RefusalIsHonest ==
    ASSUME Safe, NEW r \in Requests, ReadOldest(r), pc'[r] = "rejected"
    PROVE  HonestFor(r)'
<1> DEFINE k == KeyOf(r)
           S == zset[k]
           d == RetryAfterSeconds(S, nowMs[r], k)
<1>1. k \in Keys
  BY DEF Safe, Shape, HasKey, ReadOldest, InHit, Calling, Watching
<1>2. /\ seen'[r] = log[k] /\ retry'[r] = d
      /\ UNCHANGED <<clock, scope, nowMs>>
  BY DEF ReadOldest, Safe, Shape, TypeOK
<1>3. /\ clock \in Nat /\ nowMs[r] \in Nat
      /\ S \in SUBSET Entries /\ log[k] \in SUBSET Entries
      /\ IsFiniteSet(log[k])
  BY <1>1 DEF Safe, Shape, TypeOK, FiniteLogs
<1>4. /\ IsFiniteSet(S) /\ Cardinality(S) \in Nat
      /\ Cardinality(S) <= LimitOf[k]
      /\ LimitOf[k] \in Nat \ {0}
  BY <1>1, SetsAreFinite DEF Safe, Locking, NeverOverLimit
<1>5. d \in Nat /\ (S # {} => OldestScore(S) + WindowOf[k]
                                 <= nowMs[r] + d * TicksPerSecond)
  BY <1>1, <1>3, RetryAfterCovers
<1>6. WindowOf[k] \in Nat /\ TicksPerSecond \in Nat
  BY <1>1, Durations, TickAssumption
<1>7. \A e \in log[k] : e.score > clock - WindowOf[k] => e \in S
  BY <1>1 DEF Safe, Timing, NoEarlyEviction, InWindow
<1>8. KeyOf(r)' = k
  BY <1>2 DEF KeyOf
<1> DEFINE T == TicksPerSecond
<1> HIDE DEF k, S, d, T
<1>9. ASSUME NEW t \in Nat, t >= clock, t >= nowMs[r] + d * T
      PROVE  Cardinality({e \in log[k] : e.score > t - WindowOf[k]}) < LimitOf[k]
  <2> DEFINE late == {e \in log[k] : e.score > t - WindowOf[k]}
  <2>1. late \subseteq S
    BY <1>3, <1>6, <1>7, <1>9 DEF Entries
  <2> HIDE DEF late
  <2>2. CASE S = {}
    <3>1. late = {}
      BY <2>1, <2>2
    <3>2. Cardinality(late) = 0
      BY <3>1, FS_EmptySet, Zenon
    <3> QED
      BY <3>2, <1>4 DEF late
  <2>3. CASE S # {}
    <3>1. PICK first \in S : first.score = OldestScore(S)
      BY <1>3, <2>3, OldestExists
    <3>2. first.score \in Nat /\ d * T \in Nat
      BY <3>1, <1>3, <1>5, <1>6 DEF Entries, T
    <3>3. first.score + WindowOf[k] <= nowMs[r] + d * T
      BY <3>1, <2>3, <1>5 DEF T
    <3>4. first \notin late
      BY <3>2, <3>3, <1>3, <1>6, <1>9 DEF late
    <3>5. late \subseteq S \ {first}
      BY <2>1, <3>4
    <3>6. /\ IsFiniteSet(S \ {first})
          /\ Cardinality(S \ {first}) = Cardinality(S) - 1
      BY <3>1, <1>4, FS_RemoveElement
    <3>7. /\ Cardinality(late) <= Cardinality(S \ {first})
          /\ Cardinality(late) \in Nat
      BY <3>5, <3>6, FS_Subset, FS_CardinalityType
    <3> QED
      BY <3>6, <3>7, <1>4 DEF late
  <2> QED
    BY <2>2, <2>3
<1>10. \A t : StillThere(r, t)' = {e \in log[k] : e.score > t - WindowOf[k]}
  BY <1>2, <1>8 DEF StillThere, WindowOf
<1>11. Comeback(r)' = nowMs[r] + d * T
  BY <1>2 DEF Comeback, T
<1> QED
  BY <1>2, <1>3, <1>8, <1>9, <1>10, <1>11 DEF HonestFor

(* What a refused request was told stays true as time passes. *)
LEMMA HonestyLasts ==
    ASSUME Safe, Honest, NEW s \in Requests, pc[s] = "rejected",
           clock' >= clock, clock' \in Nat,
           scope'[s] = scope[s], nowMs'[s] = nowMs[s],
           retry'[s] = retry[s], seen'[s] = seen[s]
    PROVE  HonestFor(s)'
<1>1. HonestFor(s) /\ clock \in Nat
  BY DEF Honest, Safe, Shape, TypeOK
<1>2. KeyOf(s)' = KeyOf(s) /\ Comeback(s)' = Comeback(s)
  BY DEF KeyOf, Comeback
<1>3. \A t : StillThere(s, t)' = StillThere(s, t)
  BY <1>2 DEF StillThere, WindowOf
<1> QED
  BY <1>1, <1>2, <1>3 DEF HonestFor

LEMMA HonestNext == Safe /\ Honest /\ [Next]_vars => Honest'
<1> SUFFICES ASSUME Safe, Honest, [Next]_vars, NEW s \in Requests,
                    pc'[s] = "rejected"
             PROVE  HonestFor(s)'
  BY DEF Honest
<1> USE DEF Safe, Shape, TypeOK
<1>1. CASE Tick \/ UNCHANGED vars
  BY <1>1, HonestyLasts DEF Tick, vars
<1>2. ASSUME NEW r \in Requests, ReadOldest(r) PROVE HonestFor(s)'
  <2>1. CASE s = r
    BY <1>2, <2>1, RefusalIsHonest
  <2>2. CASE s # r
    BY <1>2, <2>2, HonestyLasts DEF ReadOldest
  <2> QED
    BY <2>1, <2>2
<1>3. ASSUME NEW r \in Requests,
             \/ Arrive(r) \/ ReadClock(r) \/ Trim(r) \/ Watch(r)
             \/ ReadCount(r) \/ Conflict(r) \/ Backoff(r)
             \/ ConnectionLost(r) \/ RedisFails(r)
             \/ Execute(r) \/ ExecuteReplyLost(r)
      PROVE  HonestFor(s)'
  <2>1. /\ s # r /\ pc[s] = "rejected" /\ clock' = clock
        /\ scope'[s] = scope[s] /\ nowMs'[s] = nowMs[s]
        /\ retry'[s] = retry[s] /\ seen'[s] = seen[s]
    BY <1>3 DEF Arrive, ReadClock, Trim, Watch, ReadCount, Conflict, Backoff,
                ConnectionLost, RedisFails, Retry, Execute, ExecuteReplyLost
  <2> QED
    BY <2>1, HonestyLasts
<1> QED
  BY <1>1, <1>2, <1>3 DEF Next, Step

(* A client that waits as long as Retry-After says finds that the entries it
   was refused for no longer fill the window. *)
THEOREM RetryHonest == Spec => []RetryAfterIsEnough
<1>1. Init => Safe /\ Honest
  <2>1. Init => Honest
    BY DEF Init, Honest
  <2>2. Init => Safe
    BY ShapeInit, TimingInit, LockingInit DEF Safe
  <2> QED
    BY <2>1, <2>2
<1>2. (Safe /\ Honest) /\ [Next]_vars => (Safe /\ Honest)'
  BY ShapeNext, TimingNext, LockingNext, HonestNext DEF Safe
<1>3. Safe /\ Honest => RetryAfterIsEnough
  <2> SUFFICES ASSUME Safe, Honest, NEW r \in Requests, pc[r] = "rejected",
                      clock >= Comeback(r)
               PROVE  Cardinality(InWindow(KeyOf(r)) \cap seen[r])
                        < LimitOf[KeyOf(r)]
    BY DEF RetryAfterIsEnough, Comeback
  <2> DEFINE A == InWindow(KeyOf(r)) \cap seen[r]
             B == StillThere(r, clock)
  <2>1. clock \in Nat /\ KeyOf(r) \in Keys
    BY DEF Safe, Shape, TypeOK, HasKey, InHit
  <2>2. IsFiniteSet(seen[r]) /\ Cardinality(B) < LimitOf[KeyOf(r)]
    BY <2>1 DEF Honest, HonestFor
  <2>3. A \subseteq B /\ B \subseteq seen[r]
    BY DEF InWindow, StillThere
  <2> HIDE DEF A, B
  <2>4. IsFiniteSet(B) /\ Cardinality(B) \in Nat
    BY <2>2, <2>3, FS_Subset, FS_CardinalityType
  <2>5. Cardinality(A) <= Cardinality(B) /\ Cardinality(A) \in Nat
    BY <2>3, <2>4, FS_Subset, FS_CardinalityType
  <2>6. Cardinality(A) < LimitOf[KeyOf(r)]
    BY <2>1, <2>2, <2>4, <2>5
  <2> QED
    BY <2>6 DEF A
<1> QED
  BY <1>1, <1>2, <1>3, PTL DEF Spec

-----------------------------------------------------------------------------
(* What a request is charged *)

(* Under each of its keys, and no other, a request takes a slot per attempt at
   most, and only one of which it hears; and what it leaves under the key that
   refuses it, or where it gives up, are slots of which it did not hear. *)
ChargesAreExact ==
    /\ \A k \in Keys : \A e \in log[k] :
          /\ k \in {IpKey[e.req], AuthKey[e.req]}
          /\ e.attempt < Attempts
          /\ \A f \in log[k] :
                e.req = f.req /\ (e.attempt = f.attempt \/ {e, f} \cap lost[k] = {}) => e = f
    /\ \A r \in Requests : pc[r] \in {"rejected", "conflict"} =>
          \A e \in log[KeyOf(r)] : e.req = r => e \in lost[KeyOf(r)]

Entered == {"clock", "backoff"} \cup Calling

AttemptsBounded ==
    \A r \in Requests : pc[r] \in Entered \cup {"idle"} => attempt[r] < Attempts

Bounded == Shape /\ LoopBounded /\ AttemptsBounded

LEMMA AttemptsType == Attempts \in Nat /\ Attempts >= 1 /\ Attempts >= WatchRetries
  BY DEF Attempts, Max2

LEMMA AttemptsNext == Bounded /\ [Next]_vars => AttemptsBounded'
<1> SUFFICES ASSUME Bounded, [Next]_vars PROVE AttemptsBounded'
  OBVIOUS
<1> USE AttemptsType DEF Bounded, Shape, TypeOK, AttemptsBounded, Entered, Calling, Watching
<1>1. ASSUME NEW r \in Requests, Backoff(r) PROVE AttemptsBounded'
  <2>1. attempt[r] + 1 < Attempts
    BY <1>1 DEF Backoff, LoopBounded
  <2> QED
    BY <1>1, <2>1 DEF Backoff
<1>2. ASSUME NEW r \in Requests, Execute(r) PROVE AttemptsBounded'
  BY <1>2 DEF Execute, Add
<1>3. ASSUME NEW r \in Requests,
             \/ Arrive(r) \/ ReadClock(r) \/ Trim(r) \/ Watch(r) \/ ReadCount(r)
             \/ ReadOldest(r) \/ Conflict(r) \/ ConnectionLost(r) \/ RedisFails(r)
             \/ ExecuteReplyLost(r)
      PROVE  AttemptsBounded'
  <2>1. /\ attempt' = attempt
        /\ \A s \in Requests \ {r} : pc'[s] = pc[s]
        /\ pc[r] \in Entered \cup {"idle"}
    BY <1>3 DEF Arrive, ReadClock, Trim, Watch, ReadCount, ReadOldest, Conflict,
                ConnectionLost, RedisFails, Retry, ExecuteReplyLost, Add
  <2> QED
    BY <2>1
<1>4. CASE Tick \/ UNCHANGED vars
  BY <1>4 DEF Tick, vars
<1> QED
  BY <1>1, <1>2, <1>3, <1>4 DEF Next, Step

LEMMA BoundedInvariant == Spec => []Bounded
<1>1. Init => Bounded
  <2>1. Init => LoopBounded /\ AttemptsBounded
    BY AttemptsType DEF Init, LoopBounded, AttemptsBounded
  <2> QED
    BY <2>1, ShapeInit DEF Bounded
<1>2. Bounded /\ [Next]_vars => Bounded'
  BY ShapeNext, LoopNext, AttemptsNext DEF Bounded
<1> QED
  BY <1>1, <1>2, PTL DEF Spec

(* Under the key it is at, a request knows of no slot of its own, and has none
   of this attempt; it has none under the key that follows. *)
NoneHeard(r) ==
    \A e \in log[KeyOf(r)] :
        e.req = r => /\ e \in lost[KeyOf(r)]
                     /\ e.attempt <= attempt[r]
                     /\ pc[r] \in {"clock"} \cup Calling => e.attempt < attempt[r]

NoSlotYet(r) ==
    /\ pc[r] \in InHit \cup {"conflict"} => KeyOf(r) \in Keys /\ NoneHeard(r)
    /\ pc[r] \in InHit /\ scope[r] = "ip" /\ AuthKey[r] # NoKey => ~Counted(r, AuthKey[r])
    /\ pc[r] = "idle" => \A k \in Keys : ~Counted(r, k)

Exact == ChargesAreExact /\ \A r \in Requests : NoSlotYet(r)

(* A request whose own slots do not change keeps what it knows of them. *)
LEMMA SameSlots ==
    ASSUME Exact, NEW s \in Requests,
           pc'[s] = pc[s], scope'[s] = scope[s], attempt'[s] = attempt[s],
           \A k \in Keys : /\ \A e \in log'[k] : e.req = s => e \in log[k]
                           /\ lost[k] \subseteq lost'[k]
    PROVE  /\ NoSlotYet(s)'
           /\ pc'[s] \in {"rejected", "conflict"} =>
                 \A e \in log'[KeyOf(s)'] : e.req = s => e \in lost'[KeyOf(s)']
<1>1. KeyOf(s)' = KeyOf(s) /\ NoSlotYet(s)
  BY DEF KeyOf, Exact
<1>2. \A k \in Keys : Counted(s, k)' => Counted(s, k)
  BY DEF Counted
<1>3. AuthKey[s] # NoKey => AuthKey[s] \in Keys
  OBVIOUS
<1> QED
  BY <1>1, <1>2, <1>3 DEF NoSlotYet, NoneHeard, InHit

(* EXEC adds one entry, of this attempt, to what is there. *)
LEMMA ExactExecute ==
    ASSUME Bounded, Exact, NEW r \in Requests, Execute(r) \/ ExecuteReplyLost(r)
    PROVE  Exact'
<1> DEFINE k == KeyOf(r)
           entry == EntryOf(r)
<1>1. /\ Add(r) /\ pc[r] = "exec"
      /\ pc' \in [Requests -> Phases] /\ scope \in [Requests -> {"ip", "auth"}]
      /\ attempt \in [Requests -> Nat]
      /\ \A s \in Requests \ {r} : pc'[s] = pc[s] /\ scope'[s] = scope[s] /\ attempt'[s] = attempt[s]
  BY DEF Execute, ExecuteReplyLost, Retry, Add, Bounded, Shape, TypeOK, Phases, Done, Refused
<1>2. /\ k \in Keys
      /\ \A s \in Requests, j \in Keys :
            Counted(s, j)' <=> Counted(s, j) \/ (s = r /\ j = k)
  BY <1>1, AddCounts DEF Bounded
<1>3. entry.req = r /\ entry.attempt = attempt[r]
  BY DEF EntryOf
<1>13. attempt[r] \in Nat /\ attempt[r] < Attempts
  BY <1>1 DEF Bounded, AttemptsBounded, Entered, Calling, Watching
<1>4. \A j \in Keys : log'[j] = IF j = k THEN log[j] \cup {entry} ELSE log[j]
  BY <1>1, <1>2 DEF Add, Bounded, Shape, TypeOK
<1>5. \A j \in Keys : lost[j] \subseteq lost'[j]
  <2>1. lost' = lost \/ lost' = [lost EXCEPT ![k] = @ \cup {entry}]
    BY DEF Execute, ExecuteReplyLost
  <2>2. lost \in [Keys -> SUBSET Entries]
    BY DEF Bounded, Shape, TypeOK
  <2> QED
    BY <1>2, <2>1, <2>2
<1>6. \A e \in log[k] : e.req = r => e \in lost[k] /\ e.attempt < attempt[r]
  BY <1>1 DEF Exact, NoSlotYet, NoneHeard, InHit, Calling, Watching
<1>7. k \in {IpKey[r], AuthKey[r]} /\ Attempts \in Nat
  BY AttemptsType DEF KeyOf
<1>8. \A j \in Keys : log[j] \subseteq Entries
  BY DEF Bounded, Shape, TypeOK
<1>9. \A s \in Requests \ {r} :
         /\ NoSlotYet(s)'
         /\ pc'[s] \in {"rejected", "conflict"} =>
               \A e \in log'[KeyOf(s)'] : e.req = s => e \in lost'[KeyOf(s)']
  <2> SUFFICES ASSUME NEW s \in Requests \ {r}
               PROVE  /\ NoSlotYet(s)'
                      /\ pc'[s] \in {"rejected", "conflict"} =>
                            \A e \in log'[KeyOf(s)'] : e.req = s => e \in lost'[KeyOf(s)']
    OBVIOUS
  <2> HIDE DEF k, entry
  <2>1. entry.req # s
    BY <1>3
  <2>2. \A j \in Keys : \A e \in log'[j] : e.req = s => e \in log[j]
    BY <1>4, <2>1
  <2> QED
    BY <1>1, <1>5, <2>2, SameSlots
<1>10. ASSUME NEW j \in Keys, NEW e \in log'[j]
       PROVE  /\ j \in {IpKey[e.req], AuthKey[e.req]}
              /\ e.attempt < Attempts
              /\ \A f \in log'[j] : e.req = f.req
                    /\ (e.attempt = f.attempt \/ {e, f} \cap lost'[j] = {}) => e = f
  <2>1. ASSUME NEW g \in log[j], NEW h \in log[j], g.req = h.req,
               g.attempt = h.attempt \/ {g, h} \cap lost[j] = {}
        PROVE  g = h
    BY <2>1 DEF Exact, ChargesAreExact
  <2>2. \A g \in log[j] : j \in {IpKey[g.req], AuthKey[g.req]} /\ g.attempt < Attempts
    BY DEF Exact, ChargesAreExact
  <2> HIDE DEF k, entry
  <2>3. j \in {IpKey[e.req], AuthKey[e.req]} /\ e.attempt < Attempts
    BY <1>3, <1>4, <1>7, <1>13, <2>2
  <2>4. ASSUME NEW f \in log'[j], e.req = f.req,
               e.attempt = f.attempt \/ {e, f} \cap lost'[j] = {}
        PROVE  e = f
    <3>1. CASE e \in log[j] /\ f \in log[j]
      BY <1>5, <2>1, <2>4, <3>1
    <3>2. ASSUME j = k, NEW g \in log[k], g.req = r
          PROVE  g.attempt # attempt[r] /\ g \in lost'[j]
      <4>1. g.attempt \in Nat /\ g.attempt < attempt[r]
        BY <1>2, <1>6, <1>8, <3>2 DEF Entries
      <4>2. g \in lost'[j]
        BY <1>2, <1>5, <1>6, <3>2
      <4> QED
        BY <1>13, <4>1, <4>2
    <3>3. CASE e = entry /\ f \in log[j]
      <4>1. CASE j = k
        <5>1. f.attempt # attempt[r] /\ f \in lost'[j]
          BY <1>3, <2>4, <3>2, <3>3, <4>1
        <5>2. {e, f} \cap lost'[j] # {}
          BY <5>1
        <5> QED
          BY <1>3, <2>4, <3>3, <5>1, <5>2
      <4>2. CASE j # k
        BY <1>4, <3>1, <3>3, <4>2
      <4> QED
        BY <4>1, <4>2
    <3>4. CASE f = entry /\ e \in log[j]
      <4>1. CASE j = k
        <5>1. e.attempt # attempt[r] /\ e \in lost'[j]
          BY <1>3, <2>4, <3>2, <3>4, <4>1
        <5>2. {e, f} \cap lost'[j] # {}
          BY <5>1
        <5> QED
          BY <1>3, <2>4, <3>4, <5>1, <5>2
      <4>2. CASE j # k
        BY <1>4, <3>1, <3>4, <4>2
      <4> QED
        BY <4>1, <4>2
    <3>5. (e \in log[j] \/ e = entry) /\ (f \in log[j] \/ f = entry)
      BY <1>4
    <3> QED
      BY <3>1, <3>3, <3>4, <3>5
  <2> QED
    BY <2>3, <2>4
<1>11. CASE ExecuteReplyLost(r)
  <2>1. /\ pc'[r] \in {"backoff", "conflict"} /\ scope'[r] = scope[r] /\ attempt'[r] = attempt[r]
        /\ lost'[k] = lost[k] \cup {entry}
    BY <1>1, <1>2, <1>11 DEF ExecuteReplyLost, Retry, Bounded, Shape, TypeOK
  <2>2. KeyOf(r)' = k
    BY <2>1 DEF KeyOf
  <2> HIDE DEF k, entry
  <2>7. ASSUME NEW e \in log[k], e.req = r
        PROVE  e \in lost'[k] /\ e.attempt <= attempt[r]
    <3>1. e.attempt \in Nat /\ e.attempt < attempt[r] /\ e \in lost[k]
      BY <1>2, <1>6, <1>8, <2>7 DEF Entries
    <3> QED
      BY <1>13, <2>1, <3>1
  <2>8. entry \in lost'[k] /\ entry.attempt <= attempt[r]
    BY <1>3, <1>13, <2>1
  <2>3. \A e \in log'[k] : e.req = r => e \in lost'[k] /\ e.attempt <= attempt[r]
    BY <1>2, <1>4, <2>7, <2>8
  <2>4. NoneHeard(r)'
    BY <2>1, <2>2, <2>3 DEF NoneHeard, Calling, Watching
  <2>5. scope[r] = "ip" /\ AuthKey[r] # NoKey => ~Counted(r, AuthKey[r])'
    <3>1. ASSUME scope[r] = "ip", AuthKey[r] # NoKey
          PROVE  AuthKey[r] \in Keys /\ AuthKey[r] # k /\ ~Counted(r, AuthKey[r])
      <4>1. k = IpKey[r]
        BY <3>1 DEF k, KeyOf
      <4> QED
        BY <1>1, <1>2, <3>1, <4>1, ScopesAssumption DEF Exact, NoSlotYet, InHit, Calling, Watching
    <3> QED
      BY <1>2, <3>1
  <2>6. NoSlotYet(r)'
    BY <1>2, <2>1, <2>2, <2>4, <2>5 DEF NoSlotYet
  <2> QED
    BY <1>9, <1>10, <2>2, <2>3, <2>6 DEF Exact, ChargesAreExact
<1>12. CASE Execute(r)
  <2>1. \/ pc'[r] = "admitted"
        \/ /\ pc'[r] = "clock" /\ scope[r] = "ip" /\ scope'[r] = "auth" /\ AuthKey[r] # NoKey
           /\ attempt'[r] = 0
    BY <1>1, <1>12 DEF Execute, Bounded, Shape, TypeOK
  <2>2. NoSlotYet(r)'
    <3>1. CASE pc'[r] = "admitted"
      BY <3>1 DEF NoSlotYet, InHit, Calling, Watching
    <3>2. CASE pc'[r] = "clock"
      <4>1. k = IpKey[r] /\ KeyOf(r)' = AuthKey[r] /\ AuthKey[r] \in Keys
        BY <2>1, <3>2 DEF KeyOf
      <4>2. AuthKey[r] # k /\ ~Counted(r, AuthKey[r])
        BY <1>1, <1>2, <2>1, <3>2, <4>1, ScopesAssumption
           DEF Exact, NoSlotYet, InHit, Calling, Watching
      <4> HIDE DEF k
      <4>3. ~Counted(r, AuthKey[r])'
        BY <1>2, <4>1, <4>2
      <4>4. NoneHeard(r)'
        BY <4>1, <4>3 DEF NoneHeard, Counted
      <4> QED
        BY <2>1, <3>2, <4>1, <4>4 DEF NoSlotYet
    <3> QED
      BY <2>1, <3>1, <3>2
  <2>3. pc'[r] \notin {"rejected", "conflict"}
    BY <2>1
  <2> QED
    BY <1>9, <1>10, <2>2, <2>3 DEF Exact, ChargesAreExact
<1> QED
  BY <1>11, <1>12

LEMMA ExactNext == Bounded /\ Exact /\ [Next]_vars => Exact'
<1> SUFFICES ASSUME Bounded, Exact, [Next]_vars PROVE Exact'
  OBVIOUS
<1>0. Shape
  BY DEF Bounded
<1>1. ASSUME NEW r \in Requests, Execute(r) \/ ExecuteReplyLost(r) PROVE Exact'
  BY <1>1, ExactExecute
<1>2. ASSUME NEW r \in Requests,
             \/ Arrive(r) \/ ReadClock(r) \/ Trim(r) \/ Watch(r) \/ ReadCount(r)
             \/ ReadOldest(r) \/ Conflict(r) \/ Backoff(r)
             \/ ConnectionLost(r) \/ RedisFails(r)
      PROVE  Exact'
  <2>1. /\ log' = log /\ lost' = lost
        /\ \A s \in Requests \ {r} :
              pc'[s] = pc[s] /\ scope'[s] = scope[s] /\ attempt'[s] = attempt[s]
    BY <1>0, <1>2 DEF Arrive, ReadClock, Trim, Watch, ReadCount, ReadOldest, Conflict, Backoff,
                ConnectionLost, RedisFails, Retry, Shape, TypeOK
  <2>2. \A s \in Requests, k \in Keys : Counted(s, k)' <=> Counted(s, k)
    BY <2>1 DEF Counted
  <2>3. \A s \in Requests \ {r} :
           /\ NoSlotYet(s)'
           /\ pc'[s] \in {"rejected", "conflict"} =>
                 \A e \in log'[KeyOf(s)'] : e.req = s => e \in lost'[KeyOf(s)']
    BY <2>1, SameSlots
  <2>4. /\ \A s \in Requests : AuthKey[s] # NoKey => AuthKey[s] \in Keys
        /\ \A s \in Requests : IpKey[s] # NoKey => IpKey[s] \in Keys
        /\ NoSlotYet(r)
    BY DEF Exact
  <2>5. NoSlotYet(r)'
    <3>1. CASE Arrive(r)
      <4>1. /\ pc[r] = "idle" /\ pc'[r] \in {"clock", "admitted"}
            /\ pc'[r] = "clock" => KeyOf(r)' \in Keys
        BY <1>0, <2>4, <3>1 DEF Arrive, KeyOf, Shape, TypeOK
      <4>2. \A k \in Keys : ~Counted(r, k)'
        BY <2>2, <2>4, <4>1 DEF NoSlotYet
      <4>3. pc'[r] = "clock" => NoneHeard(r)'
        BY <4>1, <4>2 DEF NoneHeard, Counted
      <4> QED
        BY <2>4, <4>1, <4>2, <4>3 DEF NoSlotYet, InHit, Calling, Watching
    <3>2. CASE ~Arrive(r)
      <4>1. /\ scope'[r] = scope[r] /\ pc[r] \in InHit \ {"rejected"} /\ pc'[r] # "idle"
            /\ pc'[r] \in {"clock"} \cup Calling =>
                  \/ attempt'[r] = attempt[r] /\ pc[r] \in {"clock"} \cup Calling
                  \/ attempt'[r] = attempt[r] + 1
            /\ attempt'[r] \in {attempt[r], attempt[r] + 1} /\ attempt[r] \in Nat
        BY <1>0, <1>2, <3>2 DEF ReadClock, Trim, Watch, ReadCount, ReadOldest, Conflict, Backoff,
                ConnectionLost, RedisFails, Retry, Shape, TypeOK, InHit, Calling, Watching
      <4>2. KeyOf(r)' = KeyOf(r)
        BY <4>1 DEF KeyOf
      <4>3. KeyOf(r) \in Keys /\ NoneHeard(r) /\ log[KeyOf(r)] \subseteq Entries
        BY <1>0, <2>4, <4>1 DEF NoSlotYet, Shape, TypeOK
      <4>4. pc'[r] \in InHit \cup {"conflict"} => NoneHeard(r)'
        BY <2>1, <4>1, <4>2, <4>3 DEF NoneHeard, Entries
      <4> QED
        BY <2>2, <2>4, <4>1, <4>2, <4>3, <4>4 DEF NoSlotYet
    <3> QED
      BY <3>1, <3>2
  <2>6. pc'[r] \in {"rejected", "conflict"} =>
           \A e \in log'[KeyOf(r)'] : e.req = r => e \in lost'[KeyOf(r)']
    BY <2>5 DEF NoSlotYet, NoneHeard, InHit
  <2> QED
    BY <2>1, <2>3, <2>5, <2>6 DEF Exact, ChargesAreExact
<1>3. CASE Tick \/ UNCHANGED vars
  BY <1>3 DEF Tick, vars, Exact, ChargesAreExact, NoSlotYet, NoneHeard, Counted, KeyOf
<1> QED
  BY <1>1, <1>2, <1>3 DEF Next, Step

LEMMA ExactInvariant == Spec => []Exact
<1>1. Init => Exact
  BY DEF Init, Exact, ChargesAreExact, NoSlotYet, NoneHeard, Counted, KeyOf, InHit, Calling, Watching
<1>2. Bounded /\ Exact /\ [Next]_vars => Exact'
  BY ExactNext
<1> QED
  BY <1>1, <1>2, BoundedInvariant, PTL DEF Spec

(* What limits the damage of a lost reply: a request that tries again without
   knowing whether its EXEC was applied takes one slot per attempt at most, hears
   of one at most, and takes none under a key of somebody else; one that is refused
   or gives up leaves under that key only slots of which it did not hear (lines
   79-137). *)
THEOREM ChargesExact == Spec => []ChargesAreExact
<1>1. Exact => ChargesAreExact
  BY DEF Exact
<1> QED
  BY <1>1, ExactInvariant, PTL

-----------------------------------------------------------------------------
(* The five round trips implement an admission decided in one step. *)

LEMMA AddAdmits ==
    ASSUME Safe, Bounded, Exact, NEW r \in Requests, Add(r), UNCHANGED clock
    PROVE  \E k \in Keys : Abstract!Admit(r, k)
<1> DEFINE k == KeyOf(r)
           entry == EntryOf(r)
<1>1. k \in Keys
  BY DEF Safe, Shape, HasKey, Add, InHit, Calling, Watching
<1>2. count[r] = Cardinality(zset[k]) /\ count[r] < LimitOf[k]
  BY DEF Safe, Locking, CountIsCurrent, RoomSeen, Decided, Add
<1>3. Cardinality(InWindow(k)) < LimitOf[k]
  BY <1>1, <1>2, WindowInSet
<1>4. Abstract!Current(k) = InWindow(k)
  BY DEF Abstract!Current, InWindow
<1>5. nowMs[r] \in 0 .. clock
  BY DEF Safe, Shape, TypeOK, Timing, ReadPast
<1>6. log' = [log EXCEPT ![k] = @ \cup {entry}]
  BY DEF Add
<1>7. attempt[r] \in Tries /\ \A a \in log[k] : a.req = r => a.attempt # attempt[r]
  <2>1. /\ attempt[r] \in Nat /\ attempt[r] < Attempts /\ Attempts \in Nat
        /\ log[k] \subseteq Entries
    BY <1>1, AttemptsType DEF Bounded, AttemptsBounded, Entered, Calling, Watching, Add, Shape, TypeOK
  <2>2. \A a \in log[k] : a.req = r => a.attempt < attempt[r]
    BY DEF Exact, NoSlotYet, NoneHeard, Add, InHit, Calling, Watching
  <2> QED
    BY <2>1, <2>2 DEF Tries, Entries
<1>8. \E n \in Tries, score \in 0 .. clock :
         /\ \A a \in log[k] : a.req = r => a.attempt # n
         /\ log' = [log EXCEPT ![k] = @ \cup {[req |-> r, attempt |-> n, score |-> score]}]
  BY <1>5, <1>6, <1>7 DEF EntryOf
<1> HIDE DEF k, entry
<1>9. Cardinality(Abstract!Current(k)) < LimitOf[k]
  BY <1>3, <1>4
<1>10. Abstract!Cardinality(Abstract!Current(k)) = Cardinality(Abstract!Current(k))
  BY DEF Abstract!Cardinality, Cardinality
<1>11. Abstract!Admit(r, k)
  BY <1>8, <1>9, <1>10 DEF Abstract!Admit
<1> QED
  BY <1>1, <1>11

LEMMA StepRefines == Safe /\ Bounded /\ Exact /\ [Next]_vars => [Abstract!ANext]_(Abstract!avars)
<1> SUFFICES ASSUME Safe, Bounded, Exact, [Next]_vars
             PROVE  Abstract!ANext \/ UNCHANGED Abstract!avars
  OBVIOUS
<1>1. CASE Tick
  BY <1>1 DEF Tick, Abstract!ANext, Abstract!Pass
<1>2. ASSUME NEW r \in Requests, Execute(r) \/ ExecuteReplyLost(r)
      PROVE  Abstract!ANext
  BY <1>2, AddAdmits DEF Execute, ExecuteReplyLost, Abstract!ANext
<1>3. ASSUME NEW r \in Requests,
             \/ Arrive(r) \/ ReadClock(r) \/ Trim(r) \/ Watch(r)
             \/ ReadCount(r) \/ ReadOldest(r) \/ Conflict(r) \/ Backoff(r)
             \/ ConnectionLost(r) \/ RedisFails(r)
      PROVE  UNCHANGED Abstract!avars
  BY <1>3 DEF Arrive, ReadClock, Trim, Watch, ReadCount, ReadOldest, Conflict,
              Backoff, ConnectionLost, RedisFails, Retry, Abstract!avars
<1>4. CASE UNCHANGED vars
  BY <1>4 DEF vars, Abstract!avars
<1> QED
  BY <1>1, <1>2, <1>3, <1>4 DEF Next, Step

(* hit's optimistic transaction is an atomic admission under the limit, for
   any number of requests racing on any number of keys. *)
THEOREM Refinement == Spec => Implements
<1>1. Init => Abstract!AInit
  BY DEF Init, Abstract!AInit
<1>2. Safe /\ Bounded /\ Exact /\ [Next]_vars => [Abstract!ANext]_(Abstract!avars)
  BY StepRefines
<1> QED
  BY <1>1, <1>2, SafeInvariant, BoundedInvariant, ExactInvariant, PTL DEF Spec, Implements, Abstract!ASpec

-----------------------------------------------------------------------------
(* What stays in Redis *)

(* A sorted set has an expiry exactly when it exists, and at most the TTL of its
   key from now. *)
KeysDie ==
    \A k \in Keys :
        /\ zset[k] # {} <=> expireAt[k] # 0
        /\ zset[k] # {} => clock <= expireAt[k] /\ expireAt[k] <= clock + TtlOf(k)

LEMMA TtlIsPositive == \A k \in Keys : TtlOf(k) \in Nat \ {0}
  BY Durations

LEMMA KeysDieNext == Shape /\ KeysDie /\ [Next]_vars => KeysDie'
<1> SUFFICES ASSUME Shape, KeysDie, [Next]_vars, NEW k \in Keys
             PROVE  /\ zset'[k] # {} <=> expireAt'[k] # 0
                    /\ zset'[k] # {} => clock' <= expireAt'[k] /\ expireAt'[k] <= clock' + TtlOf(k)
  BY DEF KeysDie, TtlOf
<1>1. /\ zset \in [Keys -> SUBSET Entries] /\ expireAt[k] \in Nat /\ clock \in Nat
      /\ expireAt \in [Keys -> Nat]
      /\ zset[k] # {} <=> expireAt[k] # 0
      /\ zset[k] # {} => clock <= expireAt[k] /\ expireAt[k] <= clock + TtlOf(k)
      /\ TtlOf(k) \in Nat \ {0}
  BY TtlIsPositive DEF Shape, TypeOK, KeysDie
<1>2. CASE Tick
  BY <1>1, <1>2 DEF Tick, Expired
<1>3. ASSUME NEW r \in Requests, Trim(r)
      PROVE  /\ zset'[k] # {} <=> expireAt'[k] # 0
             /\ zset'[k] # {} => clock' <= expireAt'[k] /\ expireAt'[k] <= clock' + TtlOf(k)
  <2>1. Stale(KeyOf(r), nowMs[r]) \subseteq zset[KeyOf(r)] /\ clock' = clock
    BY <1>3 DEF Stale, Trim
  <2> QED
    BY <1>1, <1>3, <2>1 DEF Trim
<1>4. ASSUME NEW r \in Requests, Execute(r) \/ ExecuteReplyLost(r)
      PROVE  /\ zset'[k] # {} <=> expireAt'[k] # 0
             /\ zset'[k] # {} => clock' <= expireAt'[k] /\ expireAt'[k] <= clock' + TtlOf(k)
  <2>1. Add(r) /\ clock' = clock
    BY <1>4 DEF Execute, ExecuteReplyLost
  <2>2. CASE k = KeyOf(r)
    <3>1. zset'[k] = zset[k] \cup {EntryOf(r)}
      BY <1>1, <2>1, <2>2 DEF Add
    <3>2. zset'[k] # {}
      BY <3>1
    <3>3. expireAt'[k] = clock + TtlOf(k)
      BY <1>1, <2>1, <2>2 DEF Add
    <3> QED
      BY <1>1, <2>1, <3>2, <3>3
  <2>3. CASE k # KeyOf(r)
    <3>1. zset'[k] = zset[k] /\ expireAt'[k] = expireAt[k]
      BY <1>1, <2>1, <2>3 DEF Add
    <3> QED
      BY <1>1, <2>1, <3>1
  <2> QED
    BY <2>2, <2>3
<1>5. ASSUME NEW r \in Requests,
             \/ Arrive(r) \/ ReadClock(r) \/ Watch(r) \/ ReadCount(r)
             \/ ReadOldest(r) \/ Conflict(r) \/ Backoff(r)
             \/ ConnectionLost(r) \/ RedisFails(r)
      PROVE  UNCHANGED <<zset, expireAt, clock>>
  BY <1>5 DEF Arrive, ReadClock, Watch, ReadCount, ReadOldest, Conflict, Backoff, ConnectionLost, RedisFails, Retry, redis
<1>6. CASE UNCHANGED vars
  BY <1>1, <1>6 DEF vars, redis
<1> QED
  BY <1>1, <1>2, <1>3, <1>4, <1>5, <1>6 DEF Next, Step

(* No key of the limiter stays in Redis for ever: each has an expiry, whichever
   requests fail on the way, and at most the TTL of its scope away (line 115). *)
THEOREM NoKeyIsImmortal == Spec => []KeysDie
<1>1. Init => Shape /\ KeysDie
  <2>1. Init => KeysDie
    BY DEF Init, KeysDie
  <2> QED
    BY <2>1, ShapeInit
<1>2. (Shape /\ KeysDie) /\ [Next]_vars => (Shape /\ KeysDie)'
  BY ShapeNext, KeysDieNext
<1> QED
  BY <1>1, <1>2, PTL DEF Spec

-----------------------------------------------------------------------------
(* How long a request stays in hit *)

(* The steps left of an attempt, *)
StepsLeft(phase) ==
    IF phase = "clock" THEN 7 ELSE IF phase = "trim" THEN 6 ELSE
    IF phase = "watch" THEN 5 ELSE IF phase = "count" THEN 4 ELSE
    IF phase = "oldest" THEN 3 ELSE IF phase = "exec" THEN 2 ELSE 1

(* the attempts left in this scope and the next, *)
AttemptsLeft(r) ==
    IF scope[r] = "ip" THEN 2 * Attempts - attempt[r] ELSE Attempts - attempt[r]

(* and both together: how far a request is from leaving hit. *)
Distance(r) ==
    IF pc[r] \in Entered THEN 8 * AttemptsLeft(r) + StepsLeft(pc[r]) ELSE 0

MaxDistance == 16 * Attempts + 7

(* Every step of a request in hit brings it closer to the end, and no step of
   another request, nor the clock, takes it away again. *)
Approaches(r) ==
    pc[r] \in Entered =>
        IF pc'[r] = pc[r] THEN Distance(r)' = Distance(r)
                          ELSE Distance(r)' < Distance(r)

LEMMA StepApproaches ==
    ASSUME Bounded, NEW r \in Requests,
           Step(r) \/ ExecuteReplyLost(r) \/ ConnectionLost(r) \/ RedisFails(r)
    PROVE  Approaches(r)
<1>1. /\ pc \in [Requests -> Phases] /\ attempt \in [Requests -> Nat]
      /\ scope \in [Requests -> {"ip", "auth"}]
      /\ attempt[r] \in Nat /\ scope[r] \in {"ip", "auth"}
      /\ Attempts \in Nat /\ Attempts >= 1
      /\ pc[r] \in Entered => attempt[r] < Attempts
  BY AttemptsType DEF Bounded, Shape, TypeOK, AttemptsBounded
<1> USE DEF Entered, Calling, Watching
<1>2. AttemptsLeft(r) \in Int /\ (pc[r] \in Entered => AttemptsLeft(r) >= 1)
  BY <1>1 DEF AttemptsLeft
<1>3. CASE ReadClock(r) \/ Trim(r) \/ Watch(r) \/ ReadCount(r) \/ ReadOldest(r) \/ Conflict(r)
           \/ ConnectionLost(r) \/ RedisFails(r) \/ ExecuteReplyLost(r)
  <2>1. AttemptsLeft(r)' = AttemptsLeft(r)
    BY <1>1, <1>3 DEF ReadClock, Trim, Watch, ReadCount, ReadOldest, Conflict, ConnectionLost, RedisFails, Retry,
            ExecuteReplyLost, AttemptsLeft
  <2>2. \/ pc[r] = "clock" /\ pc'[r] = "trim"
        \/ pc[r] = "trim" /\ pc'[r] = "watch"
        \/ pc[r] = "watch" /\ pc'[r] = "count"
        \/ pc[r] = "count" /\ pc'[r] = "oldest"
        \/ pc[r] = "oldest" /\ pc'[r] = "exec"
        \/ pc[r] \in Watching /\ pc'[r] = "backoff"
        \/ pc[r] \in Entered /\ pc'[r] \notin Entered
    BY <1>1, <1>3 DEF ReadClock, Trim, Watch, ReadCount, ReadOldest, Conflict, ConnectionLost, RedisFails, Retry,
            ExecuteReplyLost, Add
  <2> QED
    BY <1>2, <2>1, <2>2 DEF Approaches, Distance, StepsLeft
<1>4. CASE Backoff(r)
  <2>1. /\ pc[r] = "backoff" /\ pc'[r] \in {"clock", "unreachable"}
        /\ AttemptsLeft(r)' = AttemptsLeft(r) - 1
    BY <1>1, <1>4 DEF Backoff, AttemptsLeft
  <2> QED
    BY <1>2, <2>1 DEF Approaches, Distance, StepsLeft
<1>5. CASE Execute(r)
  <2>1. pc[r] = "exec" /\ pc'[r] \in {"clock", "admitted"}
    BY <1>1, <1>5 DEF Execute, Add
  <2>2. pc'[r] = "clock" => scope[r] = "ip" /\ scope'[r] = "auth" /\ attempt'[r] = 0
    BY <1>1, <1>5 DEF Execute
  <2>3. pc'[r] = "clock" => AttemptsLeft(r)' <= AttemptsLeft(r) - 1 /\ AttemptsLeft(r)' \in Int
    BY <1>1, <2>1, <2>2 DEF AttemptsLeft
  <2> QED
    BY <1>2, <2>1, <2>3 DEF Approaches, Distance, StepsLeft
<1> QED
  BY <1>3, <1>4, <1>5 DEF Step

LEMMA NextApproaches ==
    ASSUME Bounded, [Next]_vars, NEW r \in Requests
    PROVE  Approaches(r)
<1>1. ASSUME pc'[r] = pc[r], scope'[r] = scope[r], attempt'[r] = attempt[r]
      PROVE  Approaches(r)
  BY <1>1 DEF Approaches, Distance, AttemptsLeft
<1>2. CASE Tick \/ UNCHANGED vars
  BY <1>1, <1>2 DEF Tick, vars
<1>3. CASE Step(r) \/ ExecuteReplyLost(r) \/ ConnectionLost(r) \/ RedisFails(r)
  BY <1>3, StepApproaches
<1>4. CASE Arrive(r)
  BY <1>4 DEF Arrive, Approaches, Entered, Calling, Watching
<1>5. ASSUME NEW s \in Requests \ {r},
             Arrive(s) \/ Step(s) \/ ExecuteReplyLost(s) \/ ConnectionLost(s) \/ RedisFails(s)
      PROVE  Approaches(r)
  <2>1. pc'[r] = pc[r] /\ scope'[r] = scope[r] /\ attempt'[r] = attempt[r]
    BY <1>5 DEF Arrive, Step, ReadClock, Trim, Watch, ReadCount, ReadOldest, Conflict, Execute,
            Backoff, ExecuteReplyLost, ConnectionLost, RedisFails, Retry, Bounded, Shape, TypeOK
  <2> QED
    BY <1>1, <2>1
<1> QED
  BY <1>2, <1>3, <1>4, <1>5 DEF Next

LEMMA DistanceBounded ==
    ASSUME Bounded, NEW r \in Requests
    PROVE  Distance(r) \in 0 .. MaxDistance
<1>1. /\ attempt[r] \in Nat /\ scope[r] \in {"ip", "auth"} /\ Attempts \in Nat
      /\ pc[r] \in Entered => attempt[r] < Attempts
  BY AttemptsType DEF Bounded, Shape, TypeOK, AttemptsBounded
<1>2. /\ StepsLeft(pc[r]) \in 0 .. 7
      /\ pc[r] \in Entered => AttemptsLeft(r) \in 0 .. 2 * Attempts
  BY <1>1 DEF StepsLeft, AttemptsLeft
<1> QED
  BY <1>1, <1>2 DEF Distance, MaxDistance

(* hit terminates: whatever the other requests do, each step of a request takes
   it nearer to an answer, from a distance that the number of retries bounds.
   What is left to the scheduler is that the steps are taken (lines 79-137). *)
THEOREM HitAdvances ==
    Spec => /\ [](\A r \in Requests : Distance(r) \in 0 .. MaxDistance)
            /\ [][\A r \in Requests : Approaches(r)]_vars
<1>1. Bounded => \A r \in Requests : Distance(r) \in 0 .. MaxDistance
  BY DistanceBounded
<1>2. ASSUME Bounded, [Next]_vars
      PROVE  [\A r \in Requests : Approaches(r)]_vars
  BY <1>2, NextApproaches
<1> QED
  BY <1>1, <1>2, BoundedInvariant, PTL DEF Spec

-----------------------------------------------------------------------------
(* Refusals *)

(* No request executes its transaction when the window that it looked at is over:
   the round trips of an attempt are shorter than a window. *)
Prompt == \A r \in Requests : pc[r] = "exec" => clock < nowMs[r] + WindowOf[KeyOf(r)]

(* What of S is in the window of r, by the clock that r read. *)
Recent(S, r) == {e \in S : e.score > nowMs[r] - WindowOf[KeyOf(r)]}

(* A request is refused only if the limit was taken within its window. *)
RefusedForAReason ==
    \A r \in Requests :
        pc[r] = "rejected" => Cardinality(Recent(seen[r], r)) >= LimitOf[KeyOf(r)]

(* On the way there: after the trim only entries of the window are left, and
   they are what is counted. *)
ReasonFor(r) ==
    /\ pc[r] \in {"watch", "count"} => Recent(zset[KeyOf(r)], r) = zset[KeyOf(r)]
    /\ pc[r] = "oldest" => count[r] <= Cardinality(Recent(log[KeyOf(r)], r))
    /\ pc[r] = "rejected" => /\ IsFiniteSet(seen[r])
                             /\ Cardinality(Recent(seen[r], r)) >= LimitOf[KeyOf(r)]

LEMMA RecentFinite ==
    ASSUME NEW r, NEW S, IsFiniteSet(S)
    PROVE  IsFiniteSet(Recent(S, r)) /\ Cardinality(Recent(S, r)) \in Nat
<1>1. Recent(S, r) \subseteq S
  BY DEF Recent
<1> QED
  BY <1>1, FS_Subset, FS_CardinalityType

(* Steps that only add to the log, and add nothing old to the sorted set. *)
LEMMA ReasonStays ==
    ASSUME Shape, Shape', NEW r \in Requests, ReasonFor(r),
           pc'[r] = pc[r], scope'[r] = scope[r], nowMs'[r] = nowMs[r], count'[r] = count[r],
           seen'[r] = seen[r],
           \A k \in Keys : log[k] \subseteq log'[k],
           pc[r] \in {"watch", "count"} =>
               \A e \in zset'[KeyOf(r)] \ zset[KeyOf(r)] : e.score > nowMs[r] - WindowOf[KeyOf(r)]
    PROVE  ReasonFor(r)'
<1> DEFINE k == KeyOf(r)
           W(S) == {e \in S : e.score > nowMs[r] - WindowOf[k]}
<1>1. KeyOf(r)' = k
  BY DEF KeyOf
<1>2. ReasonFor(r)' <=>
        /\ pc[r] \in {"watch", "count"} => W(zset'[k]) = zset'[k]
        /\ pc[r] = "oldest" => count[r] <= Cardinality(W(log'[k]))
        /\ pc[r] = "rejected" => /\ IsFiniteSet(seen[r])
                                 /\ Cardinality(W(seen[r])) >= LimitOf[k]
  BY <1>1 DEF ReasonFor, Recent
<1>3. /\ pc[r] \in {"watch", "count"} => W(zset[k]) = zset[k]
      /\ pc[r] = "oldest" => count[r] <= Cardinality(W(log[k]))
      /\ pc[r] = "rejected" => /\ IsFiniteSet(seen[r])
                               /\ Cardinality(W(seen[r])) >= LimitOf[k]
  BY DEF ReasonFor, Recent
<1>4. pc[r] \in {"watch", "count"} => \A e \in zset'[k] \ zset[k] : e.score > nowMs[r] - WindowOf[k]
  OBVIOUS
<1>5. ASSUME pc[r] = "oldest" PROVE count[r] <= Cardinality(W(log'[k]))
  <2>1. k \in Keys
    BY <1>5 DEF Shape, HasKey, InHit, Calling, Watching
  <2>2. log[k] \subseteq log'[k] /\ IsFiniteSet(log'[k]) /\ IsFiniteSet(log[k])
    BY <2>1 DEF Shape, FiniteLogs
  <2>3. W(log[k]) \subseteq W(log'[k]) /\ W(log'[k]) \subseteq log'[k] /\ W(log[k]) \subseteq log[k]
    BY <2>2
  <2>4. IsFiniteSet(W(log'[k])) /\ IsFiniteSet(W(log[k]))
    BY <2>2, <2>3, FS_Subset
  <2>5. /\ Cardinality(W(log[k])) <= Cardinality(W(log'[k]))
        /\ Cardinality(W(log[k])) \in Nat /\ Cardinality(W(log'[k])) \in Nat
    BY <2>3, <2>4, FS_Subset, FS_CardinalityType
  <2>6. count[r] \in Nat
    BY DEF Shape, TypeOK
  <2> HIDE DEF W, k
  <2> QED
    BY <1>3, <1>5, <2>5, <2>6
<1>6. ASSUME pc[r] \in {"watch", "count"} PROVE W(zset'[k]) = zset'[k]
  <2>1. \A e \in zset[k] : e.score > nowMs[r] - WindowOf[k]
    BY <1>3, <1>6
  <2> HIDE DEF k
  <2> QED
    BY <1>4, <1>6, <2>1
<1> HIDE DEF W, k
<1> QED
  BY <1>2, <1>3, <1>5, <1>6

(* What a request of which nothing is claimed owes. *)
LEMMA NoReasonNeeded ==
    ASSUME NEW r \in Requests, pc'[r] \notin {"watch", "count", "oldest", "rejected"}
    PROVE  ReasonFor(r)'
BY DEF ReasonFor

LEMMA ReasonStep ==
    ASSUME NEW r \in Requests, Shape, Shape', ReasonFor(r),
           Step(r) \/ Arrive(r) \/ ExecuteReplyLost(r) \/ ConnectionLost(r) \/ RedisFails(r)
    PROVE  ReasonFor(r)'
<1>0. /\ pc \in [Requests -> Phases] /\ nowMs \in [Requests -> 0 .. MaxClock]
      /\ zset \in [Keys -> SUBSET Entries] /\ count \in [Requests -> Nat]
      /\ seen \in [Requests -> SUBSET Entries]
  BY DEF Shape, TypeOK
<1> DEFINE k == KeyOf(r)
           W(S) == {e \in S : e.score > nowMs[r] - WindowOf[k]}
<1>1. ASSUME Trim(r) PROVE ReasonFor(r)'
  <2>1. /\ pc'[r] = "watch" /\ zset' = [zset EXCEPT ![k] = @ \ Stale(k, nowMs[r])]
        /\ UNCHANGED <<nowMs, scope>>
    BY <1>0, <1>1 DEF Trim
  <2>2. k \in Keys /\ KeyOf(r)' = k
    BY <1>1, <2>1 DEF Trim, Shape, HasKey, InHit, Calling, KeyOf
  <2>3. zset'[k] = zset[k] \ Stale(k, nowMs[r])
    BY <1>0, <2>1, <2>2
  <2>4. WindowOf[k] \in Nat /\ nowMs[r] \in Nat /\ \A e \in zset[k] : e.score \in Nat
    BY <1>0, <2>2, Durations, ClockAssumption DEF Entries
  <2>5. W(zset'[k]) = zset'[k]
    BY <2>3, <2>4 DEF Stale
  <2> QED
    BY <2>1, <2>2, <2>5 DEF ReasonFor, Recent
<1>2. ASSUME Watch(r) PROVE ReasonFor(r)'
  <2>1. pc[r] = "watch" /\ pc'[r] = "count" /\ UNCHANGED <<zset, nowMs, scope>>
    BY <1>0, <1>2 DEF Watch, redis
  <2>2. KeyOf(r)' = KeyOf(r)
    BY <2>1 DEF KeyOf
  <2> QED
    BY <2>1, <2>2 DEF ReasonFor, Recent
<1>3. ASSUME ReadCount(r) PROVE ReasonFor(r)'
  <2>1. /\ pc[r] = "count" /\ pc'[r] = "oldest" /\ count'[r] = Cardinality(zset[k])
        /\ UNCHANGED <<log, nowMs, scope>>
    BY <1>0, <1>3 DEF ReadCount
  <2>2. k \in Keys /\ KeyOf(r)' = k
    BY <2>1 DEF Shape, HasKey, InHit, Calling, Watching, KeyOf
  <2>3. W(zset[k]) = zset[k] /\ zset[k] \subseteq log[k] /\ IsFiniteSet(log[k])
    BY <2>1, <2>2 DEF ReasonFor, Recent, Shape, FiniteLogs
  <2>4. zset[k] \subseteq W(log[k]) /\ W(log[k]) \subseteq log[k]
    BY <2>3
  <2>5. Cardinality(zset[k]) <= Cardinality(W(log[k]))
    BY <2>3, <2>4, FS_Subset
  <2> QED
    BY <2>1, <2>2, <2>5 DEF ReasonFor, Recent
<1>4. ASSUME ReadOldest(r) PROVE ReasonFor(r)'
  <2>1. CASE pc'[r] = "rejected"
    <3>1. /\ pc[r] = "oldest" /\ count[r] >= LimitOf[k] /\ seen'[r] = log[k]
          /\ UNCHANGED <<nowMs, scope>>
      BY <1>0, <1>4, <2>1 DEF ReadOldest
    <3>2. k \in Keys /\ KeyOf(r)' = k
      BY <3>1 DEF Shape, HasKey, InHit, Calling, Watching, KeyOf
    <3>3. count[r] <= Cardinality(W(log[k])) /\ IsFiniteSet(log[k])
      BY <3>1, <3>2 DEF ReasonFor, Recent, Shape, FiniteLogs
    <3>4. Cardinality(W(log[k])) \in Nat /\ LimitOf[k] \in Nat /\ count[r] \in Nat
      <4>1. W(log[k]) \subseteq log[k]
        OBVIOUS
      <4>2. Cardinality(W(log[k])) \in Nat
        BY <3>3, <4>1, FS_Subset, FS_CardinalityType
      <4> QED
        BY <1>0, <3>2, <4>2, LimitAssumption
    <3>5. Cardinality(W(log[k])) >= LimitOf[k]
      <4> HIDE DEF k, W
      <4> QED
        BY <3>1, <3>3, <3>4
    <3> QED
      BY <2>1, <3>1, <3>2, <3>3, <3>5 DEF ReasonFor, Recent
  <2>2. CASE pc'[r] # "rejected"
    BY <1>0, <1>4, <2>2, NoReasonNeeded DEF ReadOldest
  <2> QED
    BY <2>1, <2>2
<1>5. ASSUME ~Trim(r), ~Watch(r), ~ReadCount(r), ~ReadOldest(r)
      PROVE  pc'[r] \notin {"watch", "count", "oldest", "rejected"}
  BY <1>0, <1>5 DEF Step, Arrive, ReadClock, Conflict, Execute, Backoff, ExecuteReplyLost, ConnectionLost, RedisFails, Retry
<1> QED
  BY <1>1, <1>2, <1>3, <1>4, <1>5, NoReasonNeeded

LEMMA ReasonNext ==
    ASSUME Shape, Shape', ReadPast, Prompt, [Next]_vars, NEW r \in Requests, ReasonFor(r)
    PROVE  ReasonFor(r)'
<1>0. /\ pc \in [Requests -> Phases] /\ nowMs \in [Requests -> 0 .. MaxClock] /\ clock \in Nat
      /\ zset \in [Keys -> SUBSET Entries] /\ log \in [Keys -> SUBSET Entries]
      /\ count \in [Requests -> Nat] /\ seen \in [Requests -> SUBSET Entries]
      /\ scope \in [Requests -> {"ip", "auth"}]
  BY ClockAssumption DEF Shape, TypeOK
<1>1. ASSUME NEW q \in Requests \ {r},
             Step(q) \/ Arrive(q) \/ ExecuteReplyLost(q) \/ ConnectionLost(q) \/ RedisFails(q)
      PROVE  ReasonFor(r)'
  <2>1. /\ pc'[r] = pc[r] /\ scope'[r] = scope[r] /\ nowMs'[r] = nowMs[r]
        /\ count'[r] = count[r] /\ seen'[r] = seen[r]
    BY <1>0, <1>1 DEF Step, Arrive, ReadClock, Trim, Watch, ReadCount, ReadOldest, Conflict, Execute,
                      Backoff, ExecuteReplyLost, ConnectionLost, RedisFails, Retry
  <2>2. CASE Add(q)
    <3>1. /\ pc[q] = "exec" /\ KeyOf(q) \in Keys
          /\ zset' = [zset EXCEPT ![KeyOf(q)] = @ \cup {EntryOf(q)}]
          /\ log' = [log EXCEPT ![KeyOf(q)] = @ \cup {EntryOf(q)}]
      BY <2>2 DEF Add, Shape, HasKey, InHit, Calling, Watching
    <3>2. \A j \in Keys : log[j] \subseteq log'[j]
      BY <1>0, <3>1
    <3>3. ASSUME pc[r] \in {"watch", "count"}, NEW e \in zset'[KeyOf(r)] \ zset[KeyOf(r)]
          PROVE  e.score > nowMs[r] - WindowOf[KeyOf(r)]
      <4>1. KeyOf(r) \in Keys
        BY <3>3 DEF Shape, HasKey, InHit, Calling, Watching
      <4>2. KeyOf(r) = KeyOf(q) /\ e.score = nowMs[q]
        BY <1>0, <3>1, <3>3, <4>1 DEF EntryOf
      <4>3. clock < nowMs[q] + WindowOf[KeyOf(r)] /\ nowMs[r] <= clock
        BY <3>1, <4>2 DEF Prompt, ReadPast
      <4>4. nowMs[q] \in Nat /\ nowMs[r] \in Nat /\ WindowOf[KeyOf(r)] \in Nat
        BY <1>0, <4>1, Durations, ClockAssumption
      <4> QED
        BY <1>0, <4>2, <4>3, <4>4
    <3> QED
      BY <2>1, <3>2, <3>3, ReasonStays
  <2>3. CASE ~Add(q)
    <3>1. log' = log /\ (\A j \in Keys : zset'[j] \subseteq zset[j])
      BY <1>0, <1>1, <2>3 DEF Step, Arrive, ReadClock, Trim, Watch, ReadCount, ReadOldest, Conflict,
                              Execute, Backoff, ExecuteReplyLost, ConnectionLost, RedisFails, Retry, redis
    <3>2. pc[r] \in {"watch", "count"} => KeyOf(r) \in Keys
      BY DEF Shape, HasKey, InHit, Calling, Watching
    <3> QED
      BY <2>1, <3>1, <3>2, ReasonStays
  <2> QED
    BY <2>2, <2>3
<1>2. CASE Tick \/ UNCHANGED vars
  <2>1. /\ UNCHANGED <<pc, scope, nowMs, count, seen, log>>
        /\ \A j \in Keys : zset'[j] \subseteq zset[j]
    BY <1>0, <1>2 DEF Tick, vars, redis
  <2>2. pc[r] \in {"watch", "count"} => KeyOf(r) \in Keys
    BY DEF Shape, HasKey, InHit, Calling, Watching
  <2> QED
    BY <2>1, <2>2, ReasonStays
<1> QED
  BY <1>1, <1>2, ReasonStep DEF Next

(* The other side of the limiter's promise: as long as no attempt takes a window
   or longer from its clock to its EXEC, a 429 means that the limit was taken
   within the window that the refused request looked at (lines 84-108). A slower
   one can leave an entry that was already over when it was added. *)
THEOREM RefusalsHaveReasons == Spec /\ []Prompt => []RefusedForAReason
<1>1. Init => \A r \in Requests : ReasonFor(r)
  BY DEF Init, ReasonFor
<1>2. Safe /\ Safe' /\ Prompt /\ (\A r \in Requests : ReasonFor(r)) /\ [Next]_vars
        => (\A r \in Requests : ReasonFor(r))'
  BY ReasonNext DEF Safe, Timing
<1>3. (\A r \in Requests : ReasonFor(r)) => RefusedForAReason
  BY DEF ReasonFor, RefusedForAReason
<1> QED
  BY <1>1, <1>2, <1>3, SafeInvariant, PTL DEF Spec
=============================================================================
