--------------------------- MODULE EnergySumProofs ---------------------------
(***************************************************************************)
(* Proofs about EnergySum: its types, that every moment is summed once,    *)
(* and that the published total does not fall, for every set of readings,  *)
(* every rounding step and any number of events.                           *)
(***************************************************************************)
EXTENDS EnergySum, TLAPS

-----------------------------------------------------------------------------
(* Arithmetic.                                                             *)

LEMMA TimesMonotone ==
    ASSUME NEW g \in Nat, NEW a \in Int, NEW b \in Int, a <= b
    PROVE  g * a <= g * b
  BY SMT

LEMMA TimesSum ==
    ASSUME NEW g \in Int, NEW a \in Int, NEW b \in Int
    PROVE  g * (a + b) = g * a + g * b
  BY SMT

LEMMA Quotient ==
    ASSUME NEW g \in Nat \ {0}, NEW x \in Int
    PROVE  /\ x \div g \in Int
           /\ g * (x \div g) <= x
           /\ x < g * (x \div g) + g
  BY SMT

\* A quotient is known by its bounds.
LEMMA QuotientBelow ==
    ASSUME NEW g \in Nat \ {0}, NEW p \in Int, NEW q \in Int,
           g * p < g * q + g
    PROVE  p <= q
<1>1. SUFFICES ASSUME q + 1 <= p PROVE FALSE
  BY SMT
<1>2. g * (q + 1) <= g * p
  BY <1>1, TimesMonotone
<1>3. g * (q + 1) = g * q + g
  BY SMT
<1>4. QED
  BY <1>2, <1>3, SMT

\* Rounding to the step of the published total: off by half of it at most, in the
\* order of the totals, and nothing is lost by rounding twice.
LEMMA PublishedNear ==
    ASSUME NEW t \in Int
    PROVE  /\ Published(t) \in Int
           /\ 2 * Published(t) <= 2 * t + Grain
           /\ 2 * t <= 2 * Published(t) + Grain
<1> DEFINE q == (2 * t + Grain) \div (2 * Grain)
<1>1. /\ Grain \in Nat \ {0} /\ 2 * Grain \in Nat \ {0} /\ 2 * t + Grain \in Int
  BY EnergySumAssumption, SMT
<1>2. /\ q \in Int
      /\ (2 * Grain) * q <= 2 * t + Grain
      /\ 2 * t + Grain < (2 * Grain) * q + 2 * Grain
  BY <1>1, Quotient
<1>3. (2 * Grain) * q = 2 * (Grain * q)
  BY <1>1, <1>2, SMT
<1>4. Grain * q \in Int
  BY <1>1, <1>2, SMT
<1> HIDE DEF q
<1>5. QED
  BY <1>1, <1>2, <1>3, <1>4, SMT DEF Published, q

LEMMA PublishedMonotone ==
    ASSUME NEW s \in Int, NEW t \in Int, s <= t
    PROVE  Published(s) <= Published(t)
<1> DEFINE p == (2 * s + Grain) \div (2 * Grain)
           q == (2 * t + Grain) \div (2 * Grain)
<1>1. /\ Grain \in Nat \ {0} /\ 2 * Grain \in Nat \ {0}
      /\ 2 * s + Grain \in Int /\ 2 * t + Grain \in Int
  BY EnergySumAssumption, SMT
<1>2. /\ p \in Int /\ q \in Int
      /\ (2 * Grain) * p <= 2 * s + Grain
      /\ 2 * t + Grain < (2 * Grain) * q + 2 * Grain
  BY <1>1, Quotient
<1> HIDE DEF p, q
<1>3. (2 * Grain) * p \in Int /\ (2 * Grain) * q \in Int
  BY <1>1, <1>2, SMT
<1>4. p <= q
  <2>1. (2 * Grain) * p < (2 * Grain) * q + 2 * Grain
    BY <1>1, <1>2, <1>3, SMT
  <2>2. QED
    BY <1>1, <1>2, <2>1, QuotientBelow
<1>5. Grain * p <= Grain * q
  BY <1>1, <1>2, <1>4, TimesMonotone
<1>6. QED
  BY <1>5 DEF Published, p, q

LEMMA PublishedTwice ==
    ASSUME NEW t \in Int
    PROVE  Published(Published(t)) = Published(t)
<1> DEFINE q == (2 * t + Grain) \div (2 * Grain)
           x == 2 * (Grain * q) + Grain
           r == x \div (2 * Grain)
<1>1. /\ Grain \in Nat \ {0} /\ 2 * Grain \in Nat \ {0} /\ 2 * t + Grain \in Int
  BY EnergySumAssumption, SMT
<1>2. q \in Int
  BY <1>1, Quotient
<1> HIDE DEF q
<1>3. Grain * q \in Int /\ x \in Int /\ x = (2 * Grain) * q + Grain
  BY <1>1, <1>2, SMT
<1> HIDE DEF x
<1>4. /\ r \in Int
      /\ (2 * Grain) * r <= x
      /\ x < (2 * Grain) * r + 2 * Grain
  BY <1>1, <1>3, Quotient
<1> HIDE DEF r
<1>5. (2 * Grain) * r \in Int /\ (2 * Grain) * q \in Int
  BY <1>1, <1>2, <1>4, SMT
<1>6. r <= q
  <2>1. (2 * Grain) * r < (2 * Grain) * q + 2 * Grain
    BY <1>1, <1>3, <1>4, <1>5, SMT
  <2>2. QED
    BY <1>1, <1>2, <1>4, <2>1, QuotientBelow
<1>7. q <= r
  <2>1. (2 * Grain) * q < (2 * Grain) * r + 2 * Grain
    BY <1>1, <1>3, <1>4, <1>5, SMT
  <2>2. QED
    BY <1>1, <1>2, <1>4, <2>1, QuotientBelow
<1>8. r = q
  BY <1>2, <1>4, <1>6, <1>7, SMT
<1>9. QED
  BY <1>8 DEF Published, q, r, x

LEMMA PublishedZero == Published(0) = 0
<1> DEFINE q == (2 * 0 + Grain) \div (2 * Grain)
<1>1. /\ Grain \in Nat \ {0} /\ 2 * Grain \in Nat \ {0} /\ 2 * 0 + Grain \in Int
      /\ 2 * 0 + Grain = Grain
  BY EnergySumAssumption, SMT
<1>2. /\ q \in Int
      /\ (2 * Grain) * q <= Grain
      /\ Grain < (2 * Grain) * q + 2 * Grain
  BY <1>1, Quotient
<1> HIDE DEF q
<1>3. (2 * Grain) * 0 = 0 /\ (2 * Grain) * q \in Int
  BY <1>1, <1>2, SMT
<1>4. q <= 0 /\ 0 <= q
  <2>1. (2 * Grain) * q < (2 * Grain) * 0 + 2 * Grain
    BY <1>1, <1>2, <1>3, SMT
  <2>2. (2 * Grain) * 0 < (2 * Grain) * q + 2 * Grain
    BY <1>1, <1>2, <1>3, SMT
  <2>3. QED
    BY <1>1, <1>2, <2>1, <2>2, QuotientBelow
<1>5. q = 0
  BY <1>2, <1>4, SMT
<1>6. Grain * 0 = 0
  BY <1>1, SMT
<1>7. QED
  BY <1>5, <1>6 DEF Published, q

-----------------------------------------------------------------------------
(* The invariant.                                                          *)

\* What is summed so far is right for the entity that is there, for what it is
\* restored from, and for what is on disk; what is stored has been rounded.
Upper(total, counted, n) == 2 * total <= 2 * (High * counted) + Grain * n
Lower(total, counted, n) == 2 * total >= 2 * (Low * counted) - Grain * n

Sound ==
    /\ 0 <= Counted
    /\ added => Upper(energy, Counted, restores)
    /\ stored # None => Upper(stored, Counted, restores + 1) /\ Published(stored) = stored
    /\ disk # None => Upper(disk, Counted, restores + 1) /\ Published(disk) = disk
    /\ lossless /\ added => last_time <= clock /\ Lower(energy, Counted, restores)
    /\ lossless /\ ~added =>
         IF stored = None THEN Counted = 0 ELSE Lower(stored, Counted, restores + 1)

LEMMA PendingNat == TypeOK => Pending \in Nat
  BY SMT DEF TypeOK, Pending

LEMMA ReadingInt == ASSUME NEW power \in Readings, power # None PROVE power \in Int
  BY EnergySumAssumption, SMT DEF Readings

LEMMA IntegratedInt ==
    ASSUME NEW total \in Int, NEW power \in Readings, NEW elapsed \in Int
    PROVE  Integrated(total, power, elapsed) \in Int
  BY ReadingInt, SMT DEF Integrated

LEMMA KeptTotal == TypeOK => Kept \in Totals
  BY PublishedNear DEF TypeOK, Kept, Totals

LEMMA Initialised == Init => TypeOK /\ Sound
<1>1. SUFFICES ASSUME Init PROVE TypeOK /\ Sound
  OBVIOUS
<1>2. TypeOK
  <2>1. /\ clock \in Int /\ energy \in Int /\ last_time \in Int /\ ticks \in Nat
        /\ events \in Nat /\ lived \in Nat /\ restores \in Nat /\ dropped \in Nat
    BY <1>1, SMT DEF Init
  <2>2. QED
    BY <1>1, <2>1, Zenon DEF Init, TypeOK, Readings, Totals
<1>3. Counted = 0
  BY <1>1, SMT DEF Init, Counted, Pending
<1>4. QED
  BY <1>1, <1>2, <1>3 DEF Init, Sound

\* What an update of the entity leaves, whichever refresh caused it.
LEMMA UpdateTyped ==
    ASSUME TypeOK, NEW power \in Readings, HandleCoordinatorUpdate(power)
    PROVE  /\ energy' \in Int /\ last_time' \in Int /\ dropped' \in Nat
           /\ UNCHANGED <<added, stored, disk, restores>>
<1>1. CASE added
  <2>1. clock - last_time \in Int /\ energy \in Int
    BY SMT DEF TypeOK
  <2>2. energy' \in Int
    BY <1>1, <2>1, IntegratedInt DEF HandleCoordinatorUpdate
  <2>3. dropped' \in Nat
    BY <1>1, PendingNat, SMT DEF HandleCoordinatorUpdate, TypeOK
  <2>4. QED
    BY <1>1, <2>2, <2>3 DEF HandleCoordinatorUpdate, TypeOK
<1>2. CASE ~added
  BY <1>2 DEF HandleCoordinatorUpdate, TypeOK, hassVars
<1>3. QED
  BY <1>1, <1>2

LEMMA TypeStep == TypeOK /\ [Next]_vars => TypeOK'
<1>1. SUFFICES ASSUME TypeOK, [Next]_vars PROVE TypeOK'
  OBVIOUS
<1>2. CASE Tick
  BY <1>1, <1>2, SMT DEF Tick, TypeOK, hassVars
<1>3. CASE SetClock
  <2>1. PICK jump \in Jumps : SetClock!(jump)
    BY <1>3 DEF SetClock
  <2>2. jump \in Int
    BY EnergySumAssumption
  <2>3. clock' \in Int /\ lived' \in Nat /\ events' \in Nat /\ lossless' \in BOOLEAN
    BY <1>1, <2>1, <2>2, SMT DEF Happens, TypeOK
  <2>4. QED
    BY <1>1, <2>1, <2>3 DEF TypeOK, hassVars
<1>4. CASE RefreshSucceeds
  <2>1. PICK power \in Readings : RefreshSucceeds!(power)
    BY <1>4 DEF RefreshSucceeds
  <2>2. QED
    BY <1>1, <2>1, UpdateTyped DEF TypeOK
<1>5. CASE RefreshFails
  <2>1. CASE last_update_success
    BY <1>1, <1>5, <2>1, UpdateTyped DEF RefreshFails, TypeOK
  <2>2. CASE ~last_update_success
    BY <1>1, <1>5, <2>2 DEF RefreshFails, TypeOK, hassVars
  <2>3. QED
    BY <2>1, <2>2
<1>6. CASE AddEntity
  <2>1. energy' \in Int /\ restores' \in Nat
    BY <1>1, <1>6, SMT DEF AddEntity, Restored, TypeOK, Totals
  <2>2. data' \in Readings /\ last_update_success' \in BOOLEAN
    BY <1>1, <1>6 DEF AddEntity, TypeOK
  <2>3. QED
    BY <1>1, <1>6, <2>1, <2>2 DEF AddEntity, TypeOK
<1>7. CASE RemoveEntity
  <2>1. stored' \in Totals
    BY <1>1, <1>7, PublishedNear DEF RemoveEntity, TypeOK, Totals
  <2>2. dropped' \in Nat /\ events' \in Nat
    BY <1>1, <1>7, PendingNat, SMT DEF RemoveEntity, Happens, TypeOK
  <2>3. QED
    BY <1>1, <1>7, <2>1, <2>2 DEF RemoveEntity, TypeOK
<1>8. CASE DumpStates
  BY <1>1, <1>8, KeptTotal DEF DumpStates, TypeOK
<1>9. ASSUME NEW clean \in BOOLEAN, Restart(clean) PROVE TypeOK'
  <2>1. disk' \in Totals /\ stored' \in Totals
    BY <1>1, <1>9, KeptTotal DEF Restart, TypeOK
  <2>2. dropped' \in Nat /\ events' \in Nat /\ lossless' \in BOOLEAN
    BY <1>1, <1>9, PendingNat, SMT DEF Restart, Happens, TypeOK
  <2>3. QED
    BY <1>1, <1>9, <2>1, <2>2 DEF Restart, TypeOK, Readings
<1>10. CASE UNCHANGED vars
  BY <1>1, <1>10 DEF vars, hassVars, TypeOK
<1>11. QED
  BY <1>1, <1>2, <1>3, <1>4, <1>5, <1>6, <1>7, <1>8, <1>9, <1>10 DEF Next

\* The state is always of its type.
THEOREM TypeCorrect == Spec => []TypeOK
<1>1. Init => TypeOK
  BY Initialised
<1>2. TypeOK /\ [Next]_vars => TypeOK'
  BY TypeStep
<1>3. QED
  BY <1>1, <1>2, PTL DEF Spec

-----------------------------------------------------------------------------
(* The bounds move with the time that is counted.                          *)

LEMMA UpperKept ==
    ASSUME NEW total \in Int, NEW c \in Int, NEW d \in Int, NEW m \in Nat, NEW n \in Nat,
           c <= d, m <= n, Upper(total, c, m)
    PROVE  Upper(total, d, n)
<1>1. High * c <= High * d /\ Grain * m <= Grain * n
  BY EnergySumAssumption, TimesMonotone
<1>2. High * c \in Int /\ High * d \in Int /\ Grain * m \in Int /\ Grain * n \in Int
  BY EnergySumAssumption, SMT
<1>3. QED
  BY <1>1, <1>2, SMT DEF Upper

LEMMA LowerKept ==
    ASSUME NEW total \in Int, NEW c \in Int, NEW m \in Nat, NEW n \in Nat,
           m <= n, Lower(total, c, m)
    PROVE  Lower(total, c, n)
<1>1. Grain * m <= Grain * n
  BY EnergySumAssumption, TimesMonotone
<1>2. Low * c \in Int /\ Grain * m \in Int /\ Grain * n \in Int
  BY EnergySumAssumption, SMT
<1>3. QED
  BY <1>1, <1>2, SMT DEF Lower

\* An interval that is summed with a reading stays within the bounds.
LEMMA IntervalSummed ==
    ASSUME NEW total \in Int, NEW c \in Int, NEW n \in Nat, NEW power \in Powers, NEW e \in Nat
    PROVE  /\ Upper(total, c, n) => Upper(total + power * e, c + e, n)
           /\ Lower(total, c, n) => Lower(total + power * e, c + e, n)
<1>1. power \in Int /\ Low \in Int /\ High \in Int /\ Low <= power /\ power <= High
  BY EnergySumAssumption, SMT
<1>2. e * power <= e * High /\ e * Low <= e * power
  BY <1>1, TimesMonotone
<1>3. /\ e * power = power * e /\ e * High = High * e /\ e * Low = Low * e
      /\ power * e \in Int /\ High * e \in Int /\ Low * e \in Int
  BY <1>1, SMT
<1>4. High * (c + e) = High * c + High * e /\ Low * (c + e) = Low * c + Low * e
  BY <1>1, TimesSum
<1>5. High * c \in Int /\ Low * c \in Int /\ Grain * n \in Int
  BY <1>1, EnergySumAssumption, SMT
<1>6. QED
  BY <1>2, <1>3, <1>4, <1>5, SMT DEF Upper, Lower

\* Rounding costs one half step more.
LEMMA RoundingBounded ==
    ASSUME NEW total \in Int, NEW c \in Int, NEW n \in Nat
    PROVE  /\ Upper(total, c, n) => Upper(Published(total), c, n + 1)
           /\ Lower(total, c, n) => Lower(Published(total), c, n + 1)
<1>1. Grain * (n + 1) = Grain * n + Grain * 1 /\ Grain * 1 = Grain
  BY EnergySumAssumption, TimesSum, SMT
<1>2. High * c \in Int /\ Low * c \in Int /\ Grain * n \in Int /\ Grain \in Int
  BY EnergySumAssumption, SMT
<1>3. QED
  BY <1>1, <1>2, PublishedNear, SMT DEF Upper, Lower

\* An entity that starts from nothing is within the bounds.
LEMMA NothingSummed ==
    ASSUME NEW c \in Nat, NEW n \in Nat
    PROVE  Upper(0, c, n) /\ Lower(0, 0, n)
<1>1. High * c \in Nat /\ Grain * n \in Nat /\ Low * 0 = 0
  BY EnergySumAssumption, SMT
<1>2. QED
  BY <1>1, SMT DEF Upper, Lower

LEMMA CountedInt == TypeOK => Counted \in Int
  BY PendingNat, SMT DEF TypeOK, Counted

\* What is stored stays within the bounds while more time is counted.
LEMMA StoredKept ==
    ASSUME TypeOK, Sound, NEW d \in Int, Counted <= d, NEW n \in Nat, restores <= n
    PROVE  /\ stored # None => Upper(stored, d, n + 1)
           /\ disk # None => Upper(disk, d, n + 1)
<1>1. restores \in Nat /\ restores + 1 \in Nat /\ n + 1 \in Nat /\ restores + 1 <= n + 1
  BY SMT DEF TypeOK
<1>2. (stored # None => stored \in Int) /\ (disk # None => disk \in Int)
  BY DEF TypeOK, Totals
<1>3. QED
  BY <1>1, <1>2, CountedInt, UpperKept DEF Sound

-----------------------------------------------------------------------------
(* The steps.                                                              *)

LEMMA UpdateSound ==
    ASSUME TypeOK, Sound, NEW power \in Readings, HandleCoordinatorUpdate(power),
           UNCHANGED <<clock, lived, lossless>>
    PROVE  Sound'
<1>1. CASE ~added
  <2>1. UNCHANGED <<clock, lived, lossless, hassVars, dropped>>
    BY <1>1 DEF HandleCoordinatorUpdate
  <2>2. Counted' = Counted
    BY <2>1 DEF Counted, Pending, hassVars
  <2>3. QED
    BY <2>1, <2>2 DEF Sound, hassVars
<1>2. CASE added
  <2>1. /\ energy' = Integrated(energy, power, clock - last_time)
        /\ last_time' = clock /\ clock' = clock /\ lived' = lived
        /\ dropped' = dropped + (IF power = None THEN Pending ELSE 0)
        /\ UNCHANGED <<added, stored, disk, restores, lossless>>
    BY <1>2 DEF HandleCoordinatorUpdate
  <2>2. Pending' = 0
    BY <2>1, SMT DEF Pending, TypeOK
  <2> DEFINE e == IF power = None THEN 0 ELSE Pending
  <2>3. e \in Nat /\ Pending \in Nat /\ Counted \in Int
    BY PendingNat, CountedInt
  <2>4. Counted' = Counted + e
    BY <2>1, <2>2, <2>3, SMT DEF Counted, TypeOK
  <2>5. IF power = None THEN energy' = energy
                        ELSE power \in Powers /\ energy' = energy + power * e
    <3>1. CASE power = None
      BY <2>1, <3>1 DEF Integrated
    <3>2. CASE power # None
      <4>1. power \in Powers /\ power \in Int
        BY <3>2, ReadingInt DEF Readings
      <4>2. CASE clock <= last_time
        <5>1. e = 0 /\ clock - last_time <= 0
          BY <1>2, <3>2, <4>2, SMT DEF Pending, TypeOK
        <5>2. power * 0 = 0
          BY <4>1, SMT
        <5>3. energy' = energy
          BY <2>1, <5>1 DEF Integrated
        <5>4. QED
          BY <4>1, <5>1, <5>2, <5>3, SMT DEF TypeOK
      <4>3. CASE ~(clock <= last_time)
        <5>1. e = clock - last_time /\ ~(clock - last_time <= 0)
          BY <1>2, <3>2, <4>3, SMT DEF Pending, TypeOK
        <5>2. QED
          BY <2>1, <3>2, <4>1, <5>1 DEF Integrated
      <4>4. QED
        BY <4>2, <4>3
    <3>3. QED
      BY <3>1, <3>2
  <2>6. energy \in Int /\ restores \in Nat
    BY DEF TypeOK
  <2>7. Upper(energy', Counted', restores)
    <3>1. Upper(energy, Counted, restores)
      BY <1>2 DEF Sound
    <3>2. CASE power = None
      <4>1. energy' = energy /\ Counted' = Counted
        BY <2>3, <2>4, <2>5, <3>2, SMT
      <4>2. QED
        BY <3>1, <4>1
    <3>3. CASE power # None
      BY <2>3, <2>4, <2>5, <2>6, <3>1, <3>3, IntervalSummed
    <3>4. QED
      BY <3>2, <3>3
  <2>8. lossless => Lower(energy', Counted', restores)
    <3>1. lossless => Lower(energy, Counted, restores)
      BY <1>2 DEF Sound
    <3>2. CASE power = None
      <4>1. energy' = energy /\ Counted' = Counted
        BY <2>3, <2>4, <2>5, <3>2, SMT
      <4>2. QED
        BY <3>1, <4>1
    <3>3. CASE power # None
      BY <2>3, <2>4, <2>5, <2>6, <3>1, <3>3, IntervalSummed
    <3>4. QED
      BY <3>2, <3>3
  <2> HIDE DEF e
  <2>9. Counted <= Counted' /\ 0 <= Counted' /\ Counted' \in Int
    BY <2>3, <2>4, SMT DEF Sound
  <2>10. /\ stored # None => Upper(stored, Counted', restores + 1)
         /\ disk # None => Upper(disk, Counted', restores + 1)
    BY <2>6, <2>9, StoredKept, SMT
  <2>11. last_time' <= clock'
    BY <2>1, SMT DEF TypeOK
  <2>12. QED
    BY <1>2, <2>1, <2>7, <2>8, <2>9, <2>10, <2>11 DEF Sound
<1>3. QED
  BY <1>1, <1>2

\* Time passes, or the clock is corrected.
LEMMA ClockSound ==
    ASSUME TypeOK, Sound, NEW d \in Int, clock' = clock + d,
           lived' = lived + (IF added /\ d > 0 THEN d ELSE 0),
           lossless' => lossless /\ (added => d >= 0),
           UNCHANGED <<hassVars, dropped>>
    PROVE  Sound'
<1>1. /\ clock \in Int /\ last_time \in Int /\ lived \in Nat /\ dropped \in Nat
      /\ restores \in Nat
  BY DEF TypeOK
<1>2. UNCHANGED <<added, energy, last_time, stored, disk, restores, dropped>>
  BY DEF hassVars
<1>3. Counted <= Counted' /\ Counted' \in Int /\ Counted \in Int
  BY <1>1, <1>2, SMT DEF Counted, Pending
<1>4. lossless' => Counted' = Counted
  BY <1>1, <1>2, SMT DEF Counted, Pending, Sound
<1>5. lossless' /\ added => last_time' <= clock'
  BY <1>1, <1>2, SMT DEF Sound
<1>6. added => Upper(energy', Counted', restores')
  <2>1. energy \in Int
    BY DEF TypeOK
  <2>2. restores <= restores
    BY <1>1, SMT
  <2>3. QED
    BY <1>1, <1>2, <1>3, <2>1, <2>2, UpperKept DEF Sound
<1>7. /\ stored # None => Upper(stored, Counted', restores + 1)
      /\ disk # None => Upper(disk, Counted', restores + 1)
  <2>1. restores <= restores
    BY <1>1, SMT
  <2>2. QED
    BY <1>1, <1>3, <2>1, StoredKept
<1>8. 0 <= Counted'
  BY <1>3, SMT DEF Sound
<1>9. QED
  BY <1>2, <1>4, <1>5, <1>6, <1>7, <1>8 DEF Sound

LEMMA AddSound ==
    ASSUME TypeOK, Sound, AddEntity
    PROVE  Sound'
<1>1. /\ ~added /\ added' = TRUE /\ last_time' = clock /\ clock' = clock
      /\ energy' = (IF stored = None THEN 0 ELSE stored)
      /\ restores' = restores + 1
      /\ UNCHANGED <<stored, disk, lived, dropped, lossless>>
  BY DEF AddEntity, Restored
<1>2. /\ clock \in Int /\ lived \in Nat /\ dropped \in Nat
      /\ restores \in Nat /\ restores' \in Nat /\ restores <= restores'
      /\ restores' = restores + 1 /\ restores' + 1 \in Nat
  BY <1>1, SMT DEF TypeOK
<1>3. Counted' = Counted /\ Counted \in Int /\ 0 <= Counted /\ Counted \in Nat
  BY <1>1, <1>2, SMT DEF Counted, Pending, Sound
<1>4. Upper(energy', Counted', restores')
  BY <1>1, <1>2, <1>3, NothingSummed DEF Sound
<1>5. lossless => Lower(energy', Counted', restores')
  BY <1>1, <1>2, <1>3, NothingSummed DEF Sound
<1>6. /\ stored # None => Upper(stored, Counted, restores' + 1)
      /\ disk # None => Upper(disk, Counted, restores' + 1)
  <2>1. Counted <= Counted
    BY <1>3, SMT
  <2>2. QED
    BY <1>2, <1>3, <2>1, StoredKept
<1>7. last_time' <= clock'
  BY <1>1, <1>2, SMT
<1>8. QED
  BY <1>1, <1>3, <1>4, <1>5, <1>6, <1>7 DEF Sound

\* What is kept of the entity when it goes, or is written to disk.
LEMMA KeptSound ==
    ASSUME TypeOK, Sound
    PROVE  /\ Kept # None => /\ Upper(Kept, Counted, restores + 1)
                             /\ Published(Kept) = Kept
           /\ lossless => IF Kept = None THEN Counted = 0
                          ELSE Lower(Kept, Counted, restores + 1)
           /\ added => Kept # None
<1>1. Counted \in Int /\ restores \in Nat /\ energy \in Int
  BY CountedInt DEF TypeOK
<1>2. CASE added
  <2>1. Kept = Published(energy) /\ Kept \in Int
    BY <1>1, <1>2, PublishedNear DEF Kept
  <2>2. Kept # None
    BY <2>1, EnergySumAssumption
  <2>3. Upper(Kept, Counted, restores + 1) /\ Published(Kept) = Kept
    BY <1>1, <1>2, <2>1, RoundingBounded, PublishedTwice DEF Sound
  <2>4. lossless => Lower(Kept, Counted, restores + 1)
    BY <1>1, <1>2, <2>1, RoundingBounded DEF Sound
  <2>5. QED
    BY <2>2, <2>3, <2>4
<1>3. CASE ~added
  BY <1>3 DEF Kept, Sound
<1>4. QED
  BY <1>2, <1>3

\* The entity goes away, and what it is restored from is Kept, or what is on disk
\* when a crash has lost that.
LEMMA RemoveSound ==
    ASSUME TypeOK, Sound, added' = FALSE, dropped' = dropped + Pending,
           UNCHANGED <<clock, lived, restores>>,
           disk' \in {disk, Kept},
           \/ stored' = Kept /\ lossless' = lossless
           \/ stored' = disk /\ lossless' = FALSE
    PROVE  Sound'
<1>1. Counted' = Counted /\ 0 <= Counted
  BY PendingNat, SMT DEF Counted, Pending, TypeOK, Sound
<1>2. /\ stored' # None => Upper(stored', Counted, restores + 1) /\ Published(stored') = stored'
      /\ disk' # None => Upper(disk', Counted, restores + 1) /\ Published(disk') = disk'
  BY KeptSound DEF Sound
<1>3. lossless' => IF stored' = None THEN Counted = 0 ELSE Lower(stored', Counted, restores + 1)
  BY KeptSound
<1>4. restores' = restores
  OBVIOUS
<1> HIDE DEF Kept
<1>5. QED
  BY <1>1, <1>2, <1>3, <1>4 DEF Sound

LEMMA SoundStep == TypeOK /\ Sound /\ [Next]_vars => Sound'
<1>1. SUFFICES ASSUME TypeOK, Sound, [Next]_vars PROVE Sound'
  OBVIOUS
<1>2. CASE Tick
  <2>1. lived' = lived + (IF added /\ 1 > 0 THEN 1 ELSE 0)
    BY <1>2, SMT DEF Tick
  <2>2. clock' = clock + 1 /\ UNCHANGED <<hassVars, dropped, lossless>>
    BY <1>2 DEF Tick
  <2>3. 1 \in Int /\ 1 >= 0
    BY SMT
  <2>4. QED
    BY <1>1, <2>1, <2>2, <2>3, ClockSound
<1>3. CASE SetClock
  <2>1. PICK jump \in Jumps : SetClock!(jump)
    BY <1>3 DEF SetClock
  <2>2. jump \in Int
    BY EnergySumAssumption
  <2>3. lossless' => lossless /\ (added => jump >= 0)
    BY <2>1
  <2>4. QED
    BY <1>1, <2>1, <2>2, <2>3, ClockSound
<1>4. CASE RefreshSucceeds
  <2>1. PICK power \in Readings : RefreshSucceeds!(power)
    BY <1>4 DEF RefreshSucceeds
  <2>2. QED
    BY <1>1, <2>1, UpdateSound
<1>5. CASE RefreshFails
  <2>1. CASE last_update_success
    <3>1. HandleCoordinatorUpdate(data) /\ UNCHANGED <<clock, lived, lossless>>
      BY <1>5, <2>1 DEF RefreshFails
    <3>2. data \in Readings
      BY <1>1 DEF TypeOK
    <3>3. QED
      BY <1>1, <3>1, <3>2, UpdateSound
  <2>2. CASE ~last_update_success
    <3>1. UNCHANGED <<hassVars, dropped, clock, lived, lossless>>
      BY <1>5, <2>2 DEF RefreshFails
    <3>2. QED
      BY <1>1, <3>1 DEF Sound, Counted, Pending, hassVars
  <2>3. QED
    BY <2>1, <2>2
<1>6. CASE AddEntity
  BY <1>1, <1>6, AddSound
<1>7. CASE RemoveEntity
  <2>1. stored' = Kept /\ disk' = disk
    BY <1>7 DEF RemoveEntity, Kept
  <2>2. QED
    BY <1>1, <1>7, <2>1, RemoveSound DEF RemoveEntity
<1>8. CASE DumpStates
  <2>1. disk' = Kept /\ UNCHANGED <<clock, added, energy, last_time, stored, lived, restores, dropped, lossless>>
    BY <1>8 DEF DumpStates
  <2>2. Counted' = Counted
    BY <2>1 DEF Counted, Pending
  <2>3. disk' # None => Upper(disk', Counted, restores + 1) /\ Published(disk') = disk'
    BY <1>1, <2>1, KeptSound
  <2>4. QED
    BY <1>1, <2>1, <2>2, <2>3 DEF Sound
<1>9. ASSUME NEW clean \in BOOLEAN, Restart(clean) PROVE Sound'
  <2>1. /\ disk' = (IF clean THEN Kept ELSE disk) /\ stored' = disk'
        /\ lossless' = (lossless /\ clean)
        /\ added' = FALSE /\ dropped' = dropped + Pending
        /\ UNCHANGED <<clock, lived, restores>>
    BY <1>9 DEF Restart
  <2>2. lossless \in BOOLEAN
    BY <1>1 DEF TypeOK
  <2>3. \/ stored' = Kept /\ lossless' = lossless
        \/ stored' = disk /\ lossless' = FALSE
    BY <2>1, <2>2
  <2>4. disk' \in {disk, Kept}
    BY <2>1
  <2>5. QED
    BY <1>1, <2>1, <2>3, <2>4, RemoveSound
<1>10. CASE UNCHANGED vars
  BY <1>1, <1>10 DEF vars, hassVars, Sound, Counted, Pending
<1>11. QED
  BY <1>1, <1>2, <1>3, <1>4, <1>5, <1>6, <1>7, <1>8, <1>9, <1>10 DEF Next

-----------------------------------------------------------------------------
(* The theorems.                                                           *)

THEOREM AlwaysSound == Spec => []Sound
<1>1. Init => Sound
  BY Initialised
<1>2. TypeOK /\ Sound /\ [Next]_vars => Sound'
  BY SoundStep
<1>3. QED
  BY <1>1, <1>2, TypeCorrect, PTL DEF Spec

\* No moment is summed twice, or at all when it must not be, and without a crash
\* or a correction backwards none is forgotten: the total is between the lowest
\* and the highest power over the time that counts (sensor.py:212-300).
THEOREM MomentsSummedOnce == Spec => []EveryMomentOnce
<1>1. TypeOK /\ Sound => EveryMomentOnce
  <2>1. SUFFICES ASSUME TypeOK, Sound PROVE EveryMomentOnce
    OBVIOUS
  <2>2. Counted \in Nat /\ restores + 1 \in Nat
    BY <2>1, CountedInt, SMT DEF Sound, TypeOK
  <2>3. Upper(Total, Counted, restores + 1)
    BY <2>1, <2>2, KeptSound, NothingSummed DEF Total
  <2>4. lossless => Lower(Total, Counted, restores + 1)
    BY <2>1, <2>2, KeptSound, NothingSummed DEF Total
  <2>5. QED
    BY <2>3, <2>4 DEF EveryMomentOnce, Upper, Lower
<1>2. QED
  BY <1>1, AlwaysSound, TypeCorrect, PTL

\* The published total is a number whatever is kept.
LEMMA TotalInt == TypeOK => Total \in Int
  BY KeptTotal, SMT DEF Total, Totals

LEMMA UpdateNeverFalls ==
    ASSUME TypeOK, Low >= 0, NEW power \in Readings, HandleCoordinatorUpdate(power)
    PROVE  Total' >= Total
<1>1. CASE ~added
  <2>1. Total' = Total
    BY <1>1 DEF HandleCoordinatorUpdate, Total, Kept, hassVars
  <2>2. QED
    BY <2>1, TotalInt, SMT
<1>2. CASE added
  <2>1. energy' = Integrated(energy, power, clock - last_time) /\ added'
    BY <1>2 DEF HandleCoordinatorUpdate
  <2>2. energy \in Int /\ clock - last_time \in Int /\ energy' \in Int
    BY <2>1, IntegratedInt, SMT DEF TypeOK
  <2>3. energy <= energy'
    <3>1. CASE power = None \/ clock - last_time <= 0
      BY <2>1, <2>2, <3>1, SMT DEF Integrated
    <3>2. CASE ~(power = None \/ clock - last_time <= 0)
      <4>1. power \in Nat /\ clock - last_time \in Nat
        BY <2>2, <3>2, EnergySumAssumption, SMT DEF Readings
      <4>2. power * (clock - last_time) \in Nat
        BY <4>1, SMT
      <4>3. energy' = energy + power * (clock - last_time)
        BY <2>1, <3>2 DEF Integrated
      <4>4. QED
        BY <2>2, <4>2, <4>3, SMT
    <3>3. QED
      BY <3>1, <3>2
  <2>4. Published(energy) <= Published(energy')
    BY <2>2, <2>3, PublishedMonotone
  <2>5. /\ Published(energy) \in Int /\ Published(energy) # None
        /\ Published(energy') \in Int /\ Published(energy') # None
    BY <2>2, PublishedNear, EnergySumAssumption
  <2>6. Total = Published(energy) /\ Total' = Published(energy')
    BY <1>2, <2>1, <2>5 DEF Total, Kept, Published
  <2>7. QED
    BY <2>4, <2>5, <2>6, SMT
<1>3. QED
  BY <1>1, <1>2

\* The entity comes back with the total it left with, however often.
LEMMA AddKeepsTotal == ASSUME TypeOK, Sound, AddEntity PROVE Total' = Total
<1>1. ~added /\ added' /\ energy' = (IF stored = None THEN 0 ELSE stored) /\ stored' = stored
  BY DEF AddEntity, Restored
<1>2. Kept = stored /\ Kept' = Published(energy')
  BY <1>1 DEF Kept, Published
<1>3. CASE stored = None
  <2>1. Kept' = 0
    BY <1>1, <1>2, <1>3, PublishedZero
  <2>2. QED
    BY <1>2, <1>3, <2>1 DEF Total
<1>4. CASE stored # None
  <2>1. Kept' = stored
    BY <1>1, <1>2, <1>4 DEF Sound
  <2>2. QED
    BY <1>2, <2>1 DEF Total
<1>5. QED
  BY <1>3, <1>4

LEMMA StepNeverFalls ==
    TypeOK /\ Sound /\ [Next]_vars /\ Low >= 0 => Total' >= Total \/ (~added' /\ stored' = disk)
<1>1. SUFFICES ASSUME TypeOK, Sound, [Next]_vars, Low >= 0
               PROVE  Total' >= Total \/ (~added' /\ stored' = disk)
  OBVIOUS
<1>2. Total' = Total => Total' >= Total
  BY <1>1, TotalInt, SMT
<1>3. CASE Tick
  BY <1>2, <1>3 DEF Tick, hassVars, Total, Kept
<1>4. CASE SetClock
  BY <1>2, <1>4 DEF SetClock, hassVars, Total, Kept
<1>5. CASE RefreshSucceeds
  BY <1>1, <1>5, UpdateNeverFalls DEF RefreshSucceeds
<1>6. CASE RefreshFails
  <2>1. CASE last_update_success
    BY <1>1, <1>6, <2>1, UpdateNeverFalls DEF RefreshFails, TypeOK
  <2>2. CASE ~last_update_success
    BY <1>2, <1>6, <2>2 DEF RefreshFails, hassVars, Total, Kept
  <2>3. QED
    BY <2>1, <2>2
<1>7. CASE AddEntity
  BY <1>1, <1>2, <1>7, AddKeepsTotal
<1>8. CASE RemoveEntity
  <2>1. Kept = Published(energy) /\ Kept' = Published(energy)
    BY <1>8 DEF RemoveEntity, Kept
  <2>2. QED
    BY <1>2, <2>1 DEF Total
<1>9. CASE DumpStates
  BY <1>2, <1>9 DEF DumpStates, Total, Kept
<1>10. ASSUME NEW clean \in BOOLEAN, Restart(clean)
       PROVE  Total' >= Total \/ (~added' /\ stored' = disk)
  <2>1. stored' = (IF clean THEN Kept ELSE disk) /\ ~added'
    BY <1>10 DEF Restart
  <2>2. CASE clean
    <3>1. Kept' = Kept
      BY <2>1, <2>2 DEF Kept
    <3>2. QED
      BY <1>2, <3>1 DEF Total
  <2>3. CASE ~clean
    BY <2>1, <2>3
  <2>4. QED
    BY <2>2, <2>3
<1>11. CASE UNCHANGED vars
  BY <1>2, <1>11 DEF vars, hassVars, Total, Kept
<1>12. QED
  BY <1>1, <1>3, <1>4, <1>5, <1>6, <1>7, <1>8, <1>9, <1>10, <1>11 DEF Next

\* The published total of a source that does not go negative falls in a crash only,
\* and then to what was written to disk last (sensor.py:228-268).
THEOREM NeverFalls == Spec => TotalNeverFalls
<1>1. TypeOK /\ Sound /\ [Next]_vars
      => [Low >= 0 => Total' >= Total \/ (~added' /\ stored' = disk)]_vars
  BY StepNeverFalls
<1>2. QED
  BY <1>1, AlwaysSound, TypeCorrect, PTL DEF Spec, TotalNeverFalls
=============================================================================
