-------------------------- MODULE SensorPollProofs --------------------------
(***************************************************************************)
(* Theorems about module SensorPoll, for any configurations, any number of *)
(* sources with any readings, and any number of polls.                     *)
(*                                                                         *)
(* The first ones are about the guard and the notices: what the loop over  *)
(* the sources computes does not matter to them.  The others are about     *)
(* that loop.  The library defines the sum of a function by a CHOOSE of    *)
(* the recursive function on the subsets of its domain; that there is one, *)
(* and what it returns, is shown here by looking at a smallest subset that *)
(* is a counterexample (SmallestSubset).                                   *)
(***************************************************************************)
EXTENDS SensorPoll, FiniteSetTheorems, TLAPS

\* What the history variables say about the state of the code: the guard starts
\* from the last reading published, and a dedup key that is not the last notice
\* shows that the sensor was polled with another event since.
Remembered ==
    /\ shown = pipeline.last_valid
    /\ value \in {None, shown}
    /\ notice = [sent |-> notice.sent, event |-> notice.event, since |-> notice.since]
    /\ notice.sent \in Int /\ notice.since \in BOOLEAN
    /\ notice.since \/ notified = notice.event

-----------------------------------------------------------------------------
(* Lemmas.                                                                 *)

\* What process_sources returns is never below the last valid value while the
\* filter is on, whatever the sources show (filters.py:176-190).
LEMMA GuardHolds ==
    ASSUME NEW c, NEW last, NEW event, NEW s,
           c.spike_filter, last # None,
           ProcessSources(c, last, event, s).value # None
    PROVE  \/ ProcessSources(c, last, event, s).value = last
           \/ ~(ProcessSources(c, last, event, s).value < last)
<1> DEFINE out     == ProcessSources(c, last, event, s)
           primary == NetSubtract(Aggregate(c, s.raws), s.net_subtract)
           total   == IF UsesFallback(c, primary, s.fallback, s.fallback_condition_met)
                      THEN s.fallback ELSE primary
<1>1. out.value = Guarded(c, last, total)
  BY DEF ProcessSources
<1>2. Guarded(c, last, total) = last
      \/ (Guarded(c, last, total) = total /\ ~Spikes(c, last, total))
  BY DEF Guarded
<1> HIDE DEF total, primary, out
<1>3. Spikes(c, last, total) \/ total = None \/ ~(total < last)
  BY DEF Spikes
<1>4. out.value # None
  BY DEF out
<1>5. out.value = last \/ ~(out.value < last)
  BY <1>1, <1>2, <1>3, <1>4
<1>6. QED
  BY <1>5 DEF out

\* The pipeline remembers the last value it returned that was one, and the event
\* it leaves behind is a text if the one before was.
LEMMA PipelineRemembers ==
    ASSUME NEW c, NEW last, NEW event, NEW s
    PROVE  ProcessSources(c, last, event, s).last_valid
             = LastValid(last, ProcessSources(c, last, event, s).value)
BY DEF ProcessSources

\* One poll changes the history as the pipeline's own memory changes.
LEMMA PollStep ==
    ASSUME NEW s, Poll(s)
    PROVE  LET out == ProcessSources(config, pipeline.last_valid, pipeline.last_event,
                                     PipelineInput(config, s))
           IN  /\ pipeline'.last_valid = LastValid(pipeline.last_valid, out.value)
               /\ pipeline'.last_event = out.last_event
               /\ value' = out.value
               /\ notified' = NotifiedAfter(out.last_event)
               /\ shown' = IF out.value = None THEN shown ELSE out.value
               /\ notice' = IF Notifies(out.last_event)
                            THEN [sent |-> notice.sent + 1, event |-> out.last_event,
                                  since |-> FALSE]
                            ELSE [notice EXCEPT !.since = @ \/ out.last_event # notice.event]
BY PipelineRemembers DEF Poll

-----------------------------------------------------------------------------
(* The invariant.                                                          *)

LEMMA RememberedStep ==
    ASSUME Remembered, [Next]_vars
    PROVE  Remembered'
<1>1. ASSUME NEW s \in Samples(config), Poll(s)
      PROVE  Remembered'
  <2> DEFINE out == ProcessSources(config, pipeline.last_valid, pipeline.last_event,
                                   PipelineInput(config, s))
             sent == [sent |-> notice.sent + 1, event |-> out.last_event, since |-> FALSE]
             kept == [notice EXCEPT !.since = @ \/ out.last_event # notice.event]
  <2>1. /\ pipeline'.last_valid = LastValid(pipeline.last_valid, out.value)
        /\ value' = out.value
        /\ notified' = NotifiedAfter(out.last_event)
        /\ shown' = IF out.value = None THEN shown ELSE out.value
        /\ notice' = IF Notifies(out.last_event) THEN sent ELSE kept
    BY <1>1, PollStep
  <2> HIDE DEF out
  <2>2. shown' = pipeline'.last_valid /\ value' \in {None, shown'}
    BY <2>1 DEF Remembered, LastValid
  <2>3. CASE Notifies(out.last_event)
    <3>1. notified' = out.last_event
      BY <2>1, <2>3 DEF NotifiedAfter, Notifies
    <3>2. QED
      BY <2>1, <2>2, <2>3, <3>1 DEF Remembered
  <2>4. CASE ~Notifies(out.last_event)
    <3>1. notice' = [sent |-> notice.sent, event |-> notice.event,
                     since |-> notice.since \/ out.last_event # notice.event]
      BY <2>1, <2>4 DEF Remembered
    <3>2. CASE out.last_event = notice.event
      <4>1. notice.since \/ notified' = notice.event
        BY <2>1, <2>4, <3>2 DEF NotifiedAfter, Remembered
      <4>2. QED
        BY <2>2, <3>1, <3>2, <4>1 DEF Remembered
    <3>3. CASE out.last_event # notice.event
      BY <2>2, <3>1, <3>3 DEF Remembered
    <3>4. QED
      BY <3>2, <3>3
  <2>5. QED
    BY <2>3, <2>4
<1>2. CASE ToggleDebug
  BY <1>2 DEF ToggleDebug, Remembered
<1>3. CASE UNCHANGED vars
  BY <1>3 DEF vars, Remembered
<1>4. QED
  BY <1>1, <1>2, <1>3 DEF Next

\* The history variables are right in every reachable state.
THEOREM AlwaysRemembered == Spec => []Remembered
<1>1. Init => Remembered
  BY DEF Init, Remembered
<1>2. Remembered /\ [Next]_vars => Remembered'
  BY RememberedStep
<1>3. QED
  BY <1>1, <1>2, PTL DEF Spec

-----------------------------------------------------------------------------
(* The theorems about the guard and the notices.                           *)

\* REQ-COMP-001 for one pipeline: with the spike filter on no reading is below
\* the last one, across unavailable polls, fallbacks and subtraction, for any
\* number of sources.
THEOREM ReadingsNeverDrop == Spec => NeverDrops
<1> DEFINE A == config.spike_filter /\ value' # None /\ shown # None
                  => value' = shown \/ ~(value' < shown)
<1>1. ASSUME Remembered, [Next]_vars
      PROVE  [A]_vars
  <2>1. ASSUME NEW s \in Samples(config), Poll(s)
        PROVE  A
    <3> DEFINE input == PipelineInput(config, s)
    <3>1. value' = ProcessSources(config, pipeline.last_valid, pipeline.last_event, input).value
      BY <2>1, PollStep
    <3>2. shown = pipeline.last_valid
      BY <1>1 DEF Remembered
    <3> HIDE DEF input
    <3>3. QED
      BY <3>1, <3>2, GuardHolds
  <2>2. CASE ToggleDebug
    BY <1>1, <2>2 DEF ToggleDebug, Remembered
  <2>3. QED
    BY <1>1, <2>1, <2>2 DEF Next
<1>2. QED
  BY <1>1, AlwaysRemembered, PTL DEF Spec, NeverDrops

\* Two equal debug notifications in a row have a poll without that event between
\* them (coordinator.py:254-269).
THEOREM NoticesNotRepeated == Spec => NoRepeatedNotice
<1> DEFINE A == notice'.sent > notice.sent
                  => notice'.event # notice.event \/ notice.since
<1>1. ASSUME Remembered, [Next]_vars
      PROVE  [A]_vars
  <2>1. ASSUME NEW s \in Samples(config), Poll(s)
        PROVE  A
    <3> DEFINE out  == ProcessSources(config, pipeline.last_valid, pipeline.last_event,
                                      PipelineInput(config, s))
               sent == [sent |-> notice.sent + 1, event |-> out.last_event, since |-> FALSE]
               kept == [notice EXCEPT !.since = @ \/ out.last_event # notice.event]
    <3>1. notice' = IF Notifies(out.last_event) THEN sent ELSE kept
      BY <2>1, PollStep
    <3> HIDE DEF out
    <3>2. CASE Notifies(out.last_event)
      BY <1>1, <3>1, <3>2 DEF Notifies, Remembered
    <3>3. CASE ~Notifies(out.last_event)
      BY <1>1, <3>1, <3>3 DEF Remembered
    <3>4. QED
      BY <3>2, <3>3
  <2>2. CASE ToggleDebug
    BY <1>1, <2>2 DEF ToggleDebug, Remembered
  <2>3. QED
    BY <1>1, <2>1, <2>2 DEF Next
<1>2. QED
  BY <1>1, AlwaysRemembered, PTL DEF Spec, NoRepeatedNotice

-----------------------------------------------------------------------------
(* Finite sets.                                                            *)

\* Of the subsets of a finite set that are in a family one has no smaller one in it.
LEMMA SmallestSubset ==
    ASSUME NEW S, IsFiniteSet(S), NEW family, family \subseteq SUBSET S, family # {}
    PROVE  \E T \in family : /\ T \subseteq S /\ IsFiniteSet(T)
                            /\ \A R : R \subseteq T /\ R # T => R \notin family
<1>1. family \subseteq FiniteSubsetsOf(S)
  BY FS_Subset DEF FiniteSubsetsOf
<1>2. PICK T \in family : \A R \in family : ~(<<R, T>> \in StrictSubsetOrdering(S))
  BY <1>1, WFMin, FS_StrictSubsetOrderingWellFounded, Zenon
<1>3. \A R : R \subseteq T /\ R # T => R \notin family
  BY <1>2 DEF StrictSubsetOrdering
<1>4. T \subseteq S /\ IsFiniteSet(T)
  BY <1>1 DEF FiniteSubsetsOf
<1>5. QED
  BY <1>3, <1>4

-----------------------------------------------------------------------------
(* Sums.                                                                   *)

\* The recursion that SumFunctionOnSet stands for.
Adds(sum, f, S) ==
    sum = [T \in SUBSET S |->
              IF T = {} THEN 0
              ELSE f[CHOOSE x \in T : TRUE] + sum[T \ {CHOOSE x \in T : TRUE}]]

LEMMA SumIsChosen ==
    ASSUME NEW f, NEW S
    PROVE  SumFunctionOnSet(f, S) = (CHOOSE sum : Adds(sum, f, S))[S]
BY DEF SumFunctionOnSet, FoldFunctionOnSet, MapThenFoldSet, Adds

LEMMA AddsUnique ==
    ASSUME NEW f, NEW A, NEW g, Adds(g, f, A),
           NEW S, NEW h, Adds(h, f, S), S \subseteq A, IsFiniteSet(S)
    PROVE  g[S] = h[S]
<1> DEFINE family == {T \in SUBSET S : g[T] # h[T]}
<1>1. SUFFICES ASSUME family # {} PROVE FALSE
  OBVIOUS
<1>2. PICK T \in family : /\ T \subseteq S /\ IsFiniteSet(T)
                         /\ \A R : R \subseteq T /\ R # T => R \notin family
  <2>1. family \subseteq SUBSET S
    OBVIOUS
  <2> HIDE DEF family
  <2>2. QED
    BY <1>1, <2>1, SmallestSubset
<1>3. T \in SUBSET S /\ T \in SUBSET A
  OBVIOUS
<1>4. T # {}
  BY <1>2, <1>3 DEF Adds
<1>5. PICK x : x = (CHOOSE y \in T : TRUE) /\ x \in T
  BY <1>4
<1>6. g[T] = f[x] + g[T \ {x}] /\ h[T] = f[x] + h[T \ {x}]
  BY <1>3, <1>4, <1>5 DEF Adds
<1>7. T \ {x} \notin family
  BY <1>2, <1>5
<1>8. QED
  BY <1>2, <1>3, <1>6, <1>7

LEMMA AddsExists ==
    ASSUME NEW f, NEW S, IsFiniteSet(S)
    PROVE  \E sum : Adds(sum, f, S)
<1> DEFINE family == {T \in SUBSET S : ~ \E sum : Adds(sum, f, T)}
<1>1. SUFFICES ASSUME family # {} PROVE FALSE
  OBVIOUS
<1>2. PICK T \in family : /\ T \subseteq S /\ IsFiniteSet(T)
                         /\ \A R : R \subseteq T /\ R # T => R \notin family
  <2>1. family \subseteq SUBSET S
    OBVIOUS
  <2> HIDE DEF family
  <2>2. QED
    BY <1>1, <2>1, SmallestSubset
<1>3. PICK part : \A R \in SUBSET T : R # T => Adds(part[R], f, R)
  <2> DEFINE part == [R \in SUBSET T |-> CHOOSE sum : Adds(sum, f, R)]
  <2>1. ASSUME NEW R \in SUBSET T, R # T PROVE \E sum : Adds(sum, f, R)
    BY <1>2, <2>1
  <2>2. \A R \in SUBSET T : R # T => Adds(part[R], f, R)
    BY <2>1, Zenon
  <2>3. QED
    BY <2>2
<1>4. PICK first : \A R \in SUBSET T : first[R] = CHOOSE x \in R : TRUE
  <2>1. \A R \in SUBSET T :
          [Q \in SUBSET T |-> CHOOSE x \in Q : TRUE][R] = CHOOSE x \in R : TRUE
    OBVIOUS
  <2>2. QED
    BY <2>1
<1>5. PICK whole : whole = [R \in SUBSET T |->
                              IF R = {} THEN 0
                              ELSE f[first[R]] + part[R \ {first[R]}][R \ {first[R]}]]
  OBVIOUS
<1>6. ASSUME NEW R \in SUBSET T, R # T PROVE whole[R] = part[R][R]
  <2>1. Adds(part[R], f, R)
    BY <1>3, <1>6
  <2>2. CASE R = {}
    BY <1>5, <2>1, <2>2 DEF Adds
  <2>3. CASE R # {}
    <3>1. PICK x : x = (CHOOSE y \in R : TRUE) /\ x \in R
      BY <2>3
    <3>2. R \ {x} \subseteq T /\ R \ {x} # T /\ IsFiniteSet(R \ {x})
      BY <1>2, <1>6, <3>1, FS_Subset
    <3>3. PICK Q, g, h : Q = R \ {x} /\ g = part[R] /\ h = part[Q]
      OBVIOUS
    <3>4. part[R][R] = f[x] + part[R][R \ {x}]
      <4>1. Adds(g, f, R) /\ R \subseteq R
        BY <2>1, <3>3
      <4>2. g[R] = f[x] + g[R \ {x}]
        BY <2>3, <3>1, <4>1 DEF Adds
      <4>3. QED
        BY <3>3, <4>2
    <3>5. part[R][R \ {x}] = part[R \ {x}][R \ {x}]
      <4>1. Adds(g, f, R) /\ Adds(h, f, Q) /\ IsFiniteSet(Q) /\ Q \subseteq R
        BY <1>3, <2>1, <3>2, <3>3
      <4>2. g[Q] = h[Q]
        BY <4>1, AddsUnique
      <4>3. QED
        BY <3>3, <4>2
    <3>6. first[R] = x
      BY <1>4, <3>1
    <3>7. whole[R] = f[x] + part[R \ {x}][R \ {x}]
      BY <1>5, <2>3, <3>6
    <3>8. QED
      BY <3>4, <3>5, <3>7
  <2>4. QED
    BY <2>2, <2>3
<1>7. ASSUME NEW R \in SUBSET T, R # {}
      PROVE  whole[R] = f[CHOOSE x \in R : TRUE] + whole[R \ {CHOOSE x \in R : TRUE}]
  <2>1. PICK x : x = (CHOOSE y \in R : TRUE) /\ x \in R
    BY <1>7
  <2>2. R \ {x} \in SUBSET T /\ R \ {x} # T
    BY <2>1
  <2>3. whole[R \ {x}] = part[R \ {x}][R \ {x}]
    BY <1>6, <2>2
  <2>4. first[R] = x
    BY <1>4, <2>1
  <2>5. whole[R] = f[x] + part[R \ {x}][R \ {x}]
    BY <1>5, <1>7, <2>4
  <2>6. QED
    BY <2>1, <2>3, <2>5
<1>8. whole[{}] = 0 /\ whole = [R \in SUBSET T |-> whole[R]]
  BY <1>5
<1>9. Adds(whole, f, T)
  <2>1. \A R \in SUBSET T :
          whole[R] = IF R = {} THEN 0
                     ELSE f[CHOOSE x \in R : TRUE] + whole[R \ {CHOOSE x \in R : TRUE}]
    BY <1>7, <1>8
  <2>2. QED
    BY <1>8, <2>1 DEF Adds
<1>10. QED
  BY <1>2, <1>9

\* A sum over no element, and over some.
LEMMA SumOfNone ==
    ASSUME NEW f PROVE SumFunctionOnSet(f, {}) = 0
<1>1. PICK sum : sum = (CHOOSE g : Adds(g, f, {})) /\ Adds(sum, f, {})
  BY AddsExists, FS_EmptySet
<1>2. QED
  BY <1>1, SumIsChosen DEF Adds

LEMMA SumOfChosen ==
    ASSUME NEW f, NEW S, IsFiniteSet(S), S # {}
    PROVE  \E x \in S : SumFunctionOnSet(f, S) = f[x] + SumFunctionOnSet(f, S \ {x})
<1>1. PICK x : x = (CHOOSE y \in S : TRUE) /\ x \in S
  OBVIOUS
<1>2. IsFiniteSet(S \ {x})
  BY FS_Subset
<1>3. PICK g : g = (CHOOSE sum : Adds(sum, f, S)) /\ Adds(g, f, S)
  BY AddsExists
<1>4. PICK h : h = (CHOOSE sum : Adds(sum, f, S \ {x})) /\ Adds(h, f, S \ {x})
  BY <1>2, AddsExists
<1>5. g[S] = f[x] + g[S \ {x}]
  BY <1>1, <1>3 DEF Adds
<1>6. g[S \ {x}] = h[S \ {x}]
  BY <1>2, <1>3, <1>4, AddsUnique
<1>7. SumFunctionOnSet(f, S) = g[S] /\ SumFunctionOnSet(f, S \ {x}) = h[S \ {x}]
  BY <1>3, <1>4, SumIsChosen
<1>8. QED
  BY <1>1, <1>5, <1>6, <1>7

\* A sum of integers is one.
LEMMA SumType ==
    ASSUME NEW f, NEW S, IsFiniteSet(S), \A x \in S : f[x] \in Int
    PROVE  SumFunctionOnSet(f, S) \in Int
<1> DEFINE family == {T \in SUBSET S : SumFunctionOnSet(f, T) \notin Int}
<1>1. SUFFICES ASSUME family # {} PROVE FALSE
  OBVIOUS
<1>2. PICK T \in family : /\ T \subseteq S /\ IsFiniteSet(T)
                         /\ \A R : R \subseteq T /\ R # T => R \notin family
  <2>1. family \subseteq SUBSET S
    OBVIOUS
  <2> HIDE DEF family
  <2>2. QED
    BY <1>1, <2>1, SmallestSubset
<1>3. IsFiniteSet(T) /\ T # {}
  <2>1. SumFunctionOnSet(f, T) # SumFunctionOnSet(f, {})
    BY <1>2, SumOfNone
  <2>2. QED
    BY <1>2, <2>1
<1>4. PICK x \in T : SumFunctionOnSet(f, T) = f[x] + SumFunctionOnSet(f, T \ {x})
  BY <1>3, SumOfChosen
<1>5. T \ {x} \notin family
  BY <1>2
<1>6. QED
  BY <1>2, <1>3, <1>4, <1>5

\* Any element may be added last.
LEMMA SumOfAny ==
    ASSUME NEW f, NEW S, IsFiniteSet(S), \A x \in S : f[x] \in Int
    PROVE  \A x \in S : SumFunctionOnSet(f, S) = f[x] + SumFunctionOnSet(f, S \ {x})
<1> DEFINE family ==
             {T \in SUBSET S :
                \E x \in T : SumFunctionOnSet(f, T) # f[x] + SumFunctionOnSet(f, T \ {x})}
<1>1. SUFFICES ASSUME family # {} PROVE FALSE
  OBVIOUS
<1>2. PICK T \in family : /\ T \subseteq S /\ IsFiniteSet(T)
                         /\ \A R : R \subseteq T /\ R # T => R \notin family
  <2>1. family \subseteq SUBSET S
    OBVIOUS
  <2> HIDE DEF family
  <2>2. QED
    BY <1>1, <2>1, SmallestSubset
<1>3. PICK x \in T : SumFunctionOnSet(f, T) # f[x] + SumFunctionOnSet(f, T \ {x})
  BY <1>2
<1>4. PICK y \in T : SumFunctionOnSet(f, T) = f[y] + SumFunctionOnSet(f, T \ {y})
  BY <1>2, SumOfChosen
<1>5. x # y
  BY <1>3, <1>4
<1>6. PICK rest : rest = T \ {x, y} /\ rest = (T \ {y}) \ {x} /\ rest = (T \ {x}) \ {y}
  <2>1. T \ {x, y} = (T \ {y}) \ {x} /\ T \ {x, y} = (T \ {x}) \ {y}
    OBVIOUS
  <2>2. QED
    BY <2>1
<1>7. SumFunctionOnSet(f, T \ {y}) = f[x] + SumFunctionOnSet(f, rest)
  <2>1. T \ {y} \notin family /\ T \ {y} \subseteq S /\ x \in T \ {y}
    BY <1>2, <1>5
  <2>2. QED
    BY <1>6, <2>1
<1>8. SumFunctionOnSet(f, T \ {x}) = f[y] + SumFunctionOnSet(f, rest)
  <2>1. T \ {x} \notin family /\ T \ {x} \subseteq S /\ y \in T \ {x}
    BY <1>2, <1>5
  <2>2. QED
    BY <1>6, <2>1
<1>9. SumFunctionOnSet(f, rest) \in Int /\ f[x] \in Int /\ f[y] \in Int
  <2>1. rest \subseteq T /\ IsFiniteSet(rest)
    BY <1>2, <1>6, FS_Subset
  <2>2. QED
    BY <1>2, <2>1, SumType
<1> HIDE DEF family
<1>10. QED
  BY <1>3, <1>4, <1>7, <1>8, <1>9

\* What is added does not depend on the order in which it is numbered.
Permutes(p, D) ==
    /\ p \in [D -> D]
    /\ \A i, j \in D : p[i] = p[j] => i = j

Covers(p, D) == \A i \in D : \E j \in D : p[j] = i

LEMMA Surjective ==
    ASSUME NEW D, IsFiniteSet(D), NEW p, Permutes(p, D)
    PROVE  Covers(p, D)
<1>1. p \in Injection(D, D)
  BY DEF Injection, IsInjective, Permutes
<1>2. p \in Surjection(D, D)
  BY <1>1, FS_Injection
<1>3. QED
  BY <1>2 DEF Surjection, Covers

Renumbers(g, f, p, D) ==
    /\ \A i \in D : f[i] \in Int
    /\ \A i \in D : g[i] = f[p[i]]

LEMMA SumPermuted ==
    ASSUME NEW D, IsFiniteSet(D), NEW p, Permutes(p, D),
           NEW f, NEW g, Renumbers(g, f, p, D)
    PROVE  SumFunctionOnSet(g, D) = SumFunctionOnSet(f, D)
<1>0. Covers(p, D)
  BY Surjective
<1> USE DEF Permutes, Renumbers
<1> DEFINE image(A) == {p[i] : i \in A}
           family   == {A \in SUBSET D : SumFunctionOnSet(g, A) # SumFunctionOnSet(f, image(A))}
<1>1. family = {}
  <2>1. SUFFICES ASSUME family # {} PROVE FALSE
    OBVIOUS
  <2>2. PICK A \in family : /\ A \subseteq D /\ IsFiniteSet(A)
                           /\ \A R : R \subseteq A /\ R # A => R \notin family
    <3>1. family \subseteq SUBSET D
      OBVIOUS
    <3> HIDE DEF family
    <3>2. QED
      BY <2>1, <3>1, SmallestSubset
  <2>3. A # {}
    <3>1. image({}) = {}
      OBVIOUS
    <3> HIDE DEF image
    <3>2. SumFunctionOnSet(g, {}) = SumFunctionOnSet(f, {})
      BY SumOfNone
    <3>3. SumFunctionOnSet(g, A) # SumFunctionOnSet(f, image(A))
      BY <2>2
    <3> HIDE DEF family
    <3>4. QED
      BY <3>1, <3>2, <3>3
  <2>4. PICK x : x \in A
    BY <2>3
  <2>5. /\ image(A) \subseteq D /\ p[x] \in image(A)
        /\ image(A \ {x}) = image(A) \ {p[x]}
    BY <2>2, <2>4
  <2>6. IsFiniteSet(image(A))
    BY <2>5, FS_Subset
  <2> HIDE DEF image
  <2>7. SumFunctionOnSet(g, A) = g[x] + SumFunctionOnSet(g, A \ {x})
    <3>1. \A i \in A : g[i] \in Int
      BY <2>2
    <3>2. QED
      BY <2>2, <2>4, <3>1, SumOfAny
  <2>8. SumFunctionOnSet(f, image(A)) = f[p[x]] + SumFunctionOnSet(f, image(A) \ {p[x]})
    <3>1. \A i \in image(A) : f[i] \in Int
      BY <2>5
    <3>2. QED
      BY <2>5, <2>6, <3>1, SumOfAny
  <2>9. SumFunctionOnSet(g, A \ {x}) = SumFunctionOnSet(f, image(A \ {x}))
    BY <2>2, <2>4
  <2>10. SumFunctionOnSet(g, A) = SumFunctionOnSet(f, image(A))
    BY <2>2, <2>4, <2>5, <2>7, <2>8, <2>9
  <2>11. QED
    BY <2>2, <2>10
<1>2. image(D) = D
  BY <1>0 DEF Covers
<1>3. QED
  BY <1>1, <1>2

-----------------------------------------------------------------------------
(* What the loop over the sources computes.                                *)

\* A finite set of integers has a greatest and a least one.
HasExtremes(T) ==
    /\ \E m \in T : \A x \in T : m >= x
    /\ \E m \in T : \A x \in T : m <= x

WithoutExtremes(S) == {T \in SUBSET S : T # {} /\ ~HasExtremes(T)}

LEMMA Extremes ==
    ASSUME NEW S, IsFiniteSet(S), S \subseteq Int, S # {}
    PROVE  /\ Max(S) \in S /\ \A x \in S : Max(S) >= x
           /\ Min(S) \in S /\ \A x \in S : Min(S) <= x
<1>1. WithoutExtremes(S) = {}
  <2>1. SUFFICES ASSUME WithoutExtremes(S) # {} PROVE FALSE
    OBVIOUS
  <2>2. PICK T \in WithoutExtremes(S) :
          /\ T \subseteq S /\ IsFiniteSet(T)
          /\ \A R : R \subseteq T /\ R # T => R \notin WithoutExtremes(S)
    <3>1. WithoutExtremes(S) \subseteq SUBSET S
      BY DEF WithoutExtremes
    <3>2. QED
      BY <2>1, <3>1, SmallestSubset
  <2> USE DEF WithoutExtremes, HasExtremes
  <2>3. PICK x : x \in T
    BY <2>2
  <2>4. CASE T = {x}
    <3>1. x >= x /\ x <= x
      BY <2>2, <2>3
    <3>2. QED
      BY <2>2, <2>4, <3>1
  <2>5. CASE T # {x}
    <3>1. T \ {x} # {} /\ T \ {x} # T /\ T \ {x} \subseteq T /\ T \ {x} \in SUBSET S
      BY <2>2, <2>3, <2>5
    <3>2. HasExtremes(T \ {x})
      BY <2>2, <3>1
    <3>3. PICK m \in T \ {x} : \A y \in T \ {x} : m >= y
      BY <3>2
    <3>4. PICK n \in T \ {x} : \A y \in T \ {x} : n <= y
      BY <3>2
    <3>5. T \subseteq Int /\ x \in Int /\ m \in Int /\ n \in Int
      BY <2>2, <2>3
    <3>6. \E k \in T : \A y \in T : k >= y
      <4>1. CASE x >= m
        BY <2>3, <3>3, <3>5, <4>1
      <4>2. CASE m >= x
        BY <2>3, <3>3, <3>5, <4>2
      <4>3. QED
        BY <3>5, <4>1, <4>2
    <3>7. \E k \in T : \A y \in T : k <= y
      <4>1. CASE x <= n
        BY <2>3, <3>4, <3>5, <4>1
      <4>2. CASE n <= x
        BY <2>3, <3>4, <3>5, <4>2
      <4>3. QED
        BY <3>5, <4>1, <4>2
    <3>8. QED
      BY <2>2, <3>6, <3>7
  <2>6. QED
    BY <2>4, <2>5
<1>2. HasExtremes(S)
  BY <1>1 DEF WithoutExtremes
<1>3. QED
  BY <1>2 DEF HasExtremes, Max, Min

\* Values of some sources combine to a number, in the other modes than "sum" to one
\* of them.
LEMMA ValuesCombine ==
    ASSUME NEW mode \in AggregationModes, NEW V, IsFiniteSet(V), V \subseteq Int, V # {},
           NEW values, DOMAIN values = V, \A i \in V : values[i] \in Int
    PROVE  /\ AggregateValues(values, mode) \in Int
           /\ mode # "sum" => \E i \in V : AggregateValues(values, mode) = values[i]
<1>1. Range(values) \subseteq Int /\ Range(values) # {}
  BY DEF Range
<1>2. IsFiniteSet(Range(values))
  <2>1. PICK f : f = [i \in V |-> values[i]]
    OBVIOUS
  <2>2. f \in Surjection(V, Range(values))
    BY <2>1 DEF Surjection, Range
  <2>3. QED
    BY <2>2, FS_Surjection
<1>3. /\ Max(Range(values)) \in Range(values)
      /\ Min(Range(values)) \in Range(values)
      /\ Min(V) \in V
  BY <1>1, <1>2, Extremes
<1>4. CASE mode = "sum"
  <2>1. AggregateValues(values, mode) = SumFunctionOnSet(values, V)
    BY <1>4 DEF AggregateValues, SumFunction
  <2>2. QED
    BY <1>4, <2>1, SumType
<1>5. CASE mode # "sum"
  <2>1. \E i \in V : AggregateValues(values, mode) = values[i]
    <3>1. CASE mode = "max"
      BY <1>3, <3>1 DEF AggregateValues, Range
    <3>2. CASE mode = "min"
      BY <1>3, <3>2 DEF AggregateValues, Range
    <3>3. CASE mode = "first_available"
      BY <1>3, <3>3 DEF AggregateValues
    <3>4. QED
      BY <1>5, <3>1, <3>2, <3>3 DEF AggregationModes
  <2>2. QED
    BY <2>1
<1>6. QED
  BY <1>4, <1>5

\* A source with a reading has a value, one without has one if the type is soft.
LEMMA SourceValue ==
    ASSUME NEW c, NEW raw
    PROVE  /\ ProcessSource(c, raw) \in Int \cup {None}
           /\ ProcessSource(c, raw) # None => ProcessSource(c, raw) \in Int
           /\ raw \in Int => ProcessSource(c, raw) = IF c.invert THEN -raw ELSE raw
           /\ raw \in Int => ProcessSource(c, raw) \in Int
           /\ raw \notin Int => ProcessSource(c, raw) = HandleUnavailable(c)
           /\ IsFailSoft(c.device_type) => ProcessSource(c, raw) \in Int
           /\ ParsePlain(raw) # None <=> raw \in Int
BY NoneIsNoNumber DEF ProcessSource, ParsePlain, HandleUnavailable

\* The sources whose values are combined.
LEMMA VisitedSources ==
    ASSUME NEW c, NEW raws \in Seq(Int \cup BadStates)
    PROVE  /\ IsFiniteSet(DOMAIN raws) /\ DOMAIN raws \subseteq Int
           /\ Visited(c, raws) \subseteq DOMAIN raws
           /\ c.aggregation # "sum"
                => Visited(c, raws) = {i \in DOMAIN raws : raws[i] \in Int}
           /\ c.aggregation = "sum" /\ ~FailsClosed(c, raws)
                => Visited(c, raws) = DOMAIN raws
           /\ ~FailsClosed(c, raws)
                => \A i \in Visited(c, raws) : ProcessSource(c, raws[i]) \in Int
<1>1. DOMAIN raws = 1..Len(raws) /\ Len(raws) \in Nat
  OBVIOUS
<1>2. IsFiniteSet(DOMAIN raws) /\ DOMAIN raws \subseteq Int
  BY <1>1, FS_Interval
<1>3. Visited(c, raws) \subseteq DOMAIN raws
  BY DEF Visited
<1>4. c.aggregation # "sum" => Visited(c, raws) = {i \in DOMAIN raws : raws[i] \in Int}
  BY SourceValue DEF Visited
<1>5. ASSUME c.aggregation = "sum", ~FailsClosed(c, raws)
      PROVE  Visited(c, raws) = DOMAIN raws
  <2>1. \A i \in DOMAIN raws : \A j \in 1..(i - 1) : j \in DOMAIN raws
    BY <1>1
  <2>2. \A i \in DOMAIN raws : ProcessSource(c, raws[i]) # None
    BY <1>5 DEF FailsClosed
  <2>3. QED
    BY <1>5, <2>1, <2>2 DEF Visited
<1>6. ASSUME ~FailsClosed(c, raws), NEW i \in Visited(c, raws)
      PROVE  ProcessSource(c, raws[i]) \in Int
  <2>1. CASE c.aggregation = "sum"
    BY <1>3, <1>6, <2>1, SourceValue DEF FailsClosed
  <2>2. CASE c.aggregation # "sum"
    BY <1>4, <1>6, <2>2, SourceValue
  <2>3. QED
    BY <2>1, <2>2
<1>7. QED
  BY <1>2, <1>3, <1>4, <1>5, <1>6

\* The combination of the sources: a number or nothing; nothing if "sum" misses one,
\* the value of a live source in another mode, and a number if the type is soft.
LEMMA AggregateFacts ==
    ASSUME NEW c, c.aggregation \in AggregationModes, NEW raws \in Seq(Int \cup BadStates)
    PROVE  /\ Aggregate(c, raws) \in Int \cup {None}
           /\ FailsClosed(c, raws) => Aggregate(c, raws) = None
           /\ IsFailSoft(c.device_type) => Aggregate(c, raws) \in Int
           /\ c.aggregation # "sum" /\ (\E i \in DOMAIN raws : raws[i] \in Int)
                => \E i \in DOMAIN raws :
                     raws[i] \in Int /\ Aggregate(c, raws) = ProcessSource(c, raws[i])
<1> DEFINE V == Visited(c, raws)
<1>1. FailsClosed(c, raws) => Aggregate(c, raws) = None
  BY DEF Aggregate
<1>2. IsFailSoft(c.device_type) => ~FailsClosed(c, raws)
  BY SourceValue, NoneIsNoNumber DEF FailsClosed
<1>3. c.aggregation # "sum" => ~FailsClosed(c, raws)
  BY DEF FailsClosed
<1>4. CASE FailsClosed(c, raws)
  BY <1>1, <1>2, <1>3, <1>4
<1>5. CASE ~FailsClosed(c, raws) /\ V = {}
  <2>1. Aggregate(c, raws) = IF IsFailSoft(c.device_type) THEN 0 ELSE None
    BY <1>5 DEF Aggregate
  <2>2. c.aggregation # "sum" => ~(\E i \in DOMAIN raws : raws[i] \in Int)
    BY <1>5, VisitedSources
  <2>3. QED
    BY <1>5, <2>1, <2>2
<1>6. CASE ~FailsClosed(c, raws) /\ V # {}
  <2>1. PICK values : values = [i \in V |-> ProcessSource(c, raws[i])]
    OBVIOUS
  <2>2. Aggregate(c, raws) = AggregateValues(values, c.aggregation)
    BY <1>6, <2>1 DEF Aggregate
  <2>3. /\ IsFiniteSet(V) /\ V \subseteq Int /\ V \subseteq DOMAIN raws
        /\ DOMAIN values = V /\ \A i \in V : values[i] \in Int
        /\ \A i \in V : values[i] = ProcessSource(c, raws[i])
    BY <1>6, <2>1, VisitedSources, FS_Subset
  <2>4. c.aggregation # "sum" => \A i \in V : raws[i] \in Int
    BY VisitedSources
  <2> HIDE DEF V
  <2>5. PICK mode : mode = c.aggregation
    OBVIOUS
  <2>6. /\ AggregateValues(values, c.aggregation) \in Int
        /\ c.aggregation # "sum" => \E i \in V : AggregateValues(values, c.aggregation) = values[i]
    <3>1. mode \in AggregationModes /\ V # {}
      BY <1>6, <2>5
    <3>2. /\ AggregateValues(values, mode) \in Int
          /\ mode # "sum" => \E i \in V : AggregateValues(values, mode) = values[i]
      BY <2>3, <3>1, ValuesCombine
    <3>3. QED
      BY <2>5, <3>2
  <2>7. QED
    BY <1>6, <2>2, <2>3, <2>4, <2>6
<1>7. QED
  BY <1>4, <1>5, <1>6

\* The order of the sources means nothing but to "first_available".
LEMMA AggregatePermuted ==
    ASSUME NEW c, c.aggregation \in AggregationModes, c.aggregation # "first_available",
           NEW raws \in Seq(Int \cup BadStates),
           NEW D, D = DOMAIN raws, NEW p, Permutes(p, D),
           NEW other \in Seq(Int \cup BadStates), DOMAIN other = D,
           \A i \in D : other[i] = raws[p[i]]
    PROVE  Aggregate(c, other) = Aggregate(c, raws)
<1>2. \A i \in D : p[i] \in D /\ other[i] = raws[p[i]]
  BY DEF Permutes
<1>3. IsFiniteSet(D) /\ D \subseteq Int
  BY VisitedSources
<1>4. Covers(p, D)
  BY <1>3, Surjective
<1>5. FailsClosed(c, other) <=> FailsClosed(c, raws)
  <2>1. FailsClosed(c, raws)
          <=> c.aggregation = "sum" /\ \E i \in D : ProcessSource(c, raws[i]) = None
    BY DEF FailsClosed
  <2>2. FailsClosed(c, other)
          <=> c.aggregation = "sum" /\ \E i \in D : ProcessSource(c, other[i]) = None
    BY <1>2 DEF FailsClosed
  <2>3. (\E i \in D : ProcessSource(c, other[i]) = None)
          <=> \E i \in D : ProcessSource(c, raws[i]) = None
    <3>1. ASSUME NEW i \in D, ProcessSource(c, other[i]) = None
          PROVE  \E j \in D : ProcessSource(c, raws[j]) = None
      <4>1. p[i] \in D /\ ProcessSource(c, raws[p[i]]) = None
        BY <1>2, <3>1
      <4>2. QED
        BY <4>1
    <3>2. ASSUME NEW i \in D, ProcessSource(c, raws[i]) = None
          PROVE  \E j \in D : ProcessSource(c, other[j]) = None
      <4>1. PICK j \in D : p[j] = i
        BY <1>4 DEF Covers
      <4>2. other[j] = raws[i]
        BY <1>2, <4>1
      <4>3. QED
        BY <3>2, <4>2
    <3>3. QED
      BY <3>1, <3>2
  <2>4. QED
    BY <2>1, <2>2, <2>3
<1>6. CASE FailsClosed(c, raws)
  BY <1>2, <1>5, <1>6, AggregateFacts
<1>7. CASE ~FailsClosed(c, raws)
  <2>1. PICK V, W : V = Visited(c, raws) /\ W = Visited(c, other)
    OBVIOUS
  <2>2. /\ V \subseteq D /\ W \subseteq D
        /\ \A i \in D : i \in W <=> p[i] \in V
        /\ c.aggregation = "sum" => V = D /\ W = D
        /\ \A i \in V : ProcessSource(c, raws[i]) \in Int
    <3>1. /\ V \subseteq D
          /\ c.aggregation # "sum" => V = {i \in D : raws[i] \in Int}
          /\ c.aggregation = "sum" => V = D
          /\ \A i \in V : ProcessSource(c, raws[i]) \in Int
      BY <1>7, <2>1, VisitedSources
    <3>2. /\ W \subseteq D
          /\ c.aggregation # "sum" => W = {i \in D : other[i] \in Int}
          /\ c.aggregation = "sum" => W = D
      <4>1. ~FailsClosed(c, other)
        BY <1>5, <1>7
      <4>2. /\ Visited(c, other) \subseteq DOMAIN other
            /\ c.aggregation # "sum"
                 => Visited(c, other) = {i \in DOMAIN other : other[i] \in Int}
            /\ c.aggregation = "sum" => Visited(c, other) = DOMAIN other
        BY <4>1, VisitedSources
      <4>3. QED
        BY <1>2, <2>1, <4>2
    <3>3. \A i \in D : i \in W <=> p[i] \in V
      BY <1>2, <3>1, <3>2
    <3>4. QED
      BY <3>1, <3>2, <3>3
  <2>3. W = {} <=> V = {}
    <3>1. ASSUME NEW i \in W PROVE p[i] \in V
      BY <2>2
    <3>2. ASSUME NEW i \in V PROVE \E j \in D : j \in W
      <4>1. PICK j \in D : p[j] = i
        BY <1>4, <2>2 DEF Covers
      <4>2. j \in W
        BY <2>2, <4>1
      <4>3. QED
        BY <4>2
    <3>3. QED
      BY <3>1, <3>2
  <2>4. CASE V = {}
    BY <1>5, <1>7, <2>1, <2>3, <2>4 DEF Aggregate
  <2>5. CASE V # {}
    <3>1. PICK f, g : /\ f = [i \in V |-> ProcessSource(c, raws[i])]
                     /\ g = [i \in W |-> ProcessSource(c, other[i])]
      OBVIOUS
    <3>2. /\ DOMAIN f = V /\ DOMAIN g = W
          /\ \A i \in V : f[i] \in Int
          /\ \A i \in W : p[i] \in V /\ g[i] = f[p[i]]
      BY <1>2, <2>2, <3>1
    <3>3. /\ Aggregate(c, raws) = AggregateValues(f, c.aggregation)
          /\ Aggregate(c, other) = AggregateValues(g, c.aggregation)
      BY <1>5, <1>7, <2>1, <2>3, <2>5, <3>1 DEF Aggregate
    <3>4. CASE c.aggregation = "sum"
      <4>1. V = D /\ W = D
        BY <2>2, <3>4
      <4>2. SumFunctionOnSet(g, D) = SumFunctionOnSet(f, D)
        <5>1. Renumbers(g, f, p, D)
          BY <3>2, <4>1 DEF Renumbers
        <5>2. QED
          BY <1>3, <5>1, SumPermuted
      <4>3. QED
        BY <3>2, <3>3, <3>4, <4>1, <4>2 DEF AggregateValues, SumFunction
    <3>5. CASE c.aggregation # "sum"
      <4>1. Range(g) = Range(f)
        <5>1. \A i \in V : \E j \in W : g[j] = f[i]
          BY <1>4, <2>2, <3>2 DEF Covers
        <5>2. ASSUME NEW y \in Range(g) PROVE y \in Range(f)
          <6>1. PICK i \in W : y = g[i]
            BY <3>2 DEF Range
          <6>2. QED
            BY <3>2, <6>1 DEF Range
        <5>3. ASSUME NEW y \in Range(f) PROVE y \in Range(g)
          <6>1. PICK i \in V : y = f[i]
            BY <3>2 DEF Range
          <6>2. PICK j \in W : g[j] = f[i]
            BY <5>1
          <6>3. QED
            BY <3>2, <6>1, <6>2 DEF Range
        <5>4. QED
          BY <5>2, <5>3
      <4>2. c.aggregation \in {"max", "min"}
        BY <3>5 DEF AggregationModes
      <4>3. QED
        BY <3>3, <4>1, <4>2 DEF AggregateValues
    <3>6. QED
      BY <3>4, <3>5
  <2>6. QED
    BY <2>4, <2>5
<1>8. QED
  BY <1>6, <1>7

-----------------------------------------------------------------------------
(* What a poll reports.                                                    *)

LEMMA NetFacts ==
    ASSUME NEW total \in Int \cup {None}, NEW net
    PROVE  /\ NetSubtract(total, net) \in Int \cup {None}
           /\ NetSubtract(total, net) = None <=> total = None
BY NoneIsNoNumber DEF NetSubtract, ParsePlain

\* A poll reports a number or nothing, and remembers that; the event is one of the
\* pipeline's texts.
LEMMA PipelineTyped ==
    ASSUME NEW c, c.aggregation \in AggregationModes, NEW last \in Int \cup {None},
           NEW event \in PipelineEvents, NEW s, s.raws \in Seq(Int \cup BadStates)
    PROVE  LET out == ProcessSources(c, last, event, s)
           IN  /\ out.value \in Int \cup {None}
               /\ out.last_valid \in Int \cup {None}
               /\ out.last_event \in PipelineEvents
<1> DEFINE primary  == NetSubtract(Aggregate(c, s.raws), s.net_subtract)
           fallback == UsesFallback(c, primary, s.fallback, s.fallback_condition_met)
           total    == IF fallback THEN s.fallback ELSE primary
           out      == ProcessSources(c, last, event, s)
<1>1. primary \in Int \cup {None}
  BY AggregateFacts, NetFacts
<1>2. fallback => s.fallback \in Int
  BY DEF UsesFallback, ParsePlain
<1>3. total \in Int \cup {None}
  BY <1>1, <1>2
<1>4. /\ out.value = Guarded(c, last, total)
      /\ out.last_valid = LastValid(last, out.value)
      /\ out.last_event = IF Spikes(c, last, total) THEN "aggregate spike rejected"
                          ELSE IF fallback THEN "fallback source used"
                          ELSE LoopEvent(c, s.raws, event)
  BY DEF ProcessSources
<1>5. LoopEvent(c, s.raws, event) \in PipelineEvents
  BY DEF LoopEvent, SourceEvent, PipelineEvents
<1> HIDE DEF primary, fallback, total, out
<1>6. out.value \in Int \cup {None} /\ out.last_valid \in Int \cup {None}
  BY <1>3, <1>4 DEF Guarded, LastValid
<1>7. out.last_event \in PipelineEvents
  BY <1>4, <1>5 DEF PipelineEvents
<1>8. QED
  BY <1>6, <1>7 DEF out

\* What is published is what the pipeline has made of the sample last polled.
Outcome ==
    Polled =>
        /\ sample \in Samples(config)
        /\ \E last \in Int \cup {None}, event \in PipelineEvents :
             LET out == ProcessSources(config, last, event, PipelineInput(config, sample))
             IN  value = out.value /\ pipeline.last_event = out.last_event

LEMMA TypedInit == Init => TypeOK /\ Outcome
<1> SUFFICES ASSUME Init PROVE TypeOK /\ Outcome
  OBVIOUS
<1>1. "none" \in PipelineEvents
  BY DEF PipelineEvents
<1>2. pipeline \in [last_valid : Int \cup {None}, last_event : PipelineEvents]
      /\ shown \in Int \cup {None}
  BY <1>1, SensorPollAssumption DEF Init
<1>3. config \in Configs /\ polls \in 0..MaxPolls(config)
  BY SensorPollAssumption DEF Init
<1>4. TypeOK
  BY <1>1, <1>2, <1>3 DEF Init, TypeOK
<1>5. Outcome
  <2>1. ~Polled
    BY DEF Init, Polled
  <2>2. QED
    BY <2>1, Zenon DEF Outcome
<1>6. QED
  BY <1>4, <1>5

LEMMA TypedPoll ==
    ASSUME TypeOK, NEW s \in Samples(config), Poll(s)
    PROVE  TypeOK' /\ Outcome'
<1>1. PICK last, event, out :
        /\ last = pipeline.last_valid /\ event = pipeline.last_event
        /\ out = ProcessSources(config, last, event, PipelineInput(config, s))
  OBVIOUS
<1>2. last \in Int \cup {None} /\ event \in PipelineEvents
  BY <1>1 DEF TypeOK
<1>3. /\ config \in Configs /\ config.aggregation \in AggregationModes
      /\ MaxPolls(config) \in Nat /\ s.raws \in Seq(Int \cup BadStates)
  BY SensorPollAssumption DEF TypeOK
<1>4. PipelineInput(config, s).raws = s.raws
  BY DEF PipelineInput
<1>5. /\ out.value \in Int \cup {None}
      /\ out.last_valid \in Int \cup {None}
      /\ out.last_event \in PipelineEvents
  BY <1>1, <1>2, <1>3, <1>4, PipelineTyped
<1>6. /\ pipeline' = [last_valid |-> out.last_valid, last_event |-> out.last_event]
      /\ value' = out.value
      /\ meta' = UpdateMeta(meta, out.last_event, out.value)
      /\ notified' = NotifiedAfter(out.last_event)
      /\ polls < MaxPolls(config) /\ polls' = polls + 1
      /\ sample' = s
      /\ shown' = IF out.value = None THEN shown ELSE out.value
      /\ notice' = IF Notifies(out.last_event)
                   THEN [sent |-> notice.sent + 1, event |-> out.last_event, since |-> FALSE]
                   ELSE [notice EXCEPT !.since = @ \/ out.last_event # notice.event]
      /\ config' = config /\ debug' = debug
  BY <1>1 DEF Poll
<1>7. meta' \in [spike_rejections : Nat, fallbacks : Nat, unavailable_samples : Nat]
  <2>1. /\ meta.spike_rejections \in Nat
        /\ meta.fallbacks \in Nat
        /\ meta.unavailable_samples \in Nat
    BY DEF TypeOK
  <2>2. PICK a, b, d :
          /\ a = IF out.last_event = "spike rejected" THEN 1 ELSE 0
          /\ b = IF out.last_event = "fallback source used" THEN 1 ELSE 0
          /\ d = IF out.value = None THEN 1 ELSE 0
    OBVIOUS
  <2>3. a \in Nat /\ b \in Nat /\ d \in Nat
    BY <2>2
  <2>4. meta' = [spike_rejections    |-> meta.spike_rejections + a,
                 fallbacks           |-> meta.fallbacks + b,
                 unavailable_samples |-> meta.unavailable_samples + d]
    BY <1>6, <2>2 DEF UpdateMeta, One
  <2>5. /\ meta.spike_rejections + a \in Nat
        /\ meta.fallbacks + b \in Nat
        /\ meta.unavailable_samples + d \in Nat
    BY <2>1, <2>3
  <2>6. QED
    BY <2>4, <2>5
<1>8. notified' \in PipelineEvents
  BY <1>5, <1>6 DEF TypeOK, NotifiedAfter, PipelineEvents
<1>9. notice' \in [sent : Nat, event : PipelineEvents, since : BOOLEAN]
  <2>1. CASE Notifies(out.last_event)
    BY <1>5, <1>6, <2>1 DEF TypeOK
  <2>2. CASE ~Notifies(out.last_event)
    BY <1>6, <2>2 DEF TypeOK
  <2>3. QED
    BY <2>1, <2>2
<1>10. polls' \in 0..MaxPolls(config') /\ Polled'
  <2>1. polls \in 0..MaxPolls(config)
    BY DEF TypeOK
  <2>2. QED
    BY <1>3, <1>6, <2>1 DEF Polled
<1>11. TypeOK'
  BY <1>3, <1>5, <1>6, <1>7, <1>8, <1>9, <1>10 DEF TypeOK
<1>12. Outcome'
  BY <1>1, <1>2, <1>6, <1>10 DEF Outcome
<1>13. QED
  BY <1>11, <1>12

LEMMA TypedStep == TypeOK /\ Outcome /\ [Next]_vars => TypeOK' /\ Outcome'
<1> SUFFICES ASSUME TypeOK, Outcome, [Next]_vars PROVE TypeOK' /\ Outcome'
  OBVIOUS
<1>1. CASE \E s \in Samples(config) : Poll(s)
  BY <1>1, TypedPoll
<1>2. CASE ToggleDebug
  BY <1>2 DEF ToggleDebug, TypeOK, Outcome, Polled
<1>3. CASE UNCHANGED vars
  BY <1>3 DEF vars, TypeOK, Outcome, Polled
<1>4. QED
  BY <1>1, <1>2, <1>3 DEF Next

LEMMA Typed == Spec => [](TypeOK /\ Outcome)
BY TypedInit, TypedStep, PTL DEF Spec

-----------------------------------------------------------------------------
(* The theorems about the values that are published.                       *)

\* Every variable has its type: a poll publishes a number or nothing, and what the
\* guard remembers and is told the debug targets is one of the pipeline's texts.
THEOREM PollTypeCorrect == Spec => []TypeOK
BY Typed, PTL

\* Energy and water in "sum" never report a partial sum, power always reports, and
\* one live source is enough in the other modes (filters.py:84-93), for any number
\* of sources.
THEOREM ClosedOrSoft == Spec => []FailsClosedOrSoft
<1>1. ASSUME TypeOK, Outcome PROVE FailsClosedOrSoft
  <2> SUFFICES ASSUME Polled PROVE FailsClosedOrSoft
    BY DEF FailsClosedOrSoft
  <2>1. PICK last \in Int \cup {None}, event \in PipelineEvents :
          value = ProcessSources(config, last, event, PipelineInput(config, sample)).value
    BY <1>1 DEF Outcome
  <2>2. config.aggregation \in AggregationModes /\ sample.raws \in Seq(Int \cup BadStates)
    BY <1>1, SensorPollAssumption DEF TypeOK, Outcome
  <2> DEFINE input    == PipelineInput(config, sample)
             primary  == NetSubtract(Aggregate(config, sample.raws), sample.net_subtract)
             fallback == UsesFallback(config, primary, input.fallback,
                                      input.fallback_condition_met)
             total    == IF fallback THEN input.fallback ELSE primary
  <2>3. value = Guarded(config, last, total)
    BY <2>1 DEF ProcessSources, PipelineInput
  <2>4. fallback => FallbackAtHand /\ input.fallback \in Int
    BY FilterAssumption DEF UsesFallback, PipelineInput, ParsePlain, FallbackAtHand,
                            FallbackConditionMet, BadStates
  <2>5. primary \in Int \cup {None} /\ (primary = None <=> Aggregate(config, sample.raws) = None)
    BY <2>2, AggregateFacts, NetFacts
  <2>6. ASSUME ~IsFailSoft(config.device_type), ~config.fallback_zero,
               config.aggregation = "sum", Live # Sources, ~FallbackAtHand
        PROVE  value = None
    <3>1. PICK i \in Sources : sample.raws[i] \notin Int
      BY <2>6 DEF Live
    <3>2. ProcessSource(config, sample.raws[i]) = None
      BY <2>6, <3>1, SourceValue DEF HandleUnavailable
    <3>3. FailsClosed(config, sample.raws)
      BY <2>6, <3>1, <3>2 DEF FailsClosed, Sources
    <3>4. total = None
      BY <2>2, <2>4, <2>5, <2>6, <3>3, AggregateFacts
    <3> HIDE DEF total
    <3>5. QED
      BY <2>3, <3>4 DEF Guarded, Spikes
  <2>7. ASSUME \/ IsFailSoft(config.device_type)
               \/ config.aggregation # "sum" /\ Live # {}
        PROVE  value # None
    <3>1. Aggregate(config, sample.raws) \in Int
      <4>1. CASE IsFailSoft(config.device_type)
        BY <2>2, <4>1, AggregateFacts
      <4>2. CASE config.aggregation # "sum" /\ Live # {}
        <5>1. \E i \in DOMAIN sample.raws : sample.raws[i] \in Int
          BY <4>2 DEF Live, Sources
        <5>2. QED
          BY <2>2, <4>2, <5>1, AggregateFacts, SourceValue
      <4>3. QED
        BY <2>7, <4>1, <4>2
    <3>2. primary # None
      BY <2>5, <3>1, NoneIsNoNumber
    <3>3. total # None
      BY <2>4, <3>2, NoneIsNoNumber
    <3> HIDE DEF total
    <3>4. QED
      BY <2>3, <3>3 DEF Guarded, Spikes
  <2>8. QED
    BY <2>6, <2>7 DEF FailsClosedOrSoft
<1>2. QED
  BY <1>1, Typed, PTL

\* Without fallback or guard, max, min and first_available report the reading of a
\* live source, never the zero of a dead one (filters.py:125-131).
THEOREM DeadChannelsNeverWin == Spec => []DeadChannelNeverWins
<1>1. ASSUME TypeOK, Outcome PROVE DeadChannelNeverWins
  <2> SUFFICES ASSUME Polled, config.aggregation # "sum", Live # {},
                      pipeline.last_event = "none"
               PROVE  \E i \in Live :
                        NetSubtract(IF config.invert THEN -sample.raws[i] ELSE sample.raws[i],
                                    sample.net_subtract) = value
    BY DEF DeadChannelNeverWins
  <2> DEFINE input    == PipelineInput(config, sample)
             primary  == NetSubtract(Aggregate(config, sample.raws), sample.net_subtract)
             fallback == UsesFallback(config, primary, input.fallback,
                                      input.fallback_condition_met)
             total    == IF fallback THEN input.fallback ELSE primary
  <2>1. PICK last \in Int \cup {None}, event \in PipelineEvents :
          /\ value = ProcessSources(config, last, event, input).value
          /\ pipeline.last_event = ProcessSources(config, last, event, input).last_event
    BY <1>1 DEF Outcome
  <2>2. config.aggregation \in AggregationModes /\ sample.raws \in Seq(Int \cup BadStates)
    BY <1>1, SensorPollAssumption DEF TypeOK, Outcome
  <2>3. value = Guarded(config, last, total)
    BY <2>1 DEF ProcessSources, PipelineInput
  <2>4. "none" = IF Spikes(config, last, total) THEN "aggregate spike rejected"
                 ELSE IF fallback THEN "fallback source used"
                 ELSE LoopEvent(config, sample.raws, event)
    BY <2>1 DEF ProcessSources, PipelineInput
  <2>5. value = primary
    <3>1. ~Spikes(config, last, total) /\ ~fallback
      BY <2>4
    <3>2. total = primary
      BY <3>1
    <3> HIDE DEF total, primary
    <3>3. QED
      BY <2>3, <3>1, <3>2 DEF Guarded
  <2>6. \E i \in DOMAIN sample.raws : sample.raws[i] \in Int
    BY DEF Live, Sources
  <2>7. PICK i \in DOMAIN sample.raws :
          /\ sample.raws[i] \in Int
          /\ Aggregate(config, sample.raws) = ProcessSource(config, sample.raws[i])
    BY <2>2, <2>6, AggregateFacts
  <2>8. ProcessSource(config, sample.raws[i])
          = IF config.invert THEN -sample.raws[i] ELSE sample.raws[i]
    BY <2>7, SourceValue
  <2>9. i \in Live
    BY <2>7 DEF Live, Sources
  <2>10. QED
    BY <2>5, <2>7, <2>8, <2>9
<1>2. QED
  BY <1>1, Typed, PTL

\* The set of entities a user picks has one aggregate, in whatever order it is kept,
\* for any number of them; first_available means the order.
THEOREM OrderMeansNothing == Spec => []OrderIrrelevant
<1>1. ASSUME TypeOK, Outcome PROVE OrderIrrelevant
  <2> SUFFICES ASSUME Polled, config.aggregation # "first_available",
                      NEW p \in [Sources -> Sources],
                      \A i, j \in Sources : p[i] = p[j] => i = j
               PROVE  Aggregate(config, [i \in Sources |-> sample.raws[p[i]]])
                        = Aggregate(config, sample.raws)
    BY Zenon DEF OrderIrrelevant
  <2>1. config.aggregation \in AggregationModes /\ sample.raws \in Seq(Int \cup BadStates)
    BY <1>1, SensorPollAssumption DEF TypeOK, Outcome
  <2>2. PICK c, raws, D, other :
          /\ c = config /\ raws = sample.raws
          /\ D = DOMAIN raws /\ other = [i \in D |-> raws[p[i]]]
    OBVIOUS
  <2>3. Permutes(p, D)
    BY <2>2 DEF Permutes, Sources
  <2>4. /\ other \in Seq(Int \cup BadStates) /\ DOMAIN other = D
        /\ \A i \in D : other[i] = raws[p[i]]
    <3>1. D = 1..Len(raws) /\ Len(raws) \in Nat
      BY <2>1, <2>2
    <3>2. \A i \in D : other[i] = raws[p[i]] /\ other[i] \in Int \cup BadStates
      BY <2>1, <2>2, <2>3 DEF Permutes
    <3>3. other \in [1..Len(raws) -> Int \cup BadStates]
      BY <2>2, <3>1, <3>2
    <3>4. QED
      BY <3>1, <3>2, <3>3
  <2>5. Aggregate(c, other) = Aggregate(c, raws)
    BY <2>1, <2>2, <2>3, <2>4, AggregatePermuted
  <2>6. QED
    BY <2>2, <2>5 DEF Sources
<1>2. QED
  BY <1>1, Typed, PTL
=============================================================================
