----------------------- MODULE NamingTemplatesProofs -----------------------
(* Theorems about NamingTemplates, for any files, ids and bounds.          *)
EXTENDS NamingTemplates, FiniteSets, SequenceTheorems, FiniteSetTheorems, TLAPS

-----------------------------------------------------------------------------
(* The operators.                                                          *)

LEMMA EmptyIsTemplate == Empty \in Templates
  BY DEF Empty, Templates, Texts, Unset

\* The merge of two templates is one.
LEMMA MergedIsTemplate ==
  ASSUME NEW base \in Templates, NEW child \in Templates
  PROVE  Merged(base, child) \in Templates
<1>1. Merged(base, child)
        = [extends     |-> Merged(base, child).extends,
           variables   |-> Merged(base, child).variables,
           device_name |-> Merged(base, child).device_name,
           entity_name |-> Merged(base, child).entity_name,
           object_id   |-> Merged(base, child).object_id]
  BY DEF Merged, Empty
<1>2. Merged(base, child).variables \in Unset \cup SUBSET Variables
  BY DEF Merged, Empty, Templates, Given, Unset
<1>3. /\ Merged(base, child).extends \in Ids \cup Unset
      /\ Merged(base, child).device_name \in Texts
      /\ Merged(base, child).entity_name \in Texts
      /\ Merged(base, child).object_id \in Texts
  BY DEF Merged, Empty, Templates
<1> QED
  BY <1>1, <1>2, <1>3 DEF Templates

\* Binding a key keeps a function's type.
LEMMA BoundIsFunction ==
  ASSUME NEW S, NEW T, NEW f, DOMAIN f \in SUBSET S, f \in [DOMAIN f -> T],
         NEW key \in S, NEW value \in T
  PROVE  /\ DOMAIN Bound(f, key, value) = DOMAIN f \cup {key}
         /\ Bound(f, key, value) \in [DOMAIN f \cup {key} -> T]
  BY DEF Bound

\* What is left of a stack that is not empty, and its top.
LEMMA StackParts ==
  ASSUME NEW S, NEW s \in Seq(S), s # <<>>
  PROVE  /\ Len(s) \in Nat \ {0}
         /\ Last(s) \in S
         /\ Last(s) = s[Len(s)]
         /\ Front(s) \in Seq(S)
         /\ Len(Front(s)) = Len(s) - 1
         /\ \A i \in 1..Len(Front(s)) : Front(s)[i] = s[i] /\ i < Len(s)
<1>1. Len(s) \in Nat \ {0}
  OBVIOUS
<1>2. Last(s) \in S /\ Last(s) = s[Len(s)]
  BY <1>1 DEF Last
<1> DEFINE n == Len(s) - 1
<1>3. n \in Nat /\ n < Len(s)
  BY <1>1
<1>4. \A i \in 1..n : s[i] \in S /\ i < Len(s)
  BY <1>1
<1> HIDE DEF n
<1>5. /\ SubSeq(s, 1, n) \in Seq(S)
      /\ Len(SubSeq(s, 1, n)) = IF 1 <= n THEN n - 1 + 1 ELSE 0
      /\ \A i \in 1..(n - 1 + 1) : SubSeq(s, 1, n)[i] = s[1 + i - 1]
  <2>1. n \in Int /\ 1 \in Int
    BY <1>3
  <2> QED
    <3>1. \A i \in 1..n : s[i] \in S
      BY <1>4
    <3> QED
      BY <2>1, <3>1, SubSeqProperties
<1>6. (IF 1 <= n THEN n - 1 + 1 ELSE 0) = n /\ n - 1 + 1 = n
  BY <1>3
<1>7. \A i \in 1..n : 1 + i - 1 = i
  BY <1>3
<1>8. /\ Front(s) = SubSeq(s, 1, n)
      /\ Len(Front(s)) = n
      /\ \A i \in 1..n : SubSeq(s, 1, n)[i] = s[i]
  BY <1>5, <1>6, <1>7, Zenon DEF Front, n
<1>9. n = Len(s) - 1
  BY DEF n
<1> QED
  BY <1>1, <1>2, <1>4, <1>5, <1>8, <1>9, Zenon

\* What is in a sequence when an element is put behind it, and when its head is taken.
LEMMA AppendRange ==
  ASSUME NEW S, NEW s \in Seq(S), NEW x \in S
  PROVE  Range(Append(s, x)) = Range(s) \cup {x}
<1>1. Len(s) \in Nat /\ DOMAIN s = 1..Len(s)
  OBVIOUS
<1>2. /\ DOMAIN Append(s, x) = 1..(Len(s) + 1)
      /\ Append(s, x)[Len(s) + 1] = x
      /\ \A i \in 1..Len(s) : Append(s, x)[i] = s[i]
  OBVIOUS
<1>3. 1..(Len(s) + 1) = 1..Len(s) \cup {Len(s) + 1}
  BY <1>1
<1> QED
  BY <1>1, <1>2, <1>3, Zenon DEF Range

LEMMA HeadTailRange ==
  ASSUME NEW S, NEW s \in Seq(S), s # <<>>
  PROVE  Range(s) = {Head(s)} \cup Range(Tail(s))
<1>1. Len(s) \in Nat \ {0} /\ DOMAIN s = 1..Len(s) /\ Head(s) = s[1]
  OBVIOUS
<1>2. /\ DOMAIN Tail(s) = 1..(Len(s) - 1)
      /\ \A i \in 1..(Len(s) - 1) : Tail(s)[i] = s[i + 1]
  BY <1>1
<1>3. \A i \in 1..(Len(s) - 1) : i + 1 \in 1..Len(s)
  BY <1>1
<1>4. \A i \in 1..Len(s) : i = 1 \/ \E j \in 1..(Len(s) - 1) : i = j + 1
  <2>1. ASSUME NEW i \in 1..Len(s), i # 1
        PROVE  i - 1 \in 1..(Len(s) - 1) /\ i = (i - 1) + 1
    BY <1>1, <2>1
  <2> QED
    BY <2>1
<1>5. 1 \in 1..Len(s)
  BY <1>1
<1>6. ASSUME NEW i \in 1..Len(s) PROVE s[i] \in {Head(s)} \cup Range(Tail(s))
  <2>1. CASE i = 1
    BY <1>1, <2>1
  <2>2. ASSUME NEW j \in 1..(Len(s) - 1), i = j + 1
        PROVE  s[i] \in Range(Tail(s))
    BY <1>2, <2>2, Zenon DEF Range
  <2> QED
    BY <1>4, <2>1, <2>2
<1>7. \A i \in DOMAIN Tail(s) : Tail(s)[i] \in Range(s)
  BY <1>1, <1>2, <1>3, Zenon DEF Range
<1> QED
  BY <1>1, <1>5, <1>6, <1>7, Zenon DEF Range

-----------------------------------------------------------------------------
(* The inductive invariant.                                                *)

\* Nothing is resolved while files are read.
NotYet == phase = "load" => stack = <<>> /\ resolved = NoTemplates

\* A call that has called for its parent is one for a file's template, and was not
\* too deep.
OpenCalls ==
    /\ \A i \in 1..Len(stack) :
         (i < Len(stack) \/ answer # Calling) => stack[i] \in DOMAIN raw
    /\ answer # Calling => Len(stack) <= MaxInheritanceDepth

\* The checks: of every file, and of every template with what it extends.
Checked ==
    /\ \A id \in DOMAIN raw : Valid(raw[id])
    /\ \A id \in DOMAIN resolved : Valid(resolved[id])

IInv == TypeOK /\ NotYet /\ OpenCalls /\ Checked

LEMMA InitHolds == Init => IInv
<1> SUFFICES ASSUME Init PROVE IInv
  OBVIOUS
<1>1. TypeOK
  BY NamingTemplatesAssumption DEF Init, TypeOK, NoTemplates
<1>2. NotYet /\ OpenCalls /\ Checked
  BY DEF Init, NotYet, OpenCalls, Checked, NoTemplates
<1> QED
  BY <1>1, <1>2 DEF IInv

\* A file that is read.
LEMMA LoadFileStep ==
  ASSUME IInv, LoadFile PROVE IInv'
<1> USE DEF IInv
<1>1. files' \in 0..MaxFiles
  <2>1. files \in 0..MaxFiles /\ files < MaxFiles /\ files' = files + 1 /\ MaxFiles \in Nat
    BY NamingTemplatesAssumption DEF TypeOK, LoadFile
  <2> QED
    BY <2>1
<1>2. CASE UNCHANGED <<raw, order>>
  <2>1. TypeOK'
    BY <1>1, <1>2 DEF TypeOK, LoadFile
  <2> QED
    BY <1>2, <2>1 DEF NotYet, OpenCalls, Checked, LoadFile
<1>3. ASSUME NEW file \in Files,
             Valid(file.template),
             raw' = Bound(raw, file.id, file.template),
             order' = IF file.id \in DOMAIN raw THEN order ELSE Append(order, file.id)
      PROVE  IInv'
  <2>1. file.id \in Ids /\ file.template \in Templates
    BY NamingTemplatesAssumption
  <2>2. /\ DOMAIN raw' = DOMAIN raw \cup {file.id}
        /\ raw' \in [DOMAIN raw' -> Templates]
    <3>1. DOMAIN raw \in SUBSET Ids /\ raw \in [DOMAIN raw -> Templates]
      BY DEF TypeOK
    <3>2. /\ DOMAIN Bound(raw, file.id, file.template) = DOMAIN raw \cup {file.id}
          /\ Bound(raw, file.id, file.template) \in [DOMAIN raw \cup {file.id} -> Templates]
      BY <2>1, <3>1, BoundIsFunction, Zenon
    <3> QED
      BY <1>3, <3>2, Zenon
  <2>3. order' \in Seq(Ids)
    <3>1. order \in Seq(Ids)
      BY DEF TypeOK
    <3>2. Append(order, file.id) \in Seq(Ids)
      BY <2>1, <3>1
    <3> QED
      BY <1>3, <3>1, <3>2
  <2>4. DOMAIN raw' \in SUBSET Ids /\ DOMAIN resolved' \in SUBSET DOMAIN raw'
    BY <2>1, <2>2 DEF TypeOK, LoadFile
  <2>5. TypeOK'
    BY <1>1, <2>2, <2>3, <2>4 DEF TypeOK, LoadFile
  <2>6. NotYet' /\ OpenCalls'
    BY <2>2 DEF NotYet, OpenCalls, LoadFile
  <2>7. Checked'
    BY <1>3, <2>2 DEF Checked, LoadFile, Bound
  <2> QED
    BY <2>5, <2>6, <2>7
<1> QED
  BY <1>2, <1>3 DEF LoadFile

\* The end of a call that resolves its template, or finds it is not valid.
LEMMA ApplyStep ==
  ASSUME IInv, Apply PROVE IInv'
<1> USE DEF IInv
<1> DEFINE base   == IF answer \in {Calling, Nothing} THEN Empty ELSE answer
           merged == Merged(base, raw[Top])
<1>1. /\ Len(stack) \in Nat \ {0}
      /\ Front(stack) \in Seq(Ids)
      /\ Len(Front(stack)) = Len(stack) - 1
      /\ Top = stack[Len(stack)]
      /\ \A i \in 1..Len(Front(stack)) : Front(stack)[i] = stack[i] /\ i < Len(stack)
  BY StackParts DEF Apply, TypeOK, Top
<1>2. Top \in DOMAIN raw /\ Len(stack) <= MaxInheritanceDepth
  <2>1. CASE answer = Calling
    BY <1>1, <2>1, NamingTemplatesAssumption DEF Apply, Refused, NotThere
  <2>2. CASE answer # Calling
    BY <1>1, <2>2 DEF OpenCalls
  <2> QED
    BY <2>1, <2>2
<1>3. merged \in Templates
  BY <1>2, EmptyIsTemplate, MergedIsTemplate DEF TypeOK
<1>4. /\ stack' = Front(stack)
      /\ Len(stack') <= MaxInheritanceDepth
      /\ Len(stack') <= MaxInheritanceDepth + 1
  <2>1. stack' = Front(stack)
    BY DEF Apply
  <2>2. MaxInheritanceDepth \in Nat
    BY NamingTemplatesAssumption
  <2> HIDE DEF IInv
  <2> QED
    BY <1>1, <1>2, <2>1, <2>2
<1>5. OpenCalls'
  BY <1>1, <1>4 DEF Apply, OpenCalls
<1>6. NotYet'
  BY DEF Apply, NotYet
<1>7. CASE Valid(merged) /\ resolved' = Bound(resolved, Top, merged) /\ answer' = merged
  <2> HIDE DEF merged
  <2>1. /\ DOMAIN resolved' = DOMAIN resolved \cup {Top}
        /\ resolved' \in [DOMAIN resolved' -> Templates]
    <3>1. /\ Top \in Ids
          /\ DOMAIN resolved \in SUBSET Ids
          /\ resolved \in [DOMAIN resolved -> Templates]
      BY <1>2 DEF TypeOK
    <3>2. /\ DOMAIN Bound(resolved, Top, merged) = DOMAIN resolved \cup {Top}
          /\ Bound(resolved, Top, merged) \in [DOMAIN resolved \cup {Top} -> Templates]
      BY <1>3, <3>1, BoundIsFunction, Zenon
    <3> QED
      BY <1>7, <3>2, Zenon
  <2>2. TypeOK'
    <3>1. DOMAIN resolved' \in SUBSET DOMAIN raw'
      BY <1>2, <2>1 DEF TypeOK, Apply
    <3> QED
      BY <1>1, <1>3, <1>4, <1>7, <2>1, <3>1, Zenon DEF TypeOK, Apply
  <2>3. Checked'
    BY <1>7, <2>1 DEF Checked, Apply, Bound
  <2> QED
    BY <1>5, <1>6, <2>2, <2>3
<1>8. CASE answer' = Nothing /\ UNCHANGED resolved
  <2>1. TypeOK'
    <3>1. answer' \in Templates \cup {Calling, Nothing}
      BY <1>8
    <3> QED
      BY <1>1, <1>4, <1>8, <3>1, Zenon DEF TypeOK, Apply
  <2>2. Checked'
    BY <1>8 DEF Checked, Apply
  <2> QED
    BY <1>5, <1>6, <2>1, <2>2
<1> QED
  BY <1>7, <1>8 DEF Apply

\* resolve calls itself, or returns at once.
LEMMA CallsStep ==
  ASSUME IInv, CallParent \/ Return PROVE IInv'
<1> USE DEF IInv
<1>1. /\ Len(stack) \in Nat \ {0}
      /\ Front(stack) \in Seq(Ids)
      /\ Len(Front(stack)) = Len(stack) - 1
      /\ Top = stack[Len(stack)]
      /\ \A i \in 1..Len(Front(stack)) : Front(stack)[i] = stack[i] /\ i < Len(stack)
  BY StackParts DEF CallParent, Return, TypeOK, Top
<1>2. CASE CallParent
  <2>1. Top \in DOMAIN raw /\ Len(stack) <= MaxInheritanceDepth
    BY <1>1, <1>2, NamingTemplatesAssumption DEF CallParent, Refused, NotThere
  <2>2. Extends(Top) \in Ids
    BY <1>2, <2>1 DEF CallParent, HasParent, Extends, TypeOK, Templates
  <2>3. /\ stack' \in Seq(Ids)
        /\ Len(stack') = Len(stack) + 1
        /\ \A i \in 1..Len(stack) : stack'[i] = stack[i]
    <3>1. stack \in Seq(Ids) /\ stack' = Append(stack, Extends(Top))
      BY <1>2 DEF CallParent, TypeOK
    <3> HIDE DEF IInv
    <3> QED
      BY <2>2, <3>1
  <2>4. TypeOK'
    <3>1. Len(stack') <= MaxInheritanceDepth + 1
      BY <1>1, <2>1, <2>3, NamingTemplatesAssumption
    <3> QED
      BY <1>2, <2>3, <3>1, Zenon DEF TypeOK, CallParent
  <2>5. OpenCalls'
    BY <1>1, <1>2, <2>1, <2>3 DEF OpenCalls, CallParent
  <2>6. NotYet' /\ Checked'
    BY <1>2 DEF NotYet, Checked, CallParent
  <2> QED
    BY <2>4, <2>5, <2>6
<1>3. CASE Return
  <2>1. answer' \in Templates \cup {Calling, Nothing}
    BY <1>3 DEF Return, Remembered, TypeOK
  <2>2. /\ stack' = Front(stack)
        /\ Len(stack') <= MaxInheritanceDepth
        /\ Len(stack') <= MaxInheritanceDepth + 1
    <3>1. stack' = Front(stack) /\ Len(stack) <= MaxInheritanceDepth + 1
      BY <1>3 DEF Return, TypeOK
    <3>2. MaxInheritanceDepth \in Nat
      BY NamingTemplatesAssumption
    <3> HIDE DEF IInv
    <3> QED
      BY <1>1, <3>1, <3>2
  <2>3. TypeOK'
    BY <1>1, <1>3, <2>1, <2>2, Zenon DEF TypeOK, Return
  <2>4. OpenCalls'
    BY <1>1, <1>3, <2>2 DEF OpenCalls, Return
  <2>5. NotYet' /\ Checked'
    BY <1>3 DEF NotYet, Checked, Return
  <2> QED
    BY <2>3, <2>4, <2>5
<1> QED
  BY <1>2, <1>3

LEMMA StepHolds == IInv /\ [Next]_vars => IInv'
<1> SUFFICES ASSUME IInv, [Next]_vars PROVE IInv'
  OBVIOUS
<1> USE DEF IInv
<1>1. CASE LoadFile
  BY <1>1, LoadFileStep
<1>2. CASE LoadRaises
  <2>1. stack = <<>> /\ resolved = NoTemplates
    BY <1>2 DEF LoadRaises, NotYet
  <2>2. files' \in 0..MaxFiles
    <3>1. files \in 0..MaxFiles /\ files < MaxFiles /\ files' = files + 1 /\ MaxFiles \in Nat
      BY <1>2, NamingTemplatesAssumption DEF TypeOK, LoadRaises
    <3> QED
      BY <3>1
  <2>3. /\ DOMAIN NoTemplates = {}
        /\ NoTemplates \in [DOMAIN NoTemplates -> Templates]
    BY DEF NoTemplates
  <2>4. raw' = NoTemplates /\ resolved' = NoTemplates /\ order' = <<>> /\ stack' = <<>>
    BY <1>2, <2>1 DEF LoadRaises
  <2>5. /\ DOMAIN raw' \in SUBSET Ids
        /\ raw' \in [DOMAIN raw' -> Templates]
        /\ DOMAIN resolved' \in SUBSET DOMAIN raw'
        /\ resolved' \in [DOMAIN resolved' -> Templates]
        /\ order' \in Seq(Ids)
    BY <2>3, <2>4
  <2>6. TypeOK'
    BY <1>2, <2>2, <2>5 DEF LoadRaises, TypeOK
  <2>7. OpenCalls'
    <3>1. 1..Len(stack') = {}
      BY <2>4
    <3>2. answer' = answer /\ stack' = stack
      BY <1>2 DEF LoadRaises
    <3>3. answer' # Calling => Len(stack') <= MaxInheritanceDepth
      BY <3>2 DEF OpenCalls
    <3> QED
      BY <3>1, <3>3, Zenon DEF OpenCalls
  <2>8. NotYet' /\ Checked'
    BY <1>2, <2>3, <2>4 DEF LoadRaises, NotYet, Checked
  <2> QED
    BY <2>6, <2>7, <2>8
<1>3. CASE Loaded \/ Resolved
  BY <1>3 DEF Loaded, Resolved, TypeOK, NotYet, OpenCalls, Checked
<1>4. CASE ResolveNext
  <2>1. order \in Seq(Ids) /\ order # <<>> /\ stack' = <<Head(order)>> /\ order' = Tail(order)
    BY <1>4 DEF ResolveNext, TypeOK
  <2>2. Head(order) \in Ids /\ Tail(order) \in Seq(Ids)
    BY <2>1, HeadTailProperties, Zenon
  <2>3. stack' \in Seq(Ids) /\ Len(stack') = 1
    <3> HIDE DEF IInv
    <3> QED
      BY <2>1, <2>2
  <2>4. Len(stack') <= MaxInheritanceDepth + 1
    BY <2>3, NamingTemplatesAssumption
  <2>5. answer' = Calling
    BY <1>4 DEF ResolveNext
  <2>6. TypeOK'
    <3>1. order' \in Seq(Ids)
      BY <2>1, <2>2
    <3>2. answer' \in Templates \cup {Calling, Nothing}
      BY <2>5
    <3> QED
      BY <1>4, <2>3, <2>4, <3>1, <3>2, Zenon DEF ResolveNext, TypeOK
  <2>7. OpenCalls'
    <3>1. \A i \in 1..Len(stack') : ~(i < Len(stack'))
      BY <2>3
    <3> QED
      <4>1. \A i \in 1..Len(stack') :
              (i < Len(stack') \/ answer' # Calling) => stack'[i] \in DOMAIN raw'
        BY <2>5, <3>1, Zenon
      <4>2. answer' # Calling => Len(stack') <= MaxInheritanceDepth
        BY <2>5
      <4> QED
        BY <4>1, <4>2 DEF OpenCalls
  <2>8. NotYet' /\ Checked'
    BY <1>4 DEF ResolveNext, NotYet, Checked
  <2> QED
    BY <2>6, <2>7, <2>8
<1>5. CASE Return \/ CallParent
  BY <1>5, CallsStep
<1>6. CASE Apply
  BY <1>6, ApplyStep
<1>7. CASE SetUpPlatform
  <2>1. outcome' \in {"built-in names", "template names", "raised"}
    BY <1>7 DEF SetUpPlatform
  <2> QED
    BY <1>7, <2>1 DEF SetUpPlatform, TypeOK, NotYet, OpenCalls, Checked
<1>8. CASE UNCHANGED vars
  BY <1>8 DEF vars, TypeOK, NotYet, OpenCalls, Checked
<1> QED
  BY <1>1, <1>2, <1>3, <1>4, <1>5, <1>6, <1>7, <1>8 DEF Next

LEMMA Invariance == Spec => []IInv
  BY InitHolds, StepHolds, PTL DEF Spec

-----------------------------------------------------------------------------
(* What may raise in the platform's setup.                                 *)

\* A template that raises has a device_name that refers to itself.
RaisedForItself ==
    /\ phase # "done" => outcome = "none"
    /\ outcome = "raised" =>
         \E id \in DOMAIN resolved :
             DeviceName \in Given(resolved[id].device_name) \ Given(resolved[id].variables)

LEMMA ValidRenders ==
  ASSUME NEW template, Valid(template),
         DeviceName \notin Given(template.device_name) \ Given(template.variables),
         NEW given
  PROVE  Renders(template, given)
BY DEF Valid, Renders, Given

LEMMA RaisedStep ==
  ASSUME IInv, RaisedForItself, [Next]_vars PROVE RaisedForItself'
<1>1. CASE SetUpPlatform
  <2>1. PICK id \in Ids, given \in SUBSET {"logical_name", "entity_name", "object_id"} :
          outcome' = IF id \notin DOMAIN resolved THEN "built-in names"
                     ELSE IF Renders(resolved[id], given) THEN "template names"
                     ELSE "raised"
    BY <1>1 DEF SetUpPlatform
  <2>2. outcome' = "raised" => id \in DOMAIN resolved /\ ~Renders(resolved[id], given)
    BY <2>1
  <2>3. outcome' = "raised" =>
          /\ id \in DOMAIN resolved
          /\ DeviceName \in Given(resolved[id].device_name) \ Given(resolved[id].variables)
    BY <2>2, ValidRenders, Zenon DEF IInv, Checked
  <2>4. phase' = "done" /\ resolved' = resolved
    BY <1>1 DEF SetUpPlatform
  <2> QED
    BY <2>3, <2>4 DEF RaisedForItself
<1>2. CASE UNCHANGED vars
  BY <1>2 DEF vars, RaisedForItself
<1>3. CASE /\ phase # "done" /\ phase' # "done"
           /\ outcome' = outcome
  BY <1>3 DEF RaisedForItself
<1> QED
  BY <1>1, <1>2, <1>3
  DEF Next, LoadFile, LoadRaises, Loaded, ResolveNext, Resolved, Return, CallParent, Apply

-----------------------------------------------------------------------------
(* The theorems.                                                           *)

\* Every variable has its type, resolve is never more than MAX_INHERITANCE_DEPTH
\* calls below the first, and nothing is resolved that no file was read for
\* (naming_template.py:212-241).
THEOREM TemplatesTypeCorrect == Spec => []TypeOK
<1>1. IInv => TypeOK
  BY DEF IInv
<1> QED
  BY <1>1, Invariance, PTL

\* A sensor with a template is never the reason that the platform's setup raises,
\* unless the template's device_name is made of itself: the check of every file and
\* of every merge leaves no other placeholder without a value, be it inherited, or
\* its variable cleared, or a parent left out (naming_template.py:105-142, 230-240).
THEOREM RaisesOnlyForItself ==
    Spec => [](outcome = "raised" =>
                 \E id \in DOMAIN resolved :
                     /\ Valid(resolved[id])
                     /\ DeviceName \in Given(resolved[id].device_name)
                                         \ Given(resolved[id].variables))
<1>1. Init => RaisedForItself
  BY DEF Init, RaisedForItself
<1>2. Spec => []RaisedForItself
  BY <1>1, RaisedStep, Invariance, PTL DEF Spec
<1>3. IInv /\ RaisedForItself =>
        (outcome = "raised" =>
           \E id \in DOMAIN resolved :
               /\ Valid(resolved[id])
               /\ DeviceName \in Given(resolved[id].device_name)
                                   \ Given(resolved[id].variables))
  BY DEF IInv, Checked, RaisedForItself
<1> QED
  BY <1>2, <1>3, Invariance, PTL

-----------------------------------------------------------------------------
(* Every template is merged with its parent.                               *)

\* A template that was resolved with what its parent has resolved to, and is not
\* valid with it.  It stays so.
Dead(id) ==
    /\ id \in DOMAIN raw \ DOMAIN resolved
    /\ HasParent(id)
    /\ Extends(id) \in DOMAIN resolved
    /\ ~Valid(Merged(resolved[Extends(id)], raw[id]))

NeverResolved(id) == id \notin DOMAIN raw \/ Dead(id)

Exempt(id) == InCycle(id) \/ AtDepthLimit(id)

\* The calls of resolve that have not returned are for templates that are not
\* resolved, no two for the same, each for the parent of the one before.
Open(i) == i < Len(stack) \/ answer # Calling

Stacked ==
    /\ \A i \in 1..Len(stack) : Open(i) => stack[i] \in DOMAIN raw \ DOMAIN resolved
    /\ \A i, j \in 1..Len(stack) : Open(i) /\ Open(j) /\ stack[i] = stack[j] => i = j
    /\ \A i \in 1..Len(stack) - 1 : HasParent(stack[i]) /\ Extends(stack[i]) = stack[i + 1]

\* What a call has returned to its caller is what its template has resolved to; it
\* is nothing only if there will never be anything, or in a cycle or at the limit.
Answered ==
    answer # Calling /\ stack # <<>> =>
        /\ HasParent(Top)
        /\ IF answer = Nothing
           THEN /\ Extends(Top) \notin DOMAIN resolved
                /\ NeverResolved(Extends(Top)) \/ Exempt(Top)
           ELSE Extends(Top) \in DOMAIN resolved /\ answer = resolved[Extends(Top)]

\* What is resolved is right, and no later call can make it wrong.
Right(id) ==
    \/ Exempt(id)
    \/ /\ resolved[id] = WithParent(id)
       /\ HasParent(id) => Extends(id) \in DOMAIN resolved \/ NeverResolved(Extends(id))

AllRight == \A id \in DOMAIN resolved : Right(id)

\* No template is forgotten.
Awaited(id) ==
    \/ phase \in {"load", "resolve"} /\ id \in Range(order)
    \/ phase = "resolve" /\ stack # <<>> /\ id = stack[1]

Complete == \A id \in DOMAIN raw : Awaited(id) \/ id \in DOMAIN resolved \/ Dead(id)

\* There are no more templates than files.
Bounded == IsFiniteSet(DOMAIN raw) /\ Cardinality(DOMAIN raw) <= files

Merging ==
    /\ Stacked
    /\ Answered
    /\ AllRight
    /\ Complete
    /\ Bounded

\* Without a parent's template a template is what its file says, and is valid.
LEMMA MergedWithEmpty ==
  ASSUME NEW template \in Templates
  PROVE  Merged(Empty, template) = template
<1> DEFINE m == Merged(Empty, template)
<1>1. m = [extends |-> m.extends, variables |-> m.variables, device_name |-> m.device_name,
           entity_name |-> m.entity_name, object_id |-> m.object_id]
  BY DEF Merged, Empty
<1>2. /\ m.extends = template.extends
      /\ m.device_name = template.device_name
      /\ m.entity_name = template.entity_name
      /\ m.object_id = template.object_id
  BY DEF Merged, Empty
<1>3. m.variables = template.variables
  BY DEF Merged, Empty, Given, Unset
<1>4. template = [extends |-> template.extends, variables |-> template.variables,
                  device_name |-> template.device_name, entity_name |-> template.entity_name,
                  object_id |-> template.object_id]
  BY DEF Templates
<1> HIDE DEF m
<1> QED
  BY <1>1, <1>2, <1>3, <1>4 DEF m

\* Calls for templates that all differ make a chain of templates.
LEMMA CallsAreChain ==
  ASSUME IInv, Merging, stack # <<>>,
         NEW first \in 1..Len(stack), NEW n \in Nat, first + n = Len(stack)
  PROVE  /\ [i \in 1..n |-> stack[first + i - 1]] \in Chains(n)
         /\ n <= MaxFiles
<1> DEFINE chain == [i \in 1..n |-> stack[first + i - 1]]
<1>1. Len(stack) \in Nat /\ first \in Nat \ {0}
  <2>1. stack \in Seq(Ids)
    BY DEF IInv, TypeOK
  <2>2. Len(stack) \in Nat
    BY <2>1
  <2> QED
    BY <2>2
<1>2. \A i \in 1..n : first + i - 1 \in 1..Len(stack) /\ first + i - 1 < Len(stack)
  BY <1>1
<1>3. chain \in [1..n -> DOMAIN raw]
  BY <1>2 DEF Merging, Stacked, Open
<1>4. ASSUME NEW i \in 1..(n - 1)
      PROVE  HasParent(chain[i]) /\ Extends(chain[i]) = chain[i + 1]
  <2>1. /\ first + i - 1 \in 1..Len(stack) - 1
        /\ (first + i - 1) + 1 = first + (i + 1) - 1
        /\ i \in 1..n /\ i + 1 \in 1..n
    BY <1>1
  <2>2. /\ HasParent(stack[first + i - 1])
        /\ Extends(stack[first + i - 1]) = stack[(first + i - 1) + 1]
    BY <2>1 DEF Merging, Stacked
  <2>3. chain[i] = stack[first + i - 1] /\ chain[i + 1] = stack[first + (i + 1) - 1]
    BY <2>1
  <2> QED
    BY <2>1, <2>2, <2>3
<1>5. IsInjective(chain)
  <2>1. ASSUME NEW i \in 1..n, NEW j \in 1..n, chain[i] = chain[j]
        PROVE  i = j
    <3>1. first + i - 1 = first + j - 1
      BY <1>2, <2>1 DEF Merging, Stacked, Open
    <3> QED
      BY <1>1, <3>1
  <2> QED
    BY <2>1 DEF IsInjective
<1>6. n <= MaxFiles
  <2>1. chain \in Injection(1..n, DOMAIN raw)
    BY <1>3, <1>5 DEF Injection
  <2>2. Cardinality(1..n) <= Cardinality(DOMAIN raw)
    BY <2>1, FS_Injection DEF Merging, Bounded
  <2>3. Cardinality(1..n) = n
    BY FS_Interval
  <2>4. Cardinality(DOMAIN raw) \in Nat
    BY FS_CardinalityType DEF Merging, Bounded
  <2>5. files \in 0..MaxFiles /\ Cardinality(DOMAIN raw) <= files
    BY DEF Merging, Bounded, IInv, TypeOK
  <2>6. MaxFiles \in Nat
    BY NamingTemplatesAssumption
  <2> QED
    BY <2>2, <2>3, <2>4, <2>5, <2>6
<1> QED
  BY <1>3, <1>4, <1>5, <1>6 DEF Chains

\* resolve returns nothing for a parent only if there will never be anything, or to
\* a template in a cycle or at the limit.
LEMMA RefusedParent ==
  ASSUME IInv, Merging, Len(stack) > 1, answer = Calling, Refused,
         NEW child, child = stack[Len(stack) - 1]
  PROVE  Top \notin DOMAIN raw \/ Exempt(child)
<1>0. stack \in Seq(Ids) /\ Len(stack) <= MaxInheritanceDepth + 1
  BY DEF IInv, TypeOK
<1>1. Len(stack) \in Nat /\ Top = stack[Len(stack)] /\ stack # <<>>
  <2>1. stack # <<>>
    BY <1>0
  <2> QED
    BY <1>0, <2>1, StackParts DEF Top
<1>2. HasParent(child) /\ Extends(child) = Top
  <2>1. Len(stack) - 1 \in 1..Len(stack) - 1 /\ (Len(stack) - 1) + 1 = Len(stack)
    BY <1>1
  <2> QED
    BY <1>1, <2>1 DEF Merging, Stacked
<1>3. CASE Top \in Seen
  <2>1. PICK k \in 1..Len(stack) - 1 : stack[k] = Top
    <3>1. /\ Len(Front(stack)) = Len(stack) - 1
          /\ \A i \in 1..Len(Front(stack)) : Front(stack)[i] = stack[i]
          /\ Front(stack) \in Seq(Ids)
      BY <1>0, <1>1, StackParts
    <3>2. DOMAIN Front(stack) = 1..Len(Front(stack))
      BY <3>1
    <3> QED
      BY <1>3, <3>1, <3>2 DEF Seen, Range
  <2> DEFINE n == Len(stack) - k
             chain == [i \in 1..n |-> stack[k + i - 1]]
  <2>2. n \in Nat \ {0} /\ k + n = Len(stack) /\ k \in 1..Len(stack)
    <3>1. k \in Nat \ {0} /\ k <= Len(stack) - 1
      BY <1>1
    <3> QED
      BY <1>1, <3>1
  <2>3. chain \in Chains(n) /\ n <= MaxFiles
    BY <1>1, <2>2, CallsAreChain
  <2>4. chain[n] = child /\ chain[1] = Top
    <3> HIDE DEF n
    <3>0. k \in Nat /\ n \in Nat \ {0} /\ k + n = Len(stack)
      BY <2>2
    <3>1. k + n - 1 = Len(stack) - 1 /\ k + 1 - 1 = k /\ 1 \in 1..n /\ n \in 1..n
      BY <3>0
    <3>2. chain[n] = stack[k + n - 1] /\ chain[1] = stack[k + 1 - 1]
      BY <3>1
    <3> HIDE DEF chain
    <3>3. chain[n] = stack[Len(stack) - 1]
      BY <3>1, <3>2, Zenon
    <3>4. chain[1] = stack[k]
      BY <3>1, <3>2, Zenon
    <3> QED
      BY <2>1, <3>3, <3>4, Zenon
  <2>5. n # 1
    <3>1. child # Top
      BY <1>2 DEF HasParent
    <3> HIDE DEF n
    <3> QED
      BY <2>4, <3>1
  <2>6. n \in 2..MaxFiles
    <3> HIDE DEF chain
    <3>1. n \in Nat /\ n # 0
      BY <2>2
    <3> HIDE DEF n
    <3> QED
      BY <2>3, <2>5, <3>1, NamingTemplatesAssumption
  <2>7. InCycle(child)
    <3> HIDE DEF n, chain
    <3> QED
      BY <1>2, <2>3, <2>4, <2>6 DEF InCycle
  <2> QED
    BY <2>7 DEF Exempt
<1>4. CASE Len(stack) > MaxInheritanceDepth
  <2> DEFINE n == MaxInheritanceDepth
             chain == [i \in 1..n |-> stack[1 + i - 1]]
  <2>1. n \in Nat /\ n \in 1..n /\ Len(stack) = n + 1 /\ 1 \in 1..Len(stack)
    <3>1. MaxInheritanceDepth \in Nat \ {0}
      BY NamingTemplatesAssumption
    <3> QED
      BY <1>0, <1>1, <1>4, <3>1
  <2>2. chain \in Chains(n)
    BY <1>1, <2>1, CallsAreChain
  <2>3. chain[n] = child
    <3>1. 1 + n - 1 = Len(stack) - 1 /\ chain[n] = stack[1 + n - 1]
      BY <2>1
    <3> QED
      BY <3>1
  <2> QED
    BY <2>2, <2>3 DEF Exempt, AtDepthLimit
<1> QED
  BY <1>3, <1>4 DEF Refused, NotThere

\* Whose parent a template is, and where the code may miss it, is a matter of the files.
LEMMA SameFiles ==
  ASSUME raw' = raw, NEW id
  PROVE  /\ Extends(id)' = Extends(id)
         /\ HasParent(id)' <=> HasParent(id)
         /\ Exempt(id)' <=> Exempt(id)
<1>1. \A n : Chains(n)' = Chains(n)
  BY DEF Chains, HasParent, Extends
<1> QED
  BY <1>1 DEF Extends, HasParent, Exempt, InCycle, AtDepthLimit

\* A template that is not valid with its parent stays so while templates resolve.
LEMMA DeadStays ==
  ASSUME IInv, raw' = raw, NEW id, Dead(id),
         DOMAIN resolved \subseteq DOMAIN resolved', id \notin DOMAIN resolved',
         \A other \in DOMAIN resolved : resolved'[other] = resolved[other]
  PROVE  Dead(id)'
BY DEF Dead, HasParent, Extends

LEMMA MergingInit == Init => Merging
<1> SUFFICES ASSUME Init PROVE Merging
  OBVIOUS
<1>1. Len(stack) = 0 /\ DOMAIN raw = {} /\ DOMAIN resolved = {}
  BY DEF Init, NoTemplates
<1>2. Stacked
  <2>1. 1..Len(stack) = {} /\ 1..Len(stack) - 1 = {}
    BY <1>1
  <2> QED
    BY <2>1 DEF Stacked
<1>3. Answered /\ Complete
  BY <1>1 DEF Init, Answered, Complete
<1>4. IsFiniteSet({}) /\ Cardinality({}) = 0
  BY FS_EmptySet
<1>5. Bounded
  BY <1>1, <1>4 DEF Init, Bounded
<1>6. AllRight
  BY <1>1 DEF AllRight
<1> QED
  BY <1>2, <1>3, <1>5, <1>6 DEF Merging

\* A step that leaves the calls alone.
LEMMA IdleStep ==
  ASSUME IInv, Merging, UNCHANGED <<raw, stack, answer, resolved>>, Complete', Bounded'
  PROVE  Merging'
<1>1. Stacked'
  BY DEF Merging, Stacked, Open, HasParent, Extends
<1>2. \A id : NeverResolved(id)' <=> NeverResolved(id)
  BY DEF NeverResolved, Dead, HasParent, Extends
<1>3. \A id : Right(id)' <=> Right(id)
  <2> TAKE id
  <2>1. WithParent(id)' = WithParent(id)
    BY DEF WithParent, HasParent, Extends
  <2>2. NeverResolved(Extends(id))' <=> NeverResolved(Extends(id))
    BY DEF NeverResolved, Dead, HasParent, Extends
  <2> QED
    BY <2>1, <2>2, SameFiles DEF Right
<1>4. Answered'
  <2>1. PICK top : top = Top
    OBVIOUS
  <2>2. Top' = top
    BY <2>1 DEF Top
  <2>3. PICK parent : parent = Extends(top)
    OBVIOUS
  <2>4. Extends(Top)' = parent
    BY <2>2, <2>3 DEF Extends
  <2>5. Extends(Top) = parent
    BY <2>1, <2>3
  <2>6. NeverResolved(Extends(Top))' <=> NeverResolved(parent)
    BY <2>4 DEF NeverResolved, Dead, HasParent, Extends
  <2>7. Exempt(Top)' <=> Exempt(top)
    BY <2>2, SameFiles DEF Exempt
  <2>8. HasParent(Top)' <=> HasParent(top)
    BY <2>2, SameFiles DEF HasParent
  <2> QED
    BY <2>1, <2>4, <2>5, <2>6, <2>7, <2>8 DEF Merging, Answered
<1>5. AllRight'
  BY <1>3 DEF Merging, AllRight
<1> QED
  BY <1>1, <1>4, <1>5 DEF Merging

\* A file that is read.
LEMMA MergingLoadFile ==
  ASSUME IInv, Merging, LoadFile PROVE Merging'
<1>1. /\ stack = <<>> /\ resolved = NoTemplates
      /\ stack' = <<>> /\ resolved' = NoTemplates /\ DOMAIN NoTemplates = {}
  BY DEF IInv, NotYet, LoadFile, NoTemplates
<1>2. files \in Nat /\ files' = files + 1
  <2>1. files \in 0..MaxFiles /\ files' = files + 1
    BY DEF IInv, TypeOK, LoadFile
  <2>2. MaxFiles \in Nat
    BY NamingTemplatesAssumption
  <2> QED
    BY <2>1, <2>2
<1>3. Stacked'
  <2>1. 1..Len(stack') = {} /\ 1..Len(stack') - 1 = {}
    BY <1>1
  <2> QED
    BY <2>1 DEF Stacked
<1>4. Answered'
  BY <1>1 DEF Answered
<1>5. IsFiniteSet(DOMAIN raw) /\ Cardinality(DOMAIN raw) <= files
      /\ Cardinality(DOMAIN raw) \in Nat
  BY FS_CardinalityType DEF Merging, Bounded
<1>6. \A id \in DOMAIN raw : id \in Range(order)
  BY <1>1 DEF Merging, Complete, Awaited, Dead, LoadFile
<1>7. order \in Seq(Ids)
  BY DEF IInv, TypeOK
<1>8. Complete' /\ Bounded'
  <2>1. CASE UNCHANGED <<raw, order>>
    <3>1. Complete'
      BY <1>6, <2>1 DEF Complete, Awaited, LoadFile
    <3>2. Bounded'
      BY <1>2, <1>5, <2>1 DEF Bounded
    <3> QED
      BY <3>1, <3>2
  <2>2. ASSUME NEW file \in Files,
               raw' = Bound(raw, file.id, file.template),
               order' = IF file.id \in DOMAIN raw THEN order ELSE Append(order, file.id)
        PROVE  Complete' /\ Bounded'
    <3>1. DOMAIN raw' = DOMAIN raw \cup {file.id} /\ file.id \in Ids
      BY <2>2, NamingTemplatesAssumption DEF Bound
    <3>2. \A id \in DOMAIN raw' : id \in Range(order')
      <4>1. Range(Append(order, file.id)) = Range(order) \cup {file.id}
        BY <1>7, <3>1, AppendRange
      <4> QED
        BY <1>6, <2>2, <3>1, <4>1
    <3>3. Complete'
      BY <3>2 DEF Complete, Awaited, LoadFile
    <3>4. /\ IsFiniteSet(DOMAIN raw')
          /\ \/ Cardinality(DOMAIN raw') = Cardinality(DOMAIN raw)
             \/ Cardinality(DOMAIN raw') = Cardinality(DOMAIN raw) + 1
      <4>1. PICK S : S = DOMAIN raw
        OBVIOUS
      <4>2. IsFiniteSet(S \cup {file.id})
            /\ \/ Cardinality(S \cup {file.id}) = Cardinality(S)
               \/ Cardinality(S \cup {file.id}) = Cardinality(S) + 1
        BY <1>5, <4>1, FS_AddElement
      <4> QED
        BY <3>1, <4>1, <4>2
    <3>5. Cardinality(DOMAIN raw') <= files'
      BY <1>2, <1>5, <3>4
    <3> QED
      BY <3>3, <3>4, <3>5 DEF Bounded
  <2> QED
    BY <2>1, <2>2 DEF LoadFile
<1>9. AllRight'
  BY <1>1 DEF AllRight
<1> QED
  BY <1>3, <1>4, <1>8, <1>9 DEF Merging

LEMMA MergingLoadRaises ==
  ASSUME IInv, Merging, LoadRaises PROVE Merging'
<1>1. /\ stack' = <<>> /\ Len(stack') = 0 /\ DOMAIN resolved' = {} /\ DOMAIN raw' = {}
  BY DEF IInv, NotYet, LoadRaises, NoTemplates
<1>2. files' \in Nat
  <2>1. files \in 0..MaxFiles /\ files' = files + 1
    BY DEF IInv, TypeOK, LoadRaises
  <2>2. MaxFiles \in Nat
    BY NamingTemplatesAssumption
  <2> QED
    BY <2>1, <2>2
<1>3. Stacked'
  <2>1. 1..Len(stack') = {} /\ 1..Len(stack') - 1 = {}
    BY <1>1
  <2> QED
    BY <2>1 DEF Stacked
<1>4. Answered' /\ AllRight' /\ Complete'
  BY <1>1 DEF Answered, AllRight, Complete
<1>5. IsFiniteSet({}) /\ Cardinality({}) = 0
  BY FS_EmptySet
<1>6. Bounded'
  BY <1>1, <1>2, <1>5 DEF Bounded
<1> QED
  BY <1>3, <1>4, <1>6 DEF Merging

\* The loop over the templates, and what follows it.
LEMMA MergingPhase ==
  ASSUME IInv, Merging, Loaded \/ Resolved \/ SetUpPlatform \/ UNCHANGED vars
  PROVE  Merging'
<1>1. UNCHANGED <<raw, stack, answer, resolved, files, order>>
  BY DEF Loaded, Resolved, SetUpPlatform, vars
<1>2. Bounded'
  BY <1>1 DEF Merging, Bounded
<1>3. ASSUME NEW id \in DOMAIN raw PROVE Awaited(id)' \/ id \in DOMAIN resolved \/ Dead(id)
  <2>1. Awaited(id) => Awaited(id)'
    <3>1. CASE Loaded
      BY <3>1 DEF Loaded, Awaited
    <3>2. CASE Resolved
      <4>1. stack = <<>> /\ order = <<>>
        BY <3>2 DEF Resolved
      <4>2. DOMAIN order = {}
        BY <4>1
      <4>3. Range(order) = {}
        BY <4>2, Zenon DEF Range
      <4> QED
        BY <4>1, <4>3 DEF Awaited
    <3>3. CASE SetUpPlatform
      BY <3>3 DEF SetUpPlatform, Awaited
    <3>4. CASE UNCHANGED vars
      BY <3>4 DEF vars, Awaited
    <3> QED
      BY <3>1, <3>2, <3>3, <3>4
  <2> QED
    BY <1>3, <2>1 DEF Merging, Complete
<1>4. Complete'
  <2>1. \A id : Dead(id)' <=> Dead(id)
    BY <1>1 DEF Dead, HasParent, Extends
  <2> QED
    BY <1>1, <1>3, <2>1 DEF Complete
<1> QED
  BY <1>1, <1>2, <1>4, IdleStep

LEMMA MergingNext ==
  ASSUME IInv, Merging, ResolveNext PROVE Merging'
<1>1. /\ order \in Seq(Ids) /\ order # <<>> /\ stack' = <<Head(order)>> /\ order' = Tail(order)
      /\ answer' = Calling /\ phase = "resolve" /\ stack = <<>>
      /\ UNCHANGED <<phase, raw, resolved, files>>
  BY DEF IInv, TypeOK, ResolveNext
<1>2. stack'[1] = Head(order) /\ Len(stack') = 1 /\ stack' # <<>>
  <2>1. PICK id : id = Head(order)
    OBVIOUS
  <2> QED
    BY <1>1, <2>1
<1>3. Stacked'
  <2>1. 1..Len(stack') = {1} /\ 1..Len(stack') - 1 = {} /\ ~(1 < Len(stack'))
    BY <1>2
  <2> QED
    BY <1>1, <2>1 DEF Stacked, Open
<1>4. Answered'
  BY <1>1 DEF Answered
<1>5. \A id : NeverResolved(id)' <=> NeverResolved(id)
  BY <1>1 DEF NeverResolved, Dead, HasParent, Extends
<1>6. AllRight'
  <2>1. \A id : Right(id)' <=> Right(id)
    <3> TAKE id
    <3>1. WithParent(id)' = WithParent(id)
      BY <1>1 DEF WithParent, HasParent, Extends
    <3>2. NeverResolved(Extends(id))' <=> NeverResolved(Extends(id))
      BY <1>1 DEF NeverResolved, Dead, HasParent, Extends
    <3> QED
      BY <1>1, <3>1, <3>2, SameFiles DEF Right
  <2> QED
    BY <1>1, <2>1 DEF Merging, AllRight
<1>7. Complete'
  <2>1. Range(order) = {Head(order)} \cup Range(Tail(order))
    BY <1>1, HeadTailRange
  <2>2. ASSUME NEW id \in DOMAIN raw, Awaited(id) PROVE Awaited(id)'
    BY <1>1, <1>2, <2>1, <2>2 DEF Awaited
  <2>3. \A id : Dead(id)' <=> Dead(id)
    BY <1>1 DEF Dead, HasParent, Extends
  <2> QED
    BY <1>1, <2>2, <2>3 DEF Merging, Complete
<1>8. Bounded'
  BY <1>1 DEF Merging, Bounded
<1> QED
  BY <1>3, <1>4, <1>6, <1>7, <1>8 DEF Merging

\* The call on top, and its caller.
LEMMA CallParts ==
  ASSUME IInv, Merging, stack # <<>>
  PROVE  /\ Len(stack) \in Nat \ {0}
         /\ Top = stack[Len(stack)]
         /\ Len(Front(stack)) = Len(stack) - 1
         /\ \A i \in 1..(Len(stack) - 1) : Front(stack)[i] = stack[i]
         /\ \A i \in 1..(Len(stack) - 1) : i \in 1..Len(stack) /\ i < Len(stack)
         /\ Seen = {stack[i] : i \in 1..(Len(stack) - 1)}
         /\ Top \notin Seen => \A i \in 1..(Len(stack) - 1) : stack[i] # Top
<1>1. stack \in Seq(Ids)
  BY DEF IInv, TypeOK
<1>2. /\ Len(stack) \in Nat \ {0}
      /\ Top = stack[Len(stack)]
      /\ Front(stack) \in Seq(Ids)
      /\ Len(Front(stack)) = Len(stack) - 1
      /\ \A i \in 1..Len(Front(stack)) : Front(stack)[i] = stack[i] /\ i < Len(stack)
  BY <1>1, StackParts DEF Top
<1>3. \A i \in 1..(Len(stack) - 1) : Front(stack)[i] = stack[i]
  BY <1>2
<1>4. \A i \in 1..(Len(stack) - 1) : i \in 1..Len(stack) /\ i < Len(stack)
  BY <1>2
<1>5. DOMAIN Front(stack) = 1..(Len(stack) - 1)
  BY <1>2
<1>6. Seen = {stack[i] : i \in 1..(Len(stack) - 1)}
  BY <1>3, <1>5 DEF Seen, Range
<1>7. Top \notin Seen => \A i \in 1..(Len(stack) - 1) : stack[i] # Top
  BY <1>6
<1> QED
  BY <1>2, <1>3, <1>4, <1>6, <1>7

\* The caller of a call that returns.
LEMMA Caller ==
  ASSUME IInv, Merging, stack # <<>>, stack' = Front(stack), raw' = raw, stack' # <<>>
  PROVE  /\ Len(stack) > 1
         /\ Top' = stack[Len(stack) - 1]
         /\ HasParent(Top)'
         /\ Extends(Top)' = Top
         /\ Exempt(Top)' <=> Exempt(stack[Len(stack) - 1])
<1>1. /\ Len(stack) \in Nat \ {0}
      /\ Top = stack[Len(stack)]
      /\ Len(stack') = Len(stack) - 1
      /\ \A i \in 1..(Len(stack) - 1) : stack'[i] = stack[i]
  BY CallParts
<1>2. stack' \in Seq(Ids)
  <2>1. stack \in Seq(Ids)
    BY DEF IInv, TypeOK
  <2> QED
    BY <2>1, StackParts
<1>3. Len(stack) > 1 /\ Len(stack) - 1 \in 1..(Len(stack) - 1)
  <2>1. Len(stack') # 0
    BY <1>2
  <2> QED
    BY <1>1, <2>1
<1>4. PICK child : child = stack[Len(stack) - 1]
  OBVIOUS
<1>5. Top' = child
  <2>1. Last(stack') = stack'[Len(stack) - 1]
    BY <1>1, <1>2, StackParts
  <2> QED
    BY <1>1, <1>3, <1>4, <2>1 DEF Top
<1>6. HasParent(child) /\ Extends(child) = Top
  <2>1. (Len(stack) - 1) + 1 = Len(stack)
    BY <1>1
  <2> QED
    BY <1>1, <1>3, <1>4, <2>1 DEF Merging, Stacked
<1>7. Extends(Top)' = Top
  BY <1>5, <1>6 DEF Extends
<1>8. HasParent(Top)'
  BY <1>5, <1>6 DEF HasParent, Extends
<1>9. \A n : Chains(n)' = Chains(n)
  BY DEF Chains, HasParent, Extends
<1>10. Exempt(Top)' <=> Exempt(child)
  BY <1>5, <1>9 DEF Exempt, InCycle, AtDepthLimit, Extends
<1> QED
  BY <1>3, <1>4, <1>5, <1>7, <1>8, <1>10

\* The calls below one that returns.
LEMMA StackedBelow ==
  ASSUME IInv, Merging, stack # <<>>, stack' = Front(stack), raw' = raw,
         \A i \in 1..(Len(stack) - 1) : stack[i] \notin DOMAIN resolved'
  PROVE  Stacked'
<1>1. /\ Len(stack) \in Nat \ {0}
      /\ Len(stack') = Len(stack) - 1
      /\ \A i \in 1..(Len(stack) - 1) : stack'[i] = stack[i]
      /\ \A i \in 1..(Len(stack) - 1) : i \in 1..Len(stack) /\ i < Len(stack)
  BY CallParts
<1>2. \A i \in 1..(Len(stack) - 1) : Open(i) /\ stack[i] \in DOMAIN raw
  BY <1>1 DEF Open, Merging, Stacked
<1>3. \A i \in 1..Len(stack') : stack'[i] \in DOMAIN raw' \ DOMAIN resolved'
  BY <1>1, <1>2
<1>4. ASSUME NEW i \in 1..Len(stack'), NEW j \in 1..Len(stack'), stack'[i] = stack'[j]
      PROVE  i = j
  BY <1>1, <1>2, <1>4 DEF Merging, Stacked
<1>5. ASSUME NEW i \in 1..Len(stack') - 1
      PROVE  HasParent(stack[i])' /\ Extends(stack[i])' = stack'[i + 1]
  <2>1. i \in 1..(Len(stack) - 1) /\ i + 1 \in 1..(Len(stack) - 1)
    BY <1>1
  <2>2. HasParent(stack[i]) /\ Extends(stack[i]) = stack[i + 1]
    BY <2>1 DEF Merging, Stacked
  <2>3. stack'[i] = stack[i] /\ stack'[i + 1] = stack[i + 1]
    BY <1>1, <2>1
  <2> QED
    BY <2>2, <2>3 DEF HasParent, Extends
<1> QED
  BY <1>3, <1>4, <1>5 DEF Stacked

\* What no step but Apply changes.
LEMMA ResolvedStays ==
  ASSUME IInv, Merging, raw' = raw, resolved' = resolved, files' = files
  PROVE  /\ \A id : NeverResolved(id)' <=> NeverResolved(id)
         /\ \A id : Dead(id)' <=> Dead(id)
         /\ AllRight'
         /\ Bounded'
<1>1. \A id : Dead(id)' <=> Dead(id)
  BY DEF Dead, HasParent, Extends
<1>2. \A id : NeverResolved(id)' <=> NeverResolved(id)
  BY <1>1 DEF NeverResolved
<1>3. \A id : Right(id)' <=> Right(id)
  <2> TAKE id
  <2>1. WithParent(id)' = WithParent(id)
    BY DEF WithParent, HasParent, Extends
  <2>2. NeverResolved(Extends(id))' <=> NeverResolved(Extends(id))
    BY DEF NeverResolved, Dead, HasParent, Extends
  <2> QED
    BY <2>1, <2>2, SameFiles DEF Right
<1>4. AllRight' /\ Bounded'
  BY <1>3 DEF Merging, AllRight, Bounded
<1> QED
  BY <1>1, <1>2, <1>4

LEMMA MergingReturn ==
  ASSUME IInv, Merging, Return PROVE Merging'
<1>1. /\ phase = "resolve" /\ stack # <<>> /\ answer = Calling
      /\ stack' = Front(stack)
      /\ UNCHANGED <<phase, files, raw, order, resolved>>
  BY DEF Return
<1>2. /\ Len(stack) \in Nat \ {0}
      /\ Top = stack[Len(stack)]
      /\ Len(stack') = Len(stack) - 1
      /\ \A i \in 1..(Len(stack) - 1) : stack'[i] = stack[i]
      /\ \A i \in 1..(Len(stack) - 1) : i \in 1..Len(stack) /\ i < Len(stack)
      /\ Seen = {stack[i] : i \in 1..(Len(stack) - 1)}
  BY <1>1, CallParts
<1>3. Stacked'
  <2>1. \A i \in 1..(Len(stack) - 1) : stack[i] \notin DOMAIN resolved'
    BY <1>1, <1>2 DEF Merging, Stacked, Open
  <2> QED
    BY <1>1, <2>1, StackedBelow
<1>4. /\ \A id : NeverResolved(id)' <=> NeverResolved(id)
      /\ \A id : Dead(id)' <=> Dead(id)
      /\ AllRight'
      /\ Bounded'
  BY <1>1, ResolvedStays
<1>5. Answered'
  <2> SUFFICES ASSUME stack' # <<>> PROVE Answered'
    BY DEF Answered
  <2>1. PICK child : child = stack[Len(stack) - 1]
    OBVIOUS
  <2>2. /\ Len(stack) > 1
        /\ HasParent(Top)'
        /\ Extends(Top)' = Top
        /\ Exempt(Top)' <=> Exempt(child)
    BY <1>1, <2>1, Caller
  <2>3. PICK top : top = Top
    OBVIOUS
  <2>4. NeverResolved(Extends(Top))' <=> NeverResolved(top)
    BY <1>1, <2>2, <2>3 DEF NeverResolved, Dead, HasParent, Extends
  <2>5. CASE top \in DOMAIN resolved /\ answer' = resolved[top]
    <3>1. answer' # Nothing
      BY <2>5, NamingTemplatesAssumption DEF IInv, TypeOK
    <3> QED
      BY <1>1, <2>2, <2>3, <2>5, <3>1 DEF Answered
  <2>6. CASE top \notin DOMAIN resolved /\ Refused /\ answer' = Nothing
    <3>1. Top \notin DOMAIN raw \/ Exempt(child)
      BY <1>1, <2>1, <2>2, <2>6, RefusedParent
    <3>2. NeverResolved(top) \/ Exempt(child)
      BY <2>3, <3>1 DEF NeverResolved
    <3> QED
      BY <1>1, <2>2, <2>3, <2>4, <2>6, <3>2 DEF Answered
  <2> QED
    BY <2>3, <2>5, <2>6 DEF Return, Remembered
<1>6. Complete'
  <2>1. ASSUME NEW id \in DOMAIN raw, Awaited(id)
        PROVE  Awaited(id)' \/ id \in DOMAIN resolved
    <3>1. CASE Len(stack) = 1
      <4>1. Seen = {} /\ ~(Len(stack) > MaxInheritanceDepth)
        <5>1. 1..(Len(stack) - 1) = {}
          BY <3>1
        <5>2. Seen = {}
          BY <1>2, <5>1
        <5> QED
          BY <3>1, <5>2, NamingTemplatesAssumption
      <4>2. CASE id = stack[1]
        <5>1. id = Top
          BY <1>2, <3>1, <4>2
        <5> QED
          BY <2>1, <4>1, <5>1 DEF Return, Remembered, Refused, NotThere
      <4>3. CASE id # stack[1]
        BY <1>1, <2>1, <4>3 DEF Awaited
      <4> QED
        BY <4>2, <4>3
    <3>2. CASE Len(stack) # 1
      <4>1. stack'[1] = stack[1] /\ Len(stack') # 0
        <5>1. 1 \in 1..(Len(stack) - 1)
          BY <1>2, <3>2
        <5> QED
          BY <1>2, <5>1, <3>2
      <4>2. stack' # <<>>
        BY <4>1
      <4> QED
        BY <1>1, <2>1, <4>1, <4>2 DEF Awaited
    <3> QED
      BY <3>1, <3>2
  <2> QED
    BY <1>1, <1>4, <2>1 DEF Merging, Complete
<1> QED
  BY <1>3, <1>4, <1>5, <1>6 DEF Merging

LEMMA MergingCall ==
  ASSUME IInv, Merging, CallParent PROVE Merging'
<1>1. /\ stack # <<>> /\ answer = Calling /\ answer' = Calling
      /\ ~Remembered /\ ~Refused /\ HasParent(Top)
      /\ stack' = Append(stack, Extends(Top))
      /\ UNCHANGED <<phase, files, raw, order, resolved>>
  BY DEF CallParent
<1>2. /\ Len(stack) \in Nat \ {0}
      /\ Top = stack[Len(stack)]
      /\ \A i \in 1..(Len(stack) - 1) : i \in 1..Len(stack) /\ i < Len(stack)
      /\ \A i \in 1..(Len(stack) - 1) : stack[i] # Top
  BY <1>1, CallParts DEF Refused, NotThere
<1>3. Top \in DOMAIN raw \ DOMAIN resolved
  BY <1>1 DEF Refused, NotThere, Remembered
<1>4. PICK parent : parent = Extends(Top)
  OBVIOUS
<1>5. /\ Len(stack') = Len(stack) + 1
      /\ stack'[Len(stack) + 1] = parent
      /\ \A i \in 1..Len(stack) : stack'[i] = stack[i]
      /\ stack' # <<>>
  <2>1. stack \in Seq(Ids) /\ parent \in Ids
    BY <1>1, <1>3, <1>4 DEF IInv, TypeOK, HasParent, Extends, Templates
  <2>2. stack' = Append(stack, parent)
    BY <1>1, <1>4
  <2> QED
    BY <2>1, <2>2
<1>6. \A i \in 1..Len(stack) :
        /\ i = Len(stack) \/ i \in 1..(Len(stack) - 1)
        /\ stack[i] \in DOMAIN raw \ DOMAIN resolved
  <2> TAKE i \in 1..Len(stack)
  <2>1. i = Len(stack) \/ i \in 1..(Len(stack) - 1)
    BY <1>2
  <2> QED
    BY <1>2, <1>3, <2>1 DEF Merging, Stacked, Open
<1>7. ASSUME NEW i \in 1..Len(stack), NEW j \in 1..Len(stack), stack[i] = stack[j]
      PROVE  i = j
  <2>1. CASE i = Len(stack) \/ j = Len(stack)
    BY <1>2, <1>6, <1>7, <2>1
  <2>2. CASE i \in 1..(Len(stack) - 1) /\ j \in 1..(Len(stack) - 1)
    BY <1>2, <1>7, <2>2 DEF Merging, Stacked, Open
  <2> QED
    BY <1>6, <2>1, <2>2
<1>8. Stacked'
  <2>1. \A i \in 1..Len(stack') : Open(i)' => i \in 1..Len(stack)
    BY <1>1, <1>2, <1>5 DEF Open
  <2>2. \A i \in 1..Len(stack') : Open(i)' => stack'[i] \in DOMAIN raw' \ DOMAIN resolved'
    BY <1>1, <1>5, <1>6, <2>1
  <2>3. \A i, j \in 1..Len(stack') : Open(i)' /\ Open(j)' /\ stack'[i] = stack'[j] => i = j
    BY <1>5, <1>7, <2>1
  <2>4. ASSUME NEW i \in 1..Len(stack') - 1
        PROVE  HasParent(stack[i])' /\ Extends(stack[i])' = stack'[i + 1]
    <3>1. i \in 1..Len(stack) /\ stack'[i] = stack[i]
      BY <1>2, <1>5
    <3>2. PICK id : id = stack[i]
      OBVIOUS
    <3>3. HasParent(id) /\ Extends(id) = stack'[i + 1]
      <4>1. CASE i = Len(stack)
        BY <1>1, <1>2, <1>4, <1>5, <3>2, <4>1
      <4>2. CASE i \in 1..(Len(stack) - 1)
        <5>1. i + 1 \in 1..Len(stack)
          BY <1>2, <4>2
        <5> QED
          BY <1>5, <3>2, <4>2, <5>1 DEF Merging, Stacked
      <4> QED
        BY <1>6, <3>1, <4>1, <4>2
    <3> QED
      BY <1>1, <3>1, <3>2, <3>3 DEF HasParent, Extends
  <2> QED
    BY <2>2, <2>3, <2>4 DEF Stacked
<1>9. Answered'
  BY <1>1 DEF Answered
<1>10. /\ \A id : Dead(id)' <=> Dead(id)
       /\ AllRight'
       /\ Bounded'
  BY <1>1, ResolvedStays
<1>11. Complete'
  <2>1. stack'[1] = stack[1]
    <3>1. 1 \in 1..Len(stack)
      BY <1>2
    <3> QED
      BY <1>5, <3>1
  <2>2. ASSUME NEW id \in DOMAIN raw, Awaited(id) PROVE Awaited(id)'
    BY <1>1, <1>5, <2>1, <2>2 DEF Awaited
  <2> QED
    BY <1>1, <1>10, <2>2 DEF Merging, Complete
<1> QED
  BY <1>8, <1>9, <1>10, <1>11 DEF Merging

\* What a call of Apply knows: the template is merged with what its parent has
\* resolved to, and there is a base only if the parent has resolved.
LEMMA AppliedMerge ==
  ASSUME IInv, Merging, Apply
  PROVE  /\ stack # <<>> /\ Top \in DOMAIN raw \ DOMAIN resolved
         /\ \A i \in 1..(Len(stack) - 1) : stack[i] # Top
         /\ WithParent(Top) \in Templates
         /\ IF Valid(WithParent(Top))
            THEN resolved' = Bound(resolved, Top, WithParent(Top)) /\ answer' = WithParent(Top)
            ELSE resolved' = resolved /\ answer' = Nothing
         /\ ~Valid(WithParent(Top)) => Dead(Top)
         /\ HasParent(Top) =>
              \/ Extends(Top) \in DOMAIN resolved
              \/ NeverResolved(Extends(Top))
              \/ Exempt(Top)
<1> DEFINE base == IF answer \in {Calling, Nothing} THEN Empty ELSE answer
<1>1. stack # <<>>
  BY DEF Apply
<1>2. /\ Len(stack) \in Nat \ {0}
      /\ Top = stack[Len(stack)]
      /\ \A i \in 1..(Len(stack) - 1) : i \in 1..Len(stack) /\ i < Len(stack)
      /\ Top \notin Seen => \A i \in 1..(Len(stack) - 1) : stack[i] # Top
  BY <1>1, CallParts
<1>3. Len(stack) \in 1..Len(stack)
  BY <1>2
<1>4. Top \in DOMAIN raw \ DOMAIN resolved
  <2>1. CASE answer = Calling
    BY <2>1 DEF Apply, Remembered, Refused, NotThere
  <2>2. CASE answer # Calling
    BY <1>2, <1>3, <2>2 DEF Merging, Stacked, Open
  <2> QED
    BY <2>1, <2>2
<1>5. ASSUME NEW i \in 1..(Len(stack) - 1) PROVE stack[i] # Top
  <2>1. CASE answer = Calling
    BY <1>2, <1>5, <2>1 DEF Apply, Refused, NotThere
  <2>2. CASE answer # Calling
    <3>1. i \in 1..Len(stack) /\ i # Len(stack)
      BY <1>2
    <3> QED
      BY <1>2, <1>3, <2>2, <3>1 DEF Merging, Stacked, Open
  <2> QED
    BY <2>1, <2>2
<1>6. /\ {Calling, Nothing} \cap Templates = {}
      /\ raw[Top] \in Templates
      /\ Valid(Merged(Empty, raw[Top]))
      /\ \A id \in DOMAIN resolved : resolved[id] \in Templates
  <2>1. raw[Top] \in Templates /\ \A id \in DOMAIN resolved : resolved[id] \in Templates
    BY <1>4 DEF IInv, TypeOK
  <2>2. Valid(raw[Top])
    BY <1>4 DEF IInv, Checked
  <2> QED
    BY <2>1, <2>2, MergedWithEmpty, NamingTemplatesAssumption
<1>7. CASE answer = Calling
  <2>1. ~HasParent(Top) /\ base = Empty
    BY <1>7 DEF Apply
  <2> QED
    BY <1>1, <1>4, <1>5, <1>6, <2>1, EmptyIsTemplate, MergedIsTemplate
    DEF Apply, WithParent
<1>8. CASE answer = Nothing
  <2>1. /\ base = Empty
        /\ Extends(Top) \notin DOMAIN resolved
        /\ NeverResolved(Extends(Top)) \/ Exempt(Top)
    BY <1>1, <1>8, NamingTemplatesAssumption DEF Merging, Answered
  <2>2. WithParent(Top) = Merged(base, raw[Top])
    BY <2>1 DEF WithParent
  <2> QED
    BY <1>1, <1>4, <1>5, <1>6, <2>1, <2>2, EmptyIsTemplate, MergedIsTemplate DEF Apply
<1>9. CASE answer \notin {Calling, Nothing}
  <2>1. /\ base = answer
        /\ HasParent(Top) /\ Extends(Top) \in DOMAIN resolved
        /\ answer = resolved[Extends(Top)]
    BY <1>1, <1>9 DEF Merging, Answered
  <2>2. WithParent(Top) = Merged(base, raw[Top])
    BY <2>1 DEF WithParent
  <2>3. WithParent(Top) \in Templates
    BY <1>6, <2>1, <2>2, MergedIsTemplate
  <2>4. ~Valid(WithParent(Top)) => Dead(Top)
    BY <1>4, <2>1, <2>2 DEF Dead
  <2>5. IF Valid(WithParent(Top))
        THEN resolved' = Bound(resolved, Top, WithParent(Top)) /\ answer' = WithParent(Top)
        ELSE resolved' = resolved /\ answer' = Nothing
    BY <2>2 DEF Apply
  <2> QED
    BY <1>1, <1>4, <1>5, <2>1, <2>3, <2>4, <2>5
<1> QED
  BY <1>7, <1>8, <1>9

LEMMA MergingApply ==
  ASSUME IInv, Merging, Apply PROVE Merging'
<1>1. /\ stack # <<>> /\ stack' = Front(stack) /\ phase = "resolve"
      /\ UNCHANGED <<phase, files, raw, order>>
  BY DEF Apply
<1>2. PICK top, merged : top = Top /\ merged = WithParent(top)
  OBVIOUS
<1>3. /\ top \in DOMAIN raw \ DOMAIN resolved
      /\ \A i \in 1..(Len(stack) - 1) : stack[i] # top
      /\ merged \in Templates
      /\ IF Valid(merged)
         THEN resolved' = Bound(resolved, top, merged) /\ answer' = merged
         ELSE resolved' = resolved /\ answer' = Nothing
      /\ ~Valid(merged) => Dead(top)
      /\ HasParent(top) => \/ Extends(top) \in DOMAIN resolved
                           \/ NeverResolved(Extends(top))
                           \/ Exempt(top)
  BY <1>2, AppliedMerge
<1>4. /\ Len(stack) \in Nat \ {0}
      /\ top = stack[Len(stack)]
      /\ Len(stack') = Len(stack) - 1
      /\ \A i \in 1..(Len(stack) - 1) : stack'[i] = stack[i]
      /\ \A i \in 1..(Len(stack) - 1) : i \in 1..Len(stack) /\ i < Len(stack)
  BY <1>1, <1>2, CallParts
<1>5. /\ DOMAIN resolved' = IF Valid(merged) THEN DOMAIN resolved \cup {top}
                                            ELSE DOMAIN resolved
      /\ \A id \in DOMAIN resolved : resolved'[id] = resolved[id]
      /\ Valid(merged) => resolved'[top] = merged
  BY <1>3 DEF Bound
<1>6. Valid(merged) => ~Dead(top)
  BY <1>2 DEF Dead, WithParent
<1>7. ASSUME NEW id, NeverResolved(id) PROVE NeverResolved(id)'
  <2>1. CASE id \notin DOMAIN raw
    BY <1>1, <2>1 DEF NeverResolved
  <2>2. CASE Dead(id)
    <3>1. id \notin DOMAIN resolved'
      BY <1>5, <1>6, <2>2 DEF Dead
    <3> QED
      BY <1>1, <1>5, <2>2, <3>1, DeadStays DEF NeverResolved
  <2> QED
    BY <1>7, <2>1, <2>2 DEF NeverResolved
<1>8. Stacked'
  <2>1. ASSUME NEW i \in 1..(Len(stack) - 1) PROVE stack[i] \notin DOMAIN resolved'
    BY <1>3, <1>4, <1>5 DEF Merging, Stacked, Open
  <2> QED
    BY <1>1, <2>1, StackedBelow
<1>9. Answered'
  <2> SUFFICES ASSUME stack' # <<>> PROVE Answered'
    BY DEF Answered
  <2>1. HasParent(Top)' /\ Extends(Top)' = top
    BY <1>1, <1>2, Caller
  <2>2. CASE Valid(merged)
    <3>1. answer' # Nothing
      BY <1>3, <2>2, NamingTemplatesAssumption
    <3> QED
      BY <1>3, <1>5, <2>1, <2>2, <3>1 DEF Answered
  <2>3. CASE ~Valid(merged)
    <3>1. NeverResolved(top)'
      BY <1>3, <1>7, <2>3 DEF NeverResolved
    <3>2. NeverResolved(Extends(Top))'
      BY <1>1, <2>1, <3>1 DEF NeverResolved, Dead, HasParent, Extends
    <3> QED
      BY <1>3, <1>5, <2>1, <2>3, <3>2 DEF Answered
  <2> QED
    BY <2>2, <2>3
<1>10. ASSUME NEW id \in DOMAIN resolved' PROVE Right(id)'
  <2>1. PICK parent : parent = Extends(id)
    OBVIOUS
  <2>2. Extends(id)' = parent /\ (HasParent(id)' <=> HasParent(id)) /\ (Exempt(id)' <=> Exempt(id))
    BY <1>1, <2>1, SameFiles
  <2>3. HasParent(id) => parent # id
    BY <2>1 DEF HasParent
  <2>4. id \in DOMAIN raw
    BY <1>3, <1>5 DEF IInv, TypeOK
  <2>5. ASSUME HasParent(id) => parent \in DOMAIN resolved \/ NeverResolved(parent)
        PROVE  /\ HasParent(id)' => Extends(id)' \in DOMAIN resolved' \/ NeverResolved(Extends(id))'
               /\ WithParent(id)' = WithParent(id)
    <3>1. NeverResolved(parent) => NeverResolved(parent)' /\ parent \notin DOMAIN resolved'
                                   /\ parent \notin DOMAIN resolved
      <4>1. ASSUME NeverResolved(parent) PROVE NeverResolved(parent)'
        BY <1>7, <4>1
      <4>2. NeverResolved(parent)' => parent \notin DOMAIN resolved'
        BY <1>1, <1>3, <1>5 DEF NeverResolved, Dead, IInv, TypeOK
      <4>3. NeverResolved(parent) => parent \notin DOMAIN resolved
        BY DEF NeverResolved, Dead, IInv, TypeOK
      <4> QED
        BY <4>1, <4>2, <4>3
    <3>2. parent \in DOMAIN resolved =>
            parent \in DOMAIN resolved' /\ resolved'[parent] = resolved[parent]
      BY <1>5
    <3>3. NeverResolved(Extends(id))' <=> NeverResolved(parent)'
      BY <2>2 DEF NeverResolved, Dead, HasParent, Extends
    <3>4. WithParent(id)' = WithParent(id)
      BY <1>1, <2>1, <2>2, <2>5, <3>1, <3>2 DEF WithParent
    <3> QED
      BY <2>2, <2>5, <3>1, <3>2, <3>3, <3>4
  <2>6. CASE id = top /\ Valid(merged)
    <3>1. CASE Exempt(id)
      BY <2>2, <3>1 DEF Right
    <3>2. CASE ~Exempt(id)
      <4>1. HasParent(id) => parent \in DOMAIN resolved \/ NeverResolved(parent)
        BY <1>3, <2>1, <2>6, <3>2
      <4>2. resolved'[id] = WithParent(id)
        BY <1>2, <1>5, <2>6
      <4> QED
        BY <2>5, <4>1, <4>2 DEF Right
    <3> QED
      BY <3>1, <3>2
  <2>7. CASE id \in DOMAIN resolved
    <3>1. Right(id) /\ resolved'[id] = resolved[id]
      BY <1>5, <2>7 DEF Merging, AllRight
    <3>2. CASE Exempt(id)
      BY <2>2, <3>2 DEF Right
    <3>3. CASE ~Exempt(id)
      <4>1. /\ resolved[id] = WithParent(id)
            /\ HasParent(id) => parent \in DOMAIN resolved \/ NeverResolved(parent)
        BY <2>1, <3>1, <3>3 DEF Right
      <4> QED
        BY <2>5, <3>1, <4>1 DEF Right
    <3> QED
      BY <3>2, <3>3
  <2> QED
    BY <1>5, <2>6, <2>7
<1>11. Complete'
  <2>1. ASSUME NEW id \in DOMAIN raw, Dead(id)
        PROVE  id \in DOMAIN resolved' \/ Dead(id)'
    BY <1>1, <1>5, <2>1, DeadStays
  <2>2. ASSUME NEW id \in DOMAIN raw, Awaited(id)
        PROVE  Awaited(id)' \/ id \in DOMAIN resolved' \/ Dead(id)
    <3>1. CASE Len(stack) = 1
      <4>1. CASE id = stack[1]
        BY <1>3, <1>4, <1>5, <3>1, <4>1
      <4>2. CASE id # stack[1]
        BY <1>1, <2>2, <4>2 DEF Awaited
      <4> QED
        BY <4>1, <4>2
    <3>2. CASE Len(stack) # 1
      <4>1. stack'[1] = stack[1] /\ Len(stack') # 0
        <5>1. 1 \in 1..(Len(stack) - 1)
          BY <1>4, <3>2
        <5> QED
          BY <1>4, <5>1, <3>2
      <4>2. stack' # <<>>
        BY <4>1
      <4> QED
        BY <1>1, <2>2, <4>1, <4>2 DEF Awaited
    <3> QED
      BY <3>1, <3>2
  <2>3. ASSUME NEW id \in DOMAIN raw PROVE Awaited(id)' \/ id \in DOMAIN resolved' \/ Dead(id)'
    BY <1>5, <2>1, <2>2 DEF Merging, Complete
  <2> QED
    BY <1>1, <2>3 DEF Complete
<1>12. Bounded'
  BY <1>1 DEF Merging, Bounded
<1>13. AllRight'
  BY <1>10 DEF AllRight
<1> QED
  BY <1>8, <1>9, <1>11, <1>12, <1>13 DEF Merging

LEMMA MergingStep == IInv /\ Merging /\ [Next]_vars => Merging'
BY MergingLoadFile, MergingLoadRaises, MergingPhase, MergingNext, MergingReturn, MergingCall,
   MergingApply DEF Next

\* Every template of the directory is its file merged with all that it extends, and
\* is left out if that is not valid, whatever the order in which the files were read
\* and whichever template it was first resolved for, but in a cycle and at the limit
\* of the depth (naming_template.py:212-241).
THEOREM TemplatesMerged == Spec => []MergedWithParent
<1>1. IInv /\ Merging => MergedWithParent
  <2> SUFFICES ASSUME IInv, Merging, phase = "set up", NEW id \in DOMAIN raw, ~Exempt(id)
               PROVE  IF Valid(WithParent(id))
                      THEN id \in DOMAIN resolved /\ resolved[id] = WithParent(id)
                      ELSE id \notin DOMAIN resolved
    BY Zenon DEF MergedWithParent, Exempt
  <2>1. id \in DOMAIN resolved \/ Dead(id)
    BY DEF Merging, Complete, Awaited
  <2>2. CASE id \in DOMAIN resolved
    BY <2>2 DEF Merging, AllRight, Right, IInv, Checked
  <2>3. CASE Dead(id)
    BY <2>3 DEF Dead, WithParent
  <2> QED
    BY <2>1, <2>2, <2>3
<1>2. Spec => []Merging
  BY MergingInit, MergingStep, Invariance, PTL DEF Spec
<1> QED
  BY <1>1, <1>2, Invariance, PTL
=============================================================================
