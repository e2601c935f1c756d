-------------------------- MODULE PanelClientProofs --------------------------
(***************************************************************************)
(* Proofs about PanelClient: its types, and that an older list never       *)
(* replaces a newer one on the screen, for any number of writes,           *)
(* subscriptions, faults and messages on the way.                          *)
(***************************************************************************)
EXTENDS PanelClient, FiniteSetTheorems, SequenceTheorems, TLAPS

-----------------------------------------------------------------------------
(* Types.                                                                  *)

LEMMA Initialised == Init => TypeOK
<1>1. 0 \in Nat /\ <<>> \in Seq(Requests) /\ <<>> \in Seq(Messages)
  BY EmptySeq
<1>2. QED
  BY <1>1 DEF Init, TypeOK

\* What is asked and told is a request and a message.
LEMMA AskedTyped ==
    /\ Asked("fetch", None) \in Requests /\ Asked("write", None) \in Requests
    /\ \A id \in Ids : /\ Asked("subscribe", id) \in Requests
                       /\ Asked("unsubscribe", id) \in Requests
  BY DEF Asked, Requests

LEMMA ToldTyped ==
    \A list \in Nat :
        /\ Told("fetched", None, list) \in Messages
        /\ Told("fetch refused", None, list) \in Messages
        /\ Told("written", None, list) \in Messages
        /\ Told("write refused", None, list) \in Messages
        /\ \A id \in Ids : /\ Told("subscribed", id, list) \in Messages
                           /\ Told("subscribe refused", id, list) \in Messages
                           /\ Told("unsubscribed", id, list) \in Messages
                           /\ Told("event", id, list) \in Messages
  BY DEF Told, Messages

LEMMA SendTyped ==
    ASSUME down \in Seq(Messages), NEW messages \in Seq(Messages), Send(messages)
    PROVE  down' \in Seq(Messages)
  BY ConcatProperties DEF Send

LEMMA TuplesTyped ==
    ASSUME NEW first \in Messages, NEW second \in Messages
    PROVE  <<first>> \in Seq(Messages) /\ <<first, second>> \in Seq(Messages)
  OBVIOUS

LEMMA RequestTyped ==
    ASSUME up \in Seq(Requests), NEW type, Request(type)
    PROVE  up' \in Seq(Requests) /\ Head(up) \in Requests /\ Head(up).type = type
  BY HeadTailProperties DEF Request

LEMMA FaultyTyped == faults \in Nat /\ Faulty => faults' \in Nat
  BY SMT DEF Faulty

LEMMA GetSubentriesTyped == TypeOK /\ GetSubentries => TypeOK'
<1>1. SUFFICES ASSUME TypeOK, GetSubentries PROVE TypeOK'
  OBVIOUS
<1>2. /\ version \in Nat /\ BuildSubentries \in Nat /\ down \in Seq(Messages)
      /\ up \in Seq(Requests) /\ faults \in Nat
  BY <1>1 DEF TypeOK, BuildSubentries
<1>3. up' \in Seq(Requests)
  BY <1>1, <1>2, RequestTyped DEF GetSubentries
<1>4. down' \in Seq(Messages)
  BY <1>1, <1>2, ToldTyped, TuplesTyped, SendTyped DEF GetSubentries
<1>5. faults' \in Nat
  BY <1>1, <1>2, FaultyTyped DEF GetSubentries
<1>6. QED
  BY <1>1, <1>3, <1>4, <1>5 DEF GetSubentries, TypeOK, entryVars, kept, element, storeVars

LEMMA SubscribeTyped == TypeOK /\ Subscribe => TypeOK'
<1>1. SUFFICES ASSUME TypeOK, Subscribe PROVE TypeOK'
  OBVIOUS
<1> DEFINE id == Head(up).id
<1>2. /\ version \in Nat /\ BuildSubentries \in Nat /\ down \in Seq(Messages)
      /\ up \in Seq(Requests) /\ faults \in Nat
  BY <1>1 DEF TypeOK, BuildSubentries
<1>3. up' \in Seq(Requests) /\ id \in Ids
  <2>1. up' \in Seq(Requests) /\ Head(up) \in Requests /\ Head(up).type = "subscribe"
    BY <1>1, <1>2, RequestTyped DEF Subscribe
  <2>2. QED
    BY <2>1 DEF Requests
<1>4. down' \in Seq(Messages)
  <2>1. /\ <<Told("subscribed", id, version), Told("event", id, BuildSubentries)>> \in Seq(Messages)
        /\ <<Told("subscribe refused", id, version)>> \in Seq(Messages)
    BY <1>2, <1>3, ToldTyped, TuplesTyped
  <2>2. QED
    BY <1>1, <1>2, <2>1, SendTyped DEF Subscribe
<1>5. faults' \in Nat
  BY <1>1, <1>2, FaultyTyped DEF Subscribe
<1>6. Listening(id) \subseteq [id : Ids, of : Nat]
  <2>1. CASE coordinator = None
    BY <2>1 DEF Listening
  <2>2. CASE coordinator # None
    <3>1. coordinator \in Nat
      BY <1>1, <2>2 DEF TypeOK
    <3>2. QED
      BY <1>3, <2>2, <3>1 DEF Listening
  <2>3. QED
    BY <2>1, <2>2
<1>7. listeners' \subseteq [id : Ids, of : Nat]
  BY <1>1, <1>6 DEF Subscribe, TypeOK
<1>8. QED
  BY <1>1, <1>3, <1>4, <1>5, <1>7 DEF Subscribe, TypeOK, entryVars, kept, element, storeVars

LEMMA UnsubscribeTyped == TypeOK /\ Unsubscribe => TypeOK'
<1>1. SUFFICES ASSUME TypeOK, Unsubscribe PROVE TypeOK'
  OBVIOUS
<1> DEFINE id == Head(up).id
<1>2. version \in Nat /\ down \in Seq(Messages) /\ up \in Seq(Requests)
  BY <1>1 DEF TypeOK
<1>3. up' \in Seq(Requests) /\ id \in Ids
  <2>1. up' \in Seq(Requests) /\ Head(up) \in Requests /\ Head(up).type = "unsubscribe"
    BY <1>1, <1>2, RequestTyped DEF Unsubscribe
  <2>2. QED
    BY <2>1 DEF Requests
<1>4. down' \in Seq(Messages)
  <2>1. <<Told("unsubscribed", id, version)>> \in Seq(Messages)
    BY <1>2, <1>3, ToldTyped, TuplesTyped
  <2>2. QED
    BY <1>1, <1>2, <2>1, SendTyped DEF Unsubscribe
<1>5. listeners' \subseteq [id : Ids, of : Nat]
  BY <1>1 DEF Unsubscribe, TypeOK
<1>6. QED
  BY <1>1, <1>3, <1>4, <1>5 DEF Unsubscribe, TypeOK, entryVars, kept, element, storeVars

LEMMA WriteTyped == TypeOK /\ Write => TypeOK'
<1>1. SUFFICES ASSUME TypeOK, Write PROVE TypeOK'
  OBVIOUS
<1>2. /\ version \in Nat /\ version + 1 \in Nat /\ down \in Seq(Messages)
      /\ up \in Seq(Requests) /\ faults \in Nat
  BY <1>1, SMT DEF TypeOK
<1>3. up' \in Seq(Requests)
  BY <1>1, <1>2, RequestTyped DEF Write
<1>6. version' \in Nat /\ reload' \in BOOLEAN /\ UNCHANGED <<coordinator, made>>
  BY <1>1, <1>2 DEF Write, Written, entryVars, TypeOK
<1>4. down' \in Seq(Messages)
  BY <1>1, <1>2, <1>6, ToldTyped, TuplesTyped, SendTyped DEF Write
<1>5. faults' \in Nat
  BY <1>1, <1>2, FaultyTyped DEF Write
<1>7. QED
  BY <1>1, <1>3, <1>4, <1>5, <1>6 DEF Write, TypeOK, kept, element, storeVars

\* A batch, what is left of the queue, and the messages of one type in it.
LEMMA BatchProperties ==
    ASSUME down \in Seq(Messages), NEW n \in 1..Len(down)
    PROVE  /\ n \in Nat
           /\ DOMAIN SubSeq(down, 1, n) = 1..n
           /\ \A i \in 1..n : SubSeq(down, 1, n)[i] = down[i] /\ i \in DOMAIN down
           /\ SubSeq(down, n + 1, Len(down)) \in Seq(Messages)
           /\ Len(SubSeq(down, n + 1, Len(down))) = Len(down) - n
           /\ \A i \in 1..(Len(down) - n) :
                /\ SubSeq(down, n + 1, Len(down))[i] = down[n + i]
                /\ n + i \in DOMAIN down
<1>1. Len(down) \in Nat /\ DOMAIN down = 1..Len(down)
  BY LenProperties
<1>2. n \in Nat /\ n \in Int /\ 1 \in Int /\ n + 1 \in Int /\ Len(down) \in Int
  BY <1>1, SMT
<1>3. /\ Len(SubSeq(down, 1, n)) = n
      /\ \A i \in 1..n : SubSeq(down, 1, n)[i] = down[i] /\ i \in DOMAIN down
  BY <1>1, <1>2, SubSeqProperties, SMT
<1>4. SubSeq(down, 1, n) \in Seq(Messages)
  BY <1>1, <1>2, SubSeqProperties, SMT
<1>5. DOMAIN SubSeq(down, 1, n) = 1..n
  BY <1>3, <1>4, LenProperties
<1> DEFINE rest == SubSeq(down, n + 1, Len(down))
<1>6. \A i \in (n + 1)..Len(down) : down[i] \in Messages
  BY <1>1, <1>2, LenProperties, SMT
<1>7. /\ rest \in Seq(Messages)
      /\ Len(rest) = IF n + 1 <= Len(down) THEN Len(down) - (n + 1) + 1 ELSE 0
      /\ \A i \in 1..(Len(down) - (n + 1) + 1) : rest[i] = down[(n + 1) + i - 1]
  <2>1. /\ n + 1 \in Int /\ Len(down) \in Int
        /\ \A i \in (n + 1)..Len(down) : down[i] \in Messages
    BY <1>2, <1>6
  <2> HIDE DEF rest
  <2>2. QED
    BY <2>1, SubSeqProperties DEF rest
<1> HIDE DEF rest
<1>8. Len(rest) = Len(down) - n
  <2>1. n <= Len(down) /\ Len(down) \in Int /\ n \in Int
    BY <1>1, <1>2, SMT
  <2>2. Len(rest) = IF n + 1 <= Len(down) THEN Len(down) - (n + 1) + 1 ELSE 0
    BY <1>7
  <2> DEFINE length == Len(rest)
             waiting == Len(down)
  <2>3. n <= waiting /\ waiting \in Int /\ n \in Int
        /\ length = IF n + 1 <= waiting THEN waiting - (n + 1) + 1 ELSE 0
    BY <2>1, <2>2
  <2> HIDE DEF length, waiting
  <2>4. length = waiting - n
    BY <2>3, SMT
  <2>5. QED
    BY <2>4 DEF length, waiting
<1>9. ASSUME NEW i \in 1..(Len(down) - n)
      PROVE  rest[i] = down[n + i] /\ n + i \in DOMAIN down
  <2>1. /\ i \in 1..(Len(down) - (n + 1) + 1)
        /\ (n + 1) + i - 1 = n + i
        /\ n + i \in 1..Len(down)
    BY <1>1, <1>2, SMT
  <2>2. QED
    BY <1>1, <1>7, <2>1
<1>10. QED
  BY <1>2, <1>3, <1>5, <1>7, <1>8, <1>9 DEF rest

LEMMA MessageTyped ==
    ASSUME down \in Seq(Messages), NEW i \in DOMAIN down
    PROVE  /\ down[i] \in Messages /\ down[i].list \in Nat
           /\ down[i].type \in {"subscribed", "subscribe refused", "unsubscribed"} =>
                down[i].id \in Ids
<1>1. down[i] \in Messages
  BY ElementOfSeq, LenProperties
<1>2. QED
  BY <1>1 DEF Messages

LEMMA ReceiveTyped == TypeOK /\ Receive => TypeOK'
<1>1. SUFFICES ASSUME TypeOK, Receive PROVE TypeOK'
  OBVIOUS
<1>2. down \in Seq(Messages) /\ up \in Seq(Requests)
  BY <1>1 DEF TypeOK
<1>3. PICK n \in 1..Len(down) : Receive!(n)
  BY <1>1 DEF Receive
<1> DEFINE batch == SubSeq(down, 1, n)
           writes == Of(batch, {"written"})
<1>4. /\ n \in Nat /\ DOMAIN batch = 1..n
      /\ \A i \in DOMAIN batch : batch[i] = down[i] /\ i \in DOMAIN down
      /\ SubSeq(down, n + 1, Len(down)) \in Seq(Messages)
  BY <1>2, BatchProperties
<1>5. \A i \in DOMAIN batch :
        batch[i].list \in Nat /\ (batch[i].type = "subscribed" => batch[i].id \in Ids)
  BY <1>2, <1>4, MessageTyped
<1>6. /\ down' = SubSeq(down, n + 1, Len(down))
      /\ Paints(batch) /\ Marks(batch) /\ Settles(batch)
      /\ up' = up \o Refetch(1..Cardinality(writes))
      /\ \/ \E i \in LastOf(writes) : own' = batch[i].list
         \/ writes = {} /\ own' = own
      /\ held' = held \ Dropped(batch)
      /\ UNCHANGED <<entryVars, listeners, mounted, subscribes, faults, stranded>>
  BY <1>3
<1>7. down' \in Seq(Messages)
  BY <1>4, <1>6
<1>8. up' \in Seq(Requests)
  <2>1. Cardinality(writes) \in Nat
    <3>1. writes \subseteq 1..n
      BY <1>4 DEF Of
    <3>2. IsFiniteSet(1..n)
      BY <1>4, FS_Interval, SMT
    <3>3. QED
      BY <3>1, <3>2, FS_Subset, FS_CardinalityType
  <2>2. Refetch(1..Cardinality(writes)) \in Seq(Requests)
    BY <2>1, AskedTyped, IsASeq DEF Refetch
  <2>3. QED
    BY <1>2, <1>6, <2>2, ConcatProperties
<1> HIDE DEF batch
<1>9. shown' \in Nat /\ loaded' \in BOOLEAN
  <2>1. shown \in Nat /\ loaded \in BOOLEAN
    BY <1>1 DEF TypeOK
  <2>2. Paints(batch)
    BY <1>6
  <2>3. QED
    BY <1>5, <2>1, <2>2 DEF Paints, LastOf, Of
<1>10. loading' \in BOOLEAN /\ error' \in BOOLEAN
  BY <1>1, <1>6 DEF Marks, TypeOK
<1>11. /\ unanswered' \subseteq Ids /\ unsub' \in Ids \cup {None} /\ subscribed' \in BOOLEAN
       /\ held' \subseteq Ids /\ remade' \subseteq Ids
  <2>1. /\ unanswered \subseteq Ids /\ unsub \in Ids \cup {None} /\ subscribed \in BOOLEAN
        /\ held \subseteq Ids /\ remade \subseteq Ids
    BY <1>1 DEF TypeOK
  <2>2. Settles(batch)
    BY <1>6
  <2>3. QED
    BY <1>5, <1>6, <2>1, <2>2 DEF Settles, LastOf, Of
<1>12. own' \in Nat
  <2>1. own \in Nat
    BY <1>1 DEF TypeOK
  <2>2. QED
    BY <1>5, <1>6, <2>1 DEF LastOf, Of
<1>13. QED
  BY <1>1, <1>6, <1>7, <1>8, <1>9, <1>10, <1>11, <1>12 DEF TypeOK, entryVars

LEMMA HassChangesTyped == TypeOK /\ HassChanges => TypeOK'
<1>1. SUFFICES ASSUME TypeOK, HassChanges PROVE TypeOK'
  OBVIOUS
<1>2. up \in Seq(Requests) /\ held \subseteq Ids /\ unanswered \subseteq Ids
  BY <1>1 DEF TypeOK
<1>3. CASE /\ ~subscribed
           /\ subscribes < MaxSubscribes
           /\ subscribes' = subscribes + 1
           /\ subscribed' = TRUE
           /\ up' = Append(up, Asked("subscribe", subscribes'))
           /\ held' = held \cup {subscribes'}
           /\ unanswered' = unanswered \cup {subscribes'}
  <2>1. subscribes' \in Nat /\ subscribes' \in Ids
    BY <1>1, <1>3, PanelClientAssumption, SMT DEF TypeOK, Ids
  <2>2. up' \in Seq(Requests)
    BY <1>2, <1>3, <2>1, AskedTyped, AppendProperties
  <2>3. QED
    BY <1>1, <1>2, <1>3, <2>1, <2>2 DEF HassChanges, TypeOK, entryVars
<1>4. CASE /\ subscribed /\ ~loaded /\ ~loading
           /\ up' = Append(up, Asked("fetch", None))
           /\ UNCHANGED <<subscribed, subscribes, held, unanswered>>
  <2>1. up' \in Seq(Requests)
    BY <1>2, <1>4, AskedTyped, AppendProperties
  <2>2. QED
    BY <1>1, <1>4, <2>1 DEF HassChanges, TypeOK, entryVars
<1>5. QED
  BY <1>1, <1>3, <1>4 DEF HassChanges

LEMMA LostTyped == TypeOK /\ ConnectionLost => TypeOK'
<1>1. SUFFICES ASSUME TypeOK, ConnectionLost PROVE TypeOK'
  OBVIOUS
<1>2. held \subseteq Ids /\ Cardinality(held) \in Nat
  <2>1. held \subseteq 1..MaxSubscribes
    BY <1>1 DEF TypeOK, Ids
  <2>2. IsFiniteSet(1..MaxSubscribes)
    BY PanelClientAssumption, FS_Interval, SMT
  <2>3. QED
    BY <2>1, <2>2, FS_Subset, FS_CardinalityType DEF Ids
<1>3. up' \in Seq(Requests)
  <2>1. up' \in [1..Cardinality(held) -> {Asked("subscribe", id) : id \in held}]
    BY <1>1 DEF ConnectionLost, Resubscribed
  <2>2. {Asked("subscribe", id) : id \in held} \subseteq Requests
    BY <1>2, AskedTyped
  <2>3. \A i \in 1..Cardinality(held) : up'[i] \in Requests
    BY <2>1, <2>2
  <2>4. up' = [i \in 1..Cardinality(held) |-> up'[i]]
    BY <2>1
  <2>5. QED
    BY <1>2, <2>3, <2>4, IsASeq
<1>4. down' \in Seq(Messages) /\ listeners' \subseteq [id : Ids, of : Nat] /\ faults' \in Nat
  BY <1>1, FaultyTyped, EmptySeq DEF ConnectionLost, TypeOK
<1>5. /\ loading' \in BOOLEAN /\ error' \in BOOLEAN /\ stranded' \in BOOLEAN
      /\ remade' \subseteq Ids
  BY <1>1 DEF ConnectionLost, TypeOK
<1>6. QED
  BY <1>1, <1>3, <1>4, <1>5 DEF ConnectionLost, TypeOK, entryVars

LEMMA TypeStep == TypeOK /\ [Next]_vars => TypeOK'
<1>1. SUFFICES ASSUME TypeOK, [Next]_vars PROVE TypeOK'
  OBVIOUS
<1>2. CASE Serve
  BY <1>1, <1>2, GetSubentriesTyped, SubscribeTyped, UnsubscribeTyped, WriteTyped DEF Serve
<1>3. CASE OthersWrite
  <2>1. version' \in Nat
    BY <1>1, <1>3, SMT DEF OthersWrite, Written, TypeOK
  <2>2. QED
    BY <1>1, <1>3, <2>1 DEF OthersWrite, Written, TypeOK, wires, kept, element, storeVars
<1>4. CASE Unload
  BY <1>1, <1>4 DEF Unload, TypeOK, wires, kept, element, storeVars
<1>5. CASE SetUp
  <2>1. made' \in Nat /\ coordinator' \in Nat
    BY <1>1, <1>5, SMT DEF SetUp, TypeOK
  <2>2. QED
    BY <1>1, <1>5, <2>1 DEF SetUp, TypeOK, wires, kept, element, storeVars
<1>6. CASE Poll
  <2>1. PICK l \in listeners : Poll!(l)
    BY <1>6 DEF Poll
  <2>2. l.id \in Ids /\ BuildSubentries \in Nat /\ down \in Seq(Messages)
    BY <1>1 DEF TypeOK, BuildSubentries
  <2>3. down' \in Seq(Messages)
    BY <2>1, <2>2, ToldTyped, TuplesTyped, SendTyped
  <2>4. QED
    BY <1>1, <2>1, <2>3 DEF TypeOK, entryVars, kept, element, storeVars
<1>7. CASE HassChanges
  BY <1>1, <1>7, HassChangesTyped
<1>8. CASE Submit
  <2>1. up' \in Seq(Requests)
    BY <1>1, <1>8, AskedTyped, AppendProperties DEF Submit, TypeOK
  <2>2. QED
    BY <1>1, <1>8, <2>1 DEF Submit, TypeOK, entryVars, kept, element, storeVars
<1>9. CASE Disconnected
  <2>1. up' \in Seq(Requests)
    BY <1>1, <1>9, AskedTyped, AppendProperties DEF Disconnected, EndSubscription, TypeOK
  <2>2. QED
    BY <1>1, <1>9, <2>1 DEF Disconnected, TypeOK, entryVars, kept, storeVars
<1>10. CASE Connected
  BY <1>1, <1>10 DEF Connected, TypeOK, entryVars, wires, kept, storeVars
<1>11. CASE Receive
  BY <1>1, <1>11, ReceiveTyped
<1>12. CASE ConnectionLost
  BY <1>1, <1>12, LostTyped
<1>13. CASE UNCHANGED vars
  BY <1>1, <1>13 DEF vars, entryVars, wires, kept, element, storeVars, TypeOK
<1>14. QED
  BY <1>1, <1>2, <1>3, <1>4, <1>5, <1>6, <1>7, <1>8, <1>9, <1>10, <1>11, <1>12, <1>13 DEF Next

\* The state is always of its type.
THEOREM PanelTypeCorrect == Spec => []TypeOK
<1>1. QED
  BY Initialised, TypeStep, PTL DEF Spec

-----------------------------------------------------------------------------
(* No older list.                                                          *)

\* What is on the screen and on the way is in the order of the writes.
Ordered ==
    /\ shown <= version
    /\ \A i \in DOMAIN down : shown <= down[i].list /\ down[i].list <= version
    /\ \A i, j \in DOMAIN down : i <= j => down[i].list <= down[j].list

\* A message with the list of now keeps the order.
LEMMA SendOrdered ==
    ASSUME TypeOK, Ordered, NEW messages \in Seq(Messages), Send(messages),
           version' \in Nat, version <= version', shown' = shown,
           \A i \in 1..Len(messages) : messages[i].list = version'
    PROVE  Ordered'
<1>1. /\ down \in Seq(Messages) /\ down' \in Seq(Messages) /\ shown \in Nat
      /\ version \in Nat
      /\ Len(down) \in Nat /\ Len(messages) \in Nat
      /\ DOMAIN down = 1..Len(down)
      /\ DOMAIN down' = 1..(Len(down) + Len(messages))
  BY ConcatProperties, LenProperties, SMT DEF TypeOK, Send
<1>2. \A i \in DOMAIN down' :
        down'[i] = IF i <= Len(down) THEN down[i] ELSE messages[i - Len(down)]
  BY <1>1, ConcatProperties DEF TypeOK, Send
<1>3. \A i \in DOMAIN down' :
        /\ i \in Int
        /\ i <= Len(down) => i \in DOMAIN down /\ down'[i] = down[i]
        /\ ~(i <= Len(down)) => down'[i].list = version'
  <2>1. TAKE i \in DOMAIN down'
  <2>2. i \in Int
    BY <1>1, SMT
  <2>3. CASE i <= Len(down)
    BY <1>1, <1>2, <2>2, <2>3, SMT
  <2>4. CASE ~(i <= Len(down))
    <3>1. i - Len(down) \in 1..Len(messages)
      BY <1>1, <2>2, <2>4, SMT
    <3>2. QED
      BY <1>2, <2>2, <2>4, <3>1
  <2>5. QED
    BY <2>3, <2>4
<1>4. \A i \in DOMAIN down : down[i].list \in Nat
  BY <1>1, MessageTyped
<1>5. /\ shown <= version
      /\ \A i \in DOMAIN down : shown <= down[i].list /\ down[i].list <= version
      /\ \A i, j \in DOMAIN down : i <= j => down[i].list <= down[j].list
  BY DEF Ordered
<1>6. shown' <= version'
  BY <1>1, <1>5, SMT
<1>7. \A i \in DOMAIN down' :
        /\ down'[i].list \in Nat
        /\ shown' <= down'[i].list /\ down'[i].list <= version'
  <2>1. TAKE i \in DOMAIN down'
  <2>2. CASE i <= Len(down)
    <3>1. i \in DOMAIN down /\ down'[i] = down[i] /\ down[i].list \in Nat
      BY <1>3, <1>4, <2>2
    <3>2. shown <= down[i].list /\ down[i].list <= version
      BY <1>5, <3>1
    <3>3. QED
      BY <1>1, <3>1, <3>2, SMT
  <2>3. CASE ~(i <= Len(down))
    <3>1. down'[i].list = version'
      BY <1>3, <2>3
    <3>2. QED
      BY <1>1, <1>6, <3>1, SMT
  <2>4. QED
    BY <2>2, <2>3
<1>8. \A i, j \in DOMAIN down' : i <= j => down'[i].list <= down'[j].list
  <2>1. TAKE i, j \in DOMAIN down'
  <2>2. SUFFICES ASSUME i <= j PROVE down'[i].list <= down'[j].list
    OBVIOUS
  <2>3. CASE j <= Len(down)
    <3>1. i <= Len(down)
      BY <1>1, <1>3, <2>2, <2>3, SMT
    <3>2. QED
      BY <1>3, <1>5, <2>2, <2>3, <3>1
  <2>4. CASE ~(j <= Len(down))
    <3>1. down'[j].list = version'
      BY <1>3, <2>4
    <3>2. QED
      BY <1>7, <3>1
  <2>5. QED
    BY <2>3, <2>4
<1>9. QED
  BY <1>6, <1>7, <1>8 DEF Ordered

LEMMA ListsTold ==
    ASSUME NEW list, NEW first, NEW second, first.list = list, second.list = list
    PROVE  /\ \A i \in 1..Len(<<first>>) : <<first>>[i].list = list
           /\ \A i \in 1..Len(<<first, second>>) : <<first, second>>[i].list = list
<1>1. Len(<<first>>) = 1 /\ <<first>>[1] = first
  OBVIOUS
<1>2. Len(<<first, second>>) = 2 /\ <<first, second>>[1] = first /\ <<first, second>>[2] = second
  OBVIOUS
<1>3. (\A i \in 1..1 : i = 1) /\ (\A i \in 1..2 : i = 1 \/ i = 2)
  BY SMT
<1>4. QED
  BY <1>1, <1>2, <1>3, Zenon

LEMMA ReceiveOrdered ==
    ASSUME TypeOK, Ordered, Receive
    PROVE  Ordered' /\ shown <= shown'
<1>1. /\ down \in Seq(Messages) /\ shown \in Nat /\ version \in Nat
      /\ Len(down) \in Nat /\ DOMAIN down = 1..Len(down)
  BY LenProperties DEF TypeOK
<1>2. PICK n \in 1..Len(down) : Receive!(n)
  BY DEF Receive
<1> DEFINE batch == SubSeq(down, 1, n)
           rest == SubSeq(down, n + 1, Len(down))
<1>3. /\ n \in Nat /\ DOMAIN batch = 1..n
      /\ \A i \in 1..n : batch[i] = down[i] /\ i \in DOMAIN down
      /\ rest \in Seq(Messages) /\ Len(rest) = Len(down) - n
      /\ \A i \in 1..(Len(down) - n) : rest[i] = down[n + i] /\ n + i \in DOMAIN down
  BY <1>1, BatchProperties
<1>4. down' = rest /\ Paints(batch) /\ version' = version
  BY <1>2 DEF entryVars
<1> HIDE DEF batch, rest
<1>5. DOMAIN rest = 1..(Len(down) - n)
  BY <1>3, LenProperties
<1>6. \A i \in DOMAIN down : down[i].list \in Nat
  BY <1>1, MessageTyped
<1>7. shown' = shown \/ \E i \in 1..n : shown' = down[i].list
  BY <1>3, <1>4 DEF Paints, LastOf, Of
<1>8. shown' \in Nat /\ shown <= shown' /\ shown' <= version
  BY <1>1, <1>3, <1>6, <1>7, SMT DEF Ordered
<1>9. \A i \in DOMAIN rest :
        /\ rest[i].list \in Nat
        /\ shown' <= rest[i].list /\ rest[i].list <= version
  <2>1. TAKE i \in DOMAIN rest
  <2>2. rest[i] = down[n + i] /\ n + i \in DOMAIN down /\ down[n + i].list \in Nat
    BY <1>3, <1>5, <1>6
  <2>3. shown <= down[n + i].list /\ down[n + i].list <= version
    BY <2>2 DEF Ordered
  <2>4. \A k \in 1..n : down[k].list <= down[n + i].list
    <3>1. TAKE k \in 1..n
    <3>2. k \in DOMAIN down /\ k <= n + i
      BY <1>1, <1>3, <1>5, SMT
    <3>3. QED
      BY <2>2, <3>2 DEF Ordered
  <2>5. QED
    BY <1>7, <2>2, <2>3, <2>4
<1>10. \A i, j \in DOMAIN rest : i <= j => rest[i].list <= rest[j].list
  <2>1. TAKE i, j \in DOMAIN rest
  <2>2. SUFFICES ASSUME i <= j PROVE rest[i].list <= rest[j].list
    OBVIOUS
  <2>3. /\ rest[i] = down[n + i] /\ n + i \in DOMAIN down
        /\ rest[j] = down[n + j] /\ n + j \in DOMAIN down
    BY <1>3, <1>5
  <2>4. n + i <= n + j
    BY <1>1, <1>3, <1>5, <2>2, SMT
  <2>5. QED
    BY <2>3, <2>4 DEF Ordered
<1>11. QED
  BY <1>4, <1>8, <1>9, <1>10 DEF Ordered

LEMMA OrderedStep == TypeOK /\ Ordered /\ [Next]_vars => Ordered' /\ [shown' >= shown]_shown
<1>1. SUFFICES ASSUME TypeOK, Ordered, [Next]_vars PROVE Ordered' /\ [shown' >= shown]_shown
  OBVIOUS
<1>2. /\ version \in Nat /\ version + 1 \in Nat /\ version <= version + 1 /\ version <= version
      /\ shown \in Nat
  BY <1>1, SMT DEF TypeOK
<1>3. TypeOK'
  BY <1>1, TypeStep
<1>4. CASE GetSubentries
  <2>1. PICK type \in {"fetched", "fetch refused"} : Send(<<Told(type, None, version)>>)
    BY <1>4 DEF GetSubentries, BuildSubentries
  <2> DEFINE message == Told(type, None, version)
  <2>2. <<message>> \in Seq(Messages) /\ \A i \in 1..Len(<<message>>) : <<message>>[i].list = version
    <3>1. message \in Messages /\ message.list = version
      BY <1>2, ToldTyped DEF Told
    <3>2. QED
      BY <3>1, TuplesTyped, ListsTold
  <2>3. UNCHANGED <<version, shown>>
    BY <1>4 DEF GetSubentries, entryVars, element, storeVars
  <2>4. QED
    BY <1>1, <1>2, <2>1, <2>2, <2>3, SendOrdered
<1>5. CASE Subscribe
  <2> DEFINE id == Head(up).id
             subscribedMessage == Told("subscribed", id, version)
             event == Told("event", id, version)
             refused == Told("subscribe refused", id, version)
             answer == <<subscribedMessage, event>>
             refusal == <<refused>>
  <2>1. id \in Ids
    <3>1. Head(up) \in Requests /\ Head(up).type = "subscribe"
      BY <1>1, <1>5, RequestTyped DEF Subscribe, TypeOK
    <3>2. QED
      BY <3>1 DEF Requests
  <2>2. /\ answer \in Seq(Messages) /\ refusal \in Seq(Messages)
        /\ \A i \in 1..Len(answer) : answer[i].list = version
        /\ \A i \in 1..Len(refusal) : refusal[i].list = version
    <3>1. subscribedMessage \in Messages /\ event \in Messages /\ refused \in Messages
      BY <1>2, <2>1, ToldTyped
    <3>2. /\ subscribedMessage.list = version /\ event.list = version
          /\ refused.list = version
      BY DEF Told
    <3> HIDE DEF subscribedMessage, event, refused
    <3>3. QED
      BY <3>1, <3>2, TuplesTyped, ListsTold
  <2>3. Send(answer) \/ Send(refusal)
    BY <1>5 DEF Subscribe, BuildSubentries
  <2>4. UNCHANGED <<version, shown>>
    BY <1>5 DEF Subscribe, entryVars, element, storeVars
  <2>5. QED
    BY <1>1, <1>2, <2>2, <2>3, <2>4, SendOrdered
<1>6. CASE Unsubscribe
  <2> DEFINE message == Told("unsubscribed", Head(up).id, version)
  <2>1. Head(up).id \in Ids
    <3>1. Head(up) \in Requests /\ Head(up).type = "unsubscribe"
      BY <1>1, <1>6, RequestTyped DEF Unsubscribe, TypeOK
    <3>2. QED
      BY <3>1 DEF Requests
  <2>2. <<message>> \in Seq(Messages) /\ \A i \in 1..Len(<<message>>) : <<message>>[i].list = version
    <3>1. message \in Messages /\ message.list = version
      BY <1>2, <2>1, ToldTyped DEF Told
    <3>2. QED
      BY <3>1, TuplesTyped, ListsTold
  <2>3. Send(<<message>>) /\ UNCHANGED <<version, shown>>
    BY <1>6 DEF Unsubscribe, entryVars, element, storeVars
  <2>4. QED
    BY <1>1, <1>2, <2>2, <2>3, SendOrdered
<1>7. CASE Write
  <2>1. PICK type \in {"written", "write refused"} :
          /\ Send(<<Told(type, None, version')>>)
          /\ version' \in {version, version + 1}
    BY <1>7 DEF Write, Written, entryVars
  <2>2. version' \in Nat /\ version <= version'
    BY <1>2, <2>1
  <2>3. shown' = shown
    BY <1>7 DEF Write, element, storeVars
  <2> DEFINE message == Told(type, None, version')
  <2>5. <<message>> \in Seq(Messages) /\ \A i \in 1..Len(<<message>>) : <<message>>[i].list = version'
    <3>1. message \in Messages /\ message.list = version'
      BY <2>2, ToldTyped DEF Told
    <3>2. QED
      BY <3>1, TuplesTyped, ListsTold
  <2>6. QED
    BY <1>1, <2>1, <2>2, <2>3, <2>5, SendOrdered
<1>8. CASE OthersWrite
  <2>1. version' = version + 1 /\ UNCHANGED <<down, shown>>
    BY <1>8 DEF OthersWrite, Written, wires, element, storeVars
  <2>2. \A i \in DOMAIN down : down[i].list \in Nat
    BY <1>1, MessageTyped DEF TypeOK
  <2>3. QED
    BY <1>1, <1>2, <2>1, <2>2, SMT DEF Ordered
<1>9. CASE Poll
  <2>1. PICK l \in listeners : Poll!(l)
    BY <1>9 DEF Poll
  <2>2. l.id \in Ids
    BY <1>1 DEF TypeOK
  <2> DEFINE message == Told("event", l.id, version)
  <2>3. <<message>> \in Seq(Messages) /\ \A i \in 1..Len(<<message>>) : <<message>>[i].list = version
    <3>1. message \in Messages /\ message.list = version
      BY <1>2, <2>2, ToldTyped DEF Told
    <3>2. QED
      BY <3>1, TuplesTyped, ListsTold
  <2>4. Send(<<message>>) /\ UNCHANGED <<version, shown>>
    BY <2>1 DEF BuildSubentries, entryVars, element, storeVars
  <2>5. QED
    BY <1>1, <1>2, <2>3, <2>4, SendOrdered
<1>10. CASE Receive
  <2>1. Ordered' /\ shown <= shown' /\ shown' \in Nat
    BY <1>1, <1>3, <1>10, ReceiveOrdered DEF TypeOK
  <2>2. QED
    BY <1>2, <2>1, SMT
<1>11. CASE ConnectionLost
  <2>1. down' = <<>> /\ UNCHANGED <<version, shown>>
    BY <1>11 DEF ConnectionLost, entryVars
  <2>2. QED
    BY <1>1, <2>1, SMT DEF Ordered
<1>12. CASE Unload \/ SetUp \/ HassChanges \/ Submit \/ Disconnected \/ Connected \/ UNCHANGED vars
  <2>1. UNCHANGED <<version, down, shown>>
    BY <1>12 DEF Unload, SetUp, HassChanges, Submit, Disconnected, Connected, vars, entryVars,
                 wires, element, storeVars
  <2>2. QED
    BY <1>1, <2>1 DEF Ordered
<1>13. QED
  BY <1>1, <1>4, <1>5, <1>6, <1>7, <1>8, <1>9, <1>10, <1>11, <1>12 DEF Next, Serve

\* An older list never replaces a newer one on the screen.
THEOREM NeverOlder == Spec => ShownNeverOlder
<1>1. Init => Ordered
  BY SMT DEF Init, Ordered
<1>2. TypeOK /\ Ordered /\ [Next]_vars => Ordered' /\ [shown' >= shown]_shown
  BY OrderedStep
<1>3. QED
  BY <1>1, <1>2, PanelTypeCorrect, PTL DEF Spec, ShownNeverOlder
=============================================================================
