------------------------ MODULE PanelListenerProofs ------------------------
(***************************************************************************)
(* Proof that the panel leaves no listener behind in the backend, short of *)
(* the cases ListensOnce names, for any number of writes, subscriptions,   *)
(* faults and messages on the way.                                         *)
(***************************************************************************)
EXTENDS PanelClientProofs

-----------------------------------------------------------------------------
(* The invariant.                                                          *)

\* The requests for a subscription and for its end that wait, and their answers on the
\* way back.
Waiting(id) == {i \in DOMAIN up : up[i].type = "subscribe" /\ up[i].id = id}
Ending(id) == {i \in DOMAIN up : up[i].type = "unsubscribe" /\ up[i].id = id}
Replies(id) ==
    {i \in DOMAIN down : down[i].type \in {"subscribed", "subscribe refused"} /\ down[i].id = id}
Ended(id) == {i \in DOMAIN down : down[i].type = "unsubscribed" /\ down[i].id = id}

Coming(id) == Waiting(id) # {} \/ Replies(id) # {}
Leaving(id) == Ending(id) # {} \/ Ended(id) # {}
Listened(id) == \E l \in listeners : l.id = id

\* The element knows the subscription: it would end it, or awaits it.
Known(id) == id = unsub \/ id \in unanswered

\* Nobody has heard of it.
Fresh(id) ==
    /\ ~Coming(id) /\ ~Leaving(id) /\ ~Listened(id)
    /\ id \notin held /\ id \notin remade /\ ~Known(id)

\* A subscription is asked for at most once at a time, and answered once; then nobody
\* listens yet, and it is not ended before.
AskedOnce(id) ==
    /\ id > subscribes => Fresh(id)
    /\ \A i, j \in Waiting(id) : i = j
    /\ \A i, j \in Replies(id) : i = j
    /\ Waiting(id) # {} => ~Listened(id) /\ Replies(id) = {}
    /\ \A i \in Replies(id) : down[i].type = "subscribe refused" => ~Listened(id)
    /\ Leaving(id) => ~Coming(id)
    /\ Ended(id) # {} => ~Listened(id)

\* What is listened to is held, and what is held is known to the element or is being
\* ended.  What is asked for is what the element could not end now.
KnownOrLeaving(id) ==
    /\ Listened(id) => id \in held
    /\ Coming(id) => id \in Unending
    /\ id \in held => Known(id) \/ Leaving(id)

\* The element knows one held subscription at most.
OneKnown ==
    /\ ~subscribed => unanswered \cap held = {} /\ unsub = None
    /\ unsub # None => unanswered \cap held = {}
    /\ \A a, b \in unanswered \cap held : a = b

\* With TypeOK, inductive.
Accounted ==
    ~stranded => OneKnown /\ \A id \in Ids : AskedOnce(id) /\ KnownOrLeaving(id)

-----------------------------------------------------------------------------
(* Steps that leave a subscription alone.                                  *)

LEMMA Shifted ==
    /\ \A i, j, d \in Nat : i + d = j + d => i = j
    /\ \A i \in Nat : i + 0 = i
  OBVIOUS

\* One subscription, over a step in which requests and messages may be taken (d and e
\* of them), and in which the element and the connection forget it only if nothing
\* depends on it.
LEMMA KeptFor ==
    ASSUME NEW id \in Ids, AskedOnce(id), KnownOrLeaving(id), NEW d \in Nat, NEW e \in Nat,
           id > subscribes' => id > subscribes,
           \A i \in Waiting(id)' : i \in Nat /\ i + d \in Waiting(id),
           \A i \in Replies(id)' : i \in Nat /\ i + e \in Replies(id) /\ down'[i] = down[i + e],
           Leaving(id)' => Leaving(id),
           Ended(id)' # {} => Ended(id) # {} \/ ~Listened(id)',
           Listened(id)' => Listened(id) /\ (id \in held => id \in held'),
           id \in held' => id \in held,
           id \in remade' => id \in remade,
           Known(id)' => Known(id),
           Coming(id)' /\ id \in Unending => id \in Unending',
           id \in held' /\ (Known(id) \/ Leaving(id)) => Known(id)' \/ Leaving(id)'
    PROVE  AskedOnce(id)' /\ KnownOrLeaving(id)'
<1>1. (Waiting(id)' # {} => Waiting(id) # {}) /\ (Replies(id)' # {} => Replies(id) # {})
  OBVIOUS
<1>2. Coming(id)' => Coming(id)
  BY <1>1 DEF Coming
<1>3. \A i, j \in Waiting(id)' : i = j
  <2>1. TAKE i, j \in Waiting(id)'
  <2>2. i + d = j + d /\ i \in Nat /\ j \in Nat
    BY DEF AskedOnce
  <2>3. QED
    BY <2>2, Shifted
<1>4. \A i, j \in Replies(id)' : i = j
  <2>1. TAKE i, j \in Replies(id)'
  <2>2. i + e = j + e /\ i \in Nat /\ j \in Nat
    BY DEF AskedOnce
  <2>3. QED
    BY <2>2, Shifted
<1>5. id > subscribes' => Fresh(id)'
  BY <1>2 DEF AskedOnce, Fresh
<1>6. Waiting(id)' # {} => ~Listened(id)' /\ Replies(id)' = {}
  BY <1>1 DEF AskedOnce
<1>7. \A i \in Replies(id)' : down'[i].type = "subscribe refused" => ~Listened(id)'
  <2>1. TAKE i \in Replies(id)'
  <2>2. i + e \in Replies(id) /\ down'[i] = down[i + e]
    OBVIOUS
  <2>3. QED
    BY <2>2 DEF AskedOnce
<1>8. /\ Leaving(id)' => ~Coming(id)'
      /\ Ended(id)' # {} => ~Listened(id)'
  BY <1>2 DEF AskedOnce
<1>9. AskedOnce(id)'
  BY <1>3, <1>4, <1>5, <1>6, <1>7, <1>8 DEF AskedOnce
<1>10. KnownOrLeaving(id)'
  BY <1>2 DEF KnownOrLeaving
<1>11. QED
  BY <1>9, <1>10

\* What a step leaves of the requests (d of them are taken, others may be added) and of
\* the messages (others may be added), for one subscription.
Followed(id, d) ==
    /\ \A i \in Waiting(id)' : i \in Nat /\ i + d \in Waiting(id)
    /\ \A i \in Replies(id)' : i \in Nat /\ i \in Replies(id) /\ down'[i] = down[i]
    /\ Ending(id)' = {} <=> Ending(id) = {}
    /\ Ended(id)' = {} <=> Ended(id) = {}

LEMMA Followers ==
    ASSUME NEW d \in Nat, NEW id \in Ids,
           DOMAIN up \subseteq Nat, DOMAIN up' \subseteq Nat, DOMAIN down' \subseteq Nat,
           \A i \in DOMAIN up' : up'[i].type \in {"subscribe", "unsubscribe"} /\ up'[i].id = id =>
               i + d \in DOMAIN up /\ up[i + d] = up'[i],
           \A j \in DOMAIN up : up[j].type = "unsubscribe" /\ up[j].id = id =>
               \E i \in DOMAIN up' : up'[i] = up[j],
           \A i \in DOMAIN down : i \in DOMAIN down' /\ down'[i] = down[i],
           \A i \in DOMAIN down' :
               \/ i \in DOMAIN down
               \/ down'[i].type \notin {"subscribed", "subscribe refused", "unsubscribed"}
               \/ down'[i].id # id
    PROVE  Followed(id, d)
<1>1. \A i \in Waiting(id)' : i \in Nat /\ i + d \in Waiting(id)
  BY DEF Waiting
<1>2. \A i \in Replies(id)' : i \in Nat /\ i \in Replies(id) /\ down'[i] = down[i]
  <2>1. TAKE i \in Replies(id)'
  <2>2. i \in DOMAIN down /\ down'[i] = down[i] /\ i \in Nat
    BY <2>1 DEF Replies
  <2>3. i \in Replies(id)
    BY <2>1, <2>2 DEF Replies
  <2>4. QED
    BY <2>2, <2>3
<1>3. Ending(id)' = {} <=> Ending(id) = {}
  <2>1. ASSUME NEW i \in Ending(id)' PROVE Ending(id) # {}
    <3>1. i + d \in Ending(id)
      BY <2>1 DEF Ending
    <3>2. QED
      BY <3>1
  <2>2. ASSUME NEW j \in Ending(id) PROVE Ending(id)' # {}
    <3>1. PICK i \in DOMAIN up' : up'[i] = up[j]
      BY <2>2 DEF Ending
    <3>2. i \in Ending(id)'
      BY <2>2, <3>1 DEF Ending
    <3>3. QED
      BY <3>2
  <2>3. QED
    BY <2>1, <2>2
<1>4. Ended(id)' = Ended(id)
  BY DEF Ended
<1>5. QED
  BY <1>1, <1>2, <1>3, <1>4 DEF Followed

\* One subscription that a step leaves alone.
LEMMA QuietFor ==
    ASSUME NEW id \in Ids, AskedOnce(id), KnownOrLeaving(id), NEW d \in Nat, Followed(id, d),
           id > subscribes' => id > subscribes,
           Listened(id)' => Listened(id),
           id \in held' <=> id \in held, id \in remade' <=> id \in remade,
           id \in unanswered' <=> id \in unanswered, id = unsub' <=> id = unsub
    PROVE  AskedOnce(id)' /\ KnownOrLeaving(id)'
<1>1. Leaving(id)' = Leaving(id) /\ Known(id)' = Known(id)
  BY DEF Followed, Leaving, Known
<1>2. id \in Unending <=> id \in Unending'
  BY DEF Unending
<1>3. Ended(id)' # {} => Ended(id) # {}
  BY DEF Followed
<1>4. PICK e \in Nat : \A i \in Nat : i + e = i
  BY Shifted
<1>5. \A i \in Replies(id)' : i \in Nat /\ i + e \in Replies(id) /\ down'[i] = down[i + e]
  BY <1>4 DEF Followed
<1>6. \A i \in Waiting(id)' : i \in Nat /\ i + d \in Waiting(id)
  BY DEF Followed
<1>7. QED
  BY <1>1, <1>2, <1>3, <1>5, <1>6, KeptFor

\* All of them.
LEMMA Quiet ==
    ASSUME Accounted, ~stranded' => ~stranded, NEW d \in Nat,
           UNCHANGED <<subscribes, listeners, held, remade, unanswered, unsub, subscribed>>,
           \A id \in Ids : Followed(id, d)
    PROVE  Accounted'
<1>1. SUFFICES ASSUME ~stranded' PROVE Accounted'
  BY DEF Accounted
<1>2. OneKnown /\ \A id \in Ids : AskedOnce(id) /\ KnownOrLeaving(id)
  BY <1>1 DEF Accounted
<1>3. OneKnown'
  BY <1>2 DEF OneKnown
<1>4. ASSUME NEW id \in Ids PROVE AskedOnce(id)' /\ KnownOrLeaving(id)'
  <2>1. Listened(id)' = Listened(id)
    BY DEF Listened
  <2>2. QED
    BY <1>2, <1>4, <2>1, QuietFor
<1>5. QED
  BY <1>3, <1>4 DEF Accounted, Ids

\* Requests: what is left when the first is taken, and what is there when one or more
\* are added.
LEMMA Taken ==
    ASSUME up \in Seq(Requests), up # <<>>, up' = Tail(up)
    PROVE  /\ Len(up) \in Nat \ {0} /\ DOMAIN up = 1..Len(up) /\ DOMAIN up' = 1..(Len(up) - 1)
           /\ \A i \in DOMAIN up' : i + 1 \in DOMAIN up /\ up'[i] = up[i + 1]
           /\ Head(up) = up[1]
           /\ \A i \in DOMAIN up : i = 1 \/ (i - 1 \in DOMAIN up' /\ up'[i - 1] = up[i])
           /\ DOMAIN up \subseteq Nat \ {0} /\ DOMAIN up' \subseteq Nat \ {0}
  OBVIOUS

LEMMA Added ==
    ASSUME up \in Seq(Requests), NEW r \in Requests, up' = Append(up, r)
    PROVE  /\ Len(up) \in Nat /\ DOMAIN up = 1..Len(up) /\ DOMAIN up' = 1..(Len(up) + 1)
           /\ \A i \in DOMAIN up : i \in DOMAIN up' /\ up'[i] = up[i]
           /\ up'[Len(up) + 1] = r
           /\ DOMAIN up \subseteq Nat \ {0} /\ DOMAIN up' \subseteq Nat \ {0}
  OBVIOUS

LEMMA SentOne ==
    ASSUME down \in Seq(Messages), NEW m \in Messages, Send(<<m>>)
    PROVE  /\ Len(down) \in Nat /\ Len(down) + 1 \notin DOMAIN down
           /\ DOMAIN down \subseteq Nat /\ DOMAIN down' \subseteq Nat
           /\ \A i \in DOMAIN down : i \in DOMAIN down' /\ down'[i] = down[i]
           /\ Len(down) + 1 \in DOMAIN down' /\ down'[Len(down) + 1] = m
           /\ \A i \in DOMAIN down' : i \in DOMAIN down \/ i = Len(down) + 1
<1>1. down' = Append(down, m)
  BY DEF Send
<1>2. QED
  BY <1>1

LEMMA SentTwo ==
    ASSUME down \in Seq(Messages), NEW m \in Messages, NEW n \in Messages, Send(<<m, n>>)
    PROVE  /\ Len(down) \in Nat /\ Len(down) + 1 \notin DOMAIN down
           /\ DOMAIN down \subseteq Nat /\ DOMAIN down' \subseteq Nat
           /\ \A i \in DOMAIN down : i \in DOMAIN down' /\ down'[i] = down[i]
           /\ Len(down) + 1 \in DOMAIN down' /\ down'[Len(down) + 1] = m
           /\ \A i \in DOMAIN down' : i \in DOMAIN down \/ i = Len(down) + 1 \/ down'[i] = n
<1>1. down' = Append(Append(down, m), n)
  BY DEF Send
<1>2. QED
  BY <1>1

LEMMA QuietSteps ==
    ASSUME TypeOK, Accounted,
           \/ GetSubentries \/ Write \/ OthersWrite \/ Unload \/ SetUp \/ Poll
           \/ Connected \/ UNCHANGED vars
           \/ Submit \/ (HassChanges /\ UNCHANGED subscribes)
    PROVE  Accounted'
<1>1. /\ up \in Seq(Requests) /\ down \in Seq(Messages) /\ DOMAIN up = 1..Len(up) /\ Len(up) \in Nat
      /\ subscribes \in Nat /\ DOMAIN up \subseteq Nat
      /\ DOMAIN down = 1..Len(down) /\ Len(down) \in Nat /\ DOMAIN down \subseteq Nat
  BY LenProperties DEF TypeOK
<1>2. CASE GetSubentries \/ Write
  <2>1. PICK type \in {"fetch", "write"} : Request(type)
    BY <1>2 DEF GetSubentries, Write
  <2>2. up # <<>> /\ up' = Tail(up) /\ Head(up).type \notin {"subscribe", "unsubscribe"}
    BY <2>1 DEF Request
  <2>3. /\ Head(up) = up[1] /\ DOMAIN up' \subseteq Nat
        /\ \A i \in DOMAIN up' : i + 1 \in DOMAIN up /\ up'[i] = up[i + 1]
        /\ \A i \in DOMAIN up : i = 1 \/ (i - 1 \in DOMAIN up' /\ up'[i - 1] = up[i])
    BY <1>1, <2>2, Taken
  <2>4. PICK kind \in {"fetched", "fetch refused", "written", "write refused"}, list \in Nat :
          Send(<<Told(kind, None, list)>>)
    <3>1. version \in Nat /\ version + 1 \in Nat
      BY DEF TypeOK
    <3>2. version' \in Nat
      BY TypeStep, <1>2 DEF TypeOK, Next, Serve
    <3>3. QED
      BY <1>2, <3>1, <3>2 DEF GetSubentries, Write, BuildSubentries
  <2> DEFINE message == Told(kind, None, list)
  <2>5. message \in Messages /\ message.type = kind
    BY <2>4, ToldTyped DEF Told
  <2>6. Send(<<message>>)
    BY <2>4
  <2> HIDE DEF message
  <2>7. /\ DOMAIN down' \subseteq Nat
        /\ \A i \in DOMAIN down : i \in DOMAIN down' /\ down'[i] = down[i]
        /\ \A i \in DOMAIN down' : i \in DOMAIN down \/ down'[i].type = kind
    BY <1>1, <2>5, <2>6, SentOne
  <2>8. UNCHANGED <<subscribes, listeners, held, remade, unanswered, unsub, subscribed, stranded>>
    BY <1>2 DEF GetSubentries, Write, element, kept
  <2>9. ASSUME NEW id \in Ids PROVE Followed(id, 1)
    <3>1. 1 \in Nat
      OBVIOUS
    <3>2. \A j \in DOMAIN up : up[j].type = "unsubscribe" /\ up[j].id = id =>
              \E i \in DOMAIN up' : up'[i] = up[j]
      BY <2>2, <2>3
    <3>3. QED
      BY <1>1, <2>3, <2>4, <2>7, <3>1, <3>2, Followers
  <2>10. 1 \in Nat
    OBVIOUS
  <2>11. QED
    BY <2>8, <2>9, <2>10, Quiet
<1>3. PICK none \in Nat : \A i \in Nat : i + none = i
  BY Shifted
<1>4. CASE OthersWrite \/ Unload \/ SetUp \/ Connected \/ UNCHANGED vars
  <2>1. UNCHANGED <<subscribes, listeners, held, remade, unanswered, unsub, subscribed, stranded,
                    up, down>>
    BY <1>4 DEF OthersWrite, Unload, SetUp, Connected, vars, wires, kept, element
  <2>2. \A id \in Ids : Followed(id, none)
    <3>1. /\ \A i \in DOMAIN up' : i + none \in DOMAIN up /\ up[i + none] = up'[i]
          /\ \A j \in DOMAIN up : \E i \in DOMAIN up' : up'[i] = up[j]
          /\ DOMAIN up' \subseteq Nat
      BY <1>1, <1>3, <2>1
    <3>2. /\ DOMAIN down' \subseteq Nat
          /\ \A i \in DOMAIN down : i \in DOMAIN down' /\ down'[i] = down[i]
          /\ \A i \in DOMAIN down' :
               i \in DOMAIN down \/ down'[i].type \notin {"subscribed", "subscribe refused", "unsubscribed"}
      BY <1>1, <2>1
    <3>3. QED
      BY <1>1, <1>3, <3>1, <3>2, Followers
  <2>3. QED
    BY <1>3, <2>1, <2>2, Quiet
<1>5. CASE Poll
  <2>1. PICK l \in listeners : Poll!(l)
    BY <1>5 DEF Poll
  <2> DEFINE message == Told("event", l.id, version)
  <2>2. message \in Messages /\ message.type = "event"
    BY ToldTyped DEF TypeOK, Told
  <2>3. Send(<<message>>)
    BY <2>1 DEF BuildSubentries
  <2> HIDE DEF message
  <2>4. /\ DOMAIN down' \subseteq Nat
        /\ \A i \in DOMAIN down : i \in DOMAIN down' /\ down'[i] = down[i]
        /\ \A i \in DOMAIN down' : i \in DOMAIN down \/ down'[i].type = "event"
    BY <1>1, <2>2, <2>3, SentOne
  <2>5. UNCHANGED <<subscribes, listeners, held, remade, unanswered, unsub, subscribed, stranded, up>>
    BY <2>1 DEF element, kept
  <2>6. \A id \in Ids : Followed(id, none)
    <3>1. /\ \A i \in DOMAIN up' : i + none \in DOMAIN up /\ up[i + none] = up'[i]
          /\ \A j \in DOMAIN up : \E i \in DOMAIN up' : up'[i] = up[j]
          /\ DOMAIN up' \subseteq Nat
      BY <1>1, <1>3, <2>5
    <3>2. /\ DOMAIN down' \subseteq Nat
          /\ \A i \in DOMAIN down : i \in DOMAIN down' /\ down'[i] = down[i]
          /\ \A i \in DOMAIN down' :
               i \in DOMAIN down \/ down'[i].type \notin {"subscribed", "subscribe refused", "unsubscribed"}
      BY <1>1, <2>4, <2>5
    <3>3. QED
      BY <1>1, <1>3, <3>1, <3>2, Followers
  <2>7. QED
    BY <1>3, <2>5, <2>6, Quiet
<1>6. CASE Submit \/ (HassChanges /\ UNCHANGED subscribes)
  <2>1. PICK r \in {Asked("fetch", None), Asked("write", None)} :
          /\ up' = Append(up, r)
          /\ UNCHANGED <<held, remade, unanswered, subscribed>>
    BY <1>1, <1>6 DEF Submit, HassChanges, element, kept
  <2>2. r \in Requests /\ r.type \notin {"subscribe", "unsubscribe"}
    BY AskedTyped DEF Asked
  <2>3. /\ DOMAIN up' = 1..(Len(up) + 1) /\ DOMAIN up' \subseteq Nat
        /\ \A i \in DOMAIN up : i \in DOMAIN up' /\ up'[i] = up[i]
        /\ up'[Len(up) + 1] = r
    BY <1>1, <2>1, <2>2, Added
  <2>4. UNCHANGED <<subscribes, listeners, unsub, stranded, down>>
    BY <1>6 DEF Submit, HassChanges, element
  <2>5. \A i \in DOMAIN up' : up'[i].type \in {"subscribe", "unsubscribe"} =>
            i + none \in DOMAIN up /\ up[i + none] = up'[i]
    <3>1. TAKE i \in DOMAIN up'
    <3>2. i \in DOMAIN up \/ i = Len(up) + 1
      BY <1>1, <2>3
    <3>3. i + none = i
      BY <1>3, <2>3
    <3>4. QED
      BY <2>2, <2>3, <3>2, <3>3
  <2>6. \A id \in Ids : Followed(id, none)
    BY <1>1, <1>3, <2>3, <2>4, <2>5, Followers
  <2>7. QED
    BY <1>3, <2>1, <2>4, <2>6, Quiet
<1>7. QED
  BY <1>2, <1>4, <1>5, <1>6

-----------------------------------------------------------------------------
(* Steps of the backend about a subscription.                              *)

\* A request for one subscription is taken: the requests of the others move up.
LEMMA Served ==
    ASSUME TypeOK, NEW type \in {"subscribe", "unsubscribe"}, Request(type)
    PROVE  /\ Head(up).id \in Ids
           /\ DOMAIN up \subseteq Nat /\ DOMAIN up' \subseteq Nat
           /\ \A i \in DOMAIN up' : i + 1 \in DOMAIN up /\ up[i + 1] = up'[i]
           /\ \A j \in DOMAIN up :
                \/ \E i \in DOMAIN up' : up'[i] = up[j]
                \/ up[j].type = type /\ up[j].id = Head(up).id
           /\ 1 \in DOMAIN up /\ up[1].type = type /\ up[1].id = Head(up).id
<1>1. up \in Seq(Requests) /\ up # <<>> /\ up' = Tail(up) /\ Head(up).type = type
  BY DEF TypeOK, Request
<1>2. /\ Len(up) \in Nat \ {0} /\ DOMAIN up = 1..Len(up)
      /\ \A i \in DOMAIN up' : i + 1 \in DOMAIN up /\ up'[i] = up[i + 1]
      /\ Head(up) = up[1]
      /\ \A i \in DOMAIN up : i = 1 \/ (i - 1 \in DOMAIN up' /\ up'[i - 1] = up[i])
      /\ DOMAIN up \subseteq Nat \ {0} /\ DOMAIN up' \subseteq Nat \ {0}
  BY <1>1, Taken
<1>3. Head(up).id \in Ids
  BY <1>1, RequestTyped DEF Requests
<1>4. \A j \in DOMAIN up :
        \/ \E i \in DOMAIN up' : up'[i] = up[j]
        \/ up[j].type = type /\ up[j].id = Head(up).id
  BY <1>1, <1>2
<1>5. 1 \in DOMAIN up
  BY <1>2
<1>6. QED
  BY <1>1, <1>2, <1>3, <1>4, <1>5

LEMMA SubscribeStep == TypeOK /\ Accounted /\ Subscribe => Accounted'
<1>1. SUFFICES ASSUME TypeOK, Accounted, Subscribe, ~stranded' PROVE Accounted'
  BY DEF Accounted
<1>2. /\ Request("subscribe")
      /\ UNCHANGED <<subscribes, held, remade, unanswered, unsub, subscribed, stranded>>
  BY <1>1 DEF Subscribe, element, kept
<1>0. PICK asked \in Ids : asked = Head(up).id
  BY <1>1, <1>2, Served
<1>3. /\ DOMAIN up \subseteq Nat /\ DOMAIN up' \subseteq Nat
      /\ \A i \in DOMAIN up' : i + 1 \in DOMAIN up /\ up[i + 1] = up'[i]
      /\ \A j \in DOMAIN up : up[j].type = "unsubscribe" => \E i \in DOMAIN up' : up'[i] = up[j]
      /\ 1 \in DOMAIN up /\ up[1].type = "subscribe" /\ up[1].id = asked
  BY <1>0, <1>1, <1>2, Served
<1>4. OneKnown /\ \A id \in Ids : AskedOnce(id) /\ KnownOrLeaving(id)
  BY <1>1, <1>2 DEF Accounted
<1>5. OneKnown'
  BY <1>2, <1>4 DEF OneKnown
\* The message with the answer, and what comes after it.
<1>6. PICK reply \in Messages :
        /\ reply.type \in {"subscribed", "subscribe refused"} /\ reply.id = asked
        /\ reply.type = "subscribe refused" => UNCHANGED listeners
        /\ listeners' = listeners \/ listeners' = listeners \cup Listening(asked)
        /\ Len(down) + 1 \notin DOMAIN down /\ Len(down) + 1 \in Nat
        /\ DOMAIN down \subseteq Nat /\ DOMAIN down' \subseteq Nat
        /\ \A i \in DOMAIN down : i \in DOMAIN down' /\ down'[i] = down[i]
        /\ Len(down) + 1 \in DOMAIN down' /\ down'[Len(down) + 1] = reply
        /\ \A i \in DOMAIN down' :
             i \in DOMAIN down \/ i = Len(down) + 1 \/ down'[i].type = "event"
  <2>1. down \in Seq(Messages) /\ version \in Nat /\ version = BuildSubentries
    BY <1>1 DEF TypeOK, BuildSubentries
  <2> DEFINE acceptance == Told("subscribed", asked, version)
             event == Told("event", asked, BuildSubentries)
             refusal == Told("subscribe refused", asked, version)
  <2>2. /\ acceptance \in Messages /\ event \in Messages /\ refusal \in Messages
        /\ acceptance.type = "subscribed" /\ event.type = "event"
        /\ refusal.type = "subscribe refused"
        /\ acceptance.id = asked /\ refusal.id = asked
    BY <2>1, ToldTyped DEF Told
  <2>3. \/ listeners' = listeners \cup Listening(asked) /\ Send(<<acceptance, event>>)
        \/ Send(<<refusal>>) /\ UNCHANGED listeners
    BY <1>0, <1>1 DEF Subscribe
  <2> HIDE DEF acceptance, event, refusal
  <2>4. CASE listeners' = listeners \cup Listening(asked) /\ Send(<<acceptance, event>>)
    <3>1. /\ Len(down) \in Nat /\ Len(down) + 1 \notin DOMAIN down
          /\ DOMAIN down \subseteq Nat /\ DOMAIN down' \subseteq Nat
          /\ \A i \in DOMAIN down : i \in DOMAIN down' /\ down'[i] = down[i]
          /\ Len(down) + 1 \in DOMAIN down' /\ down'[Len(down) + 1] = acceptance
          /\ \A i \in DOMAIN down' : i \in DOMAIN down \/ i = Len(down) + 1 \/ down'[i] = event
      BY <2>1, <2>2, <2>4, SentTwo
    <3>2. Len(down) + 1 \in Nat
      BY <3>1
    <3>3. QED
      BY <2>2, <2>4, <3>1, <3>2
  <2>5. CASE Send(<<refusal>>) /\ UNCHANGED listeners
    <3>1. /\ Len(down) \in Nat /\ Len(down) + 1 \notin DOMAIN down
          /\ DOMAIN down \subseteq Nat /\ DOMAIN down' \subseteq Nat
          /\ \A i \in DOMAIN down : i \in DOMAIN down' /\ down'[i] = down[i]
          /\ Len(down) + 1 \in DOMAIN down' /\ down'[Len(down) + 1] = refusal
          /\ \A i \in DOMAIN down' : i \in DOMAIN down \/ i = Len(down) + 1
      BY <2>1, <2>2, <2>5, SentOne
    <3>2. Len(down) + 1 \in Nat
      BY <3>1
    <3>3. QED
      BY <2>2, <2>5, <3>1, <3>2
  <2>6. QED
    BY <2>3, <2>4, <2>5
<1>7. \A l \in listeners' : l \in listeners \/ l.id = asked
  <2>1. \A l \in Listening(asked) : l.id = asked
    BY DEF Listening
  <2>2. QED
    BY <1>6, <2>1
<1>8. ASSUME NEW id \in Ids, id # asked PROVE AskedOnce(id)' /\ KnownOrLeaving(id)'
  <2>1. 1 \in Nat
    OBVIOUS
  <2>2. \A i \in DOMAIN down' :
          \/ i \in DOMAIN down
          \/ down'[i].type \notin {"subscribed", "subscribe refused", "unsubscribed"}
          \/ down'[i].id # id
    BY <1>6, <1>8
  <2>3. Followed(id, 1)
    <3>1. /\ DOMAIN up \subseteq Nat /\ DOMAIN up' \subseteq Nat /\ DOMAIN down' \subseteq Nat
          /\ \A i \in DOMAIN up' : i + 1 \in DOMAIN up /\ up[i + 1] = up'[i]
          /\ \A j \in DOMAIN up : up[j].type = "unsubscribe" /\ up[j].id = id =>
                 \E i \in DOMAIN up' : up'[i] = up[j]
          /\ \A i \in DOMAIN down : i \in DOMAIN down' /\ down'[i] = down[i]
      BY <1>3, <1>6
    <3>2. QED
      BY <2>1, <2>2, <3>1, Followers
  <2>4. Listened(id)' => Listened(id)
    BY <1>7, <1>8 DEF Listened
  <2>5. AskedOnce(id) /\ KnownOrLeaving(id)
    BY <1>4
  <2>6. /\ id > subscribes' => id > subscribes
        /\ id \in held' <=> id \in held
        /\ id \in remade' <=> id \in remade
        /\ id \in unanswered' <=> id \in unanswered
        /\ id = unsub' <=> id = unsub
    BY <1>2
  <2>7. QED
    BY <1>8, <2>1, <2>3, <2>4, <2>5, <2>6, QuietFor
<1>9. AskedOnce(asked)' /\ KnownOrLeaving(asked)'
  <2>1. AskedOnce(asked) /\ KnownOrLeaving(asked) /\ 1 \in Waiting(asked)
    BY <1>3, <1>4 DEF Waiting
  <2>2. /\ Coming(asked) /\ ~Listened(asked) /\ Replies(asked) = {} /\ ~Leaving(asked)
        /\ ~(asked > subscribes) /\ asked \in Unending
    BY <2>1 DEF AskedOnce, KnownOrLeaving, Coming, Fresh
  <2>3. Waiting(asked)' = {}
    <3>1. SUFFICES ASSUME NEW i \in Waiting(asked)' PROVE FALSE
      OBVIOUS
    <3>2. i + 1 \in Waiting(asked) /\ i \in Nat /\ i \in DOMAIN up'
      BY <1>3 DEF Waiting
    <3>3. i + 1 = 1
      BY <2>1, <3>2 DEF AskedOnce
    <3>4. up'[0].type = "subscribe" /\ 0 \in DOMAIN up'
      BY <3>2, <3>3 DEF Waiting
    <3>5. 0 \notin DOMAIN up'
      BY <1>1, <1>2, Taken DEF TypeOK, Request
    <3>6. QED
      BY <3>4, <3>5
  <2>4. \A i \in Replies(asked)' : i = Len(down) + 1
    <3>1. TAKE i \in Replies(asked)'
    <3>2. /\ i \in DOMAIN down' /\ down'[i].id = asked
          /\ down'[i].type \in {"subscribed", "subscribe refused"}
      BY <3>1 DEF Replies
    <3>3. i \notin DOMAIN down
      BY <1>6, <2>2, <3>2 DEF Replies
    <3>4. QED
      BY <1>6, <3>2, <3>3
  <2>5. ~Leaving(asked)'
    <3>1. Ending(asked)' = {}
      BY <1>3, <2>2 DEF Leaving, Ending
    <3>2. Ended(asked)' = {}
      <4>1. SUFFICES ASSUME NEW i \in Ended(asked)' PROVE FALSE
        OBVIOUS
      <4>2. i \in DOMAIN down' /\ down'[i].type = "unsubscribed" /\ down'[i].id = asked
        BY <4>1 DEF Ended
      <4>3. i \in DOMAIN down /\ down'[i] = down[i]
        BY <1>6, <4>2
      <4>4. QED
        BY <2>2, <4>2, <4>3 DEF Leaving, Ended
    <3>3. QED
      BY <3>1, <3>2 DEF Leaving
  <2>6. \A i \in Replies(asked)' : down'[i].type = "subscribe refused" => ~Listened(asked)'
    BY <1>6, <2>2, <2>4 DEF Listened
  <2>7. AskedOnce(asked)'
    <3>1. ~(asked > subscribes')
      BY <1>2, <2>2
    <3>2. Ended(asked)' = {}
      BY <2>5 DEF Leaving
    <3>3. QED
      BY <2>3, <2>4, <2>5, <2>6, <3>1, <3>2 DEF AskedOnce
  <2>8. asked \in held /\ asked \in Unending' /\ asked \in held'
    BY <1>2, <2>2 DEF Unending
  <2>9. Known(asked)'
    BY <1>2, <2>2 DEF Known, Unending
  <2>10. KnownOrLeaving(asked)'
    BY <2>8, <2>9 DEF KnownOrLeaving
  <2>11. QED
    BY <2>7, <2>10
<1>10. QED
  BY <1>5, <1>8, <1>9 DEF Accounted, Ids

LEMMA UnsubscribeStep == TypeOK /\ Accounted /\ Unsubscribe => Accounted'
<1>1. SUFFICES ASSUME TypeOK, Accounted, Unsubscribe, ~stranded' PROVE Accounted'
  BY DEF Accounted
<1>2. /\ Request("unsubscribe")
      /\ UNCHANGED <<subscribes, held, remade, unanswered, unsub, subscribed, stranded>>
  BY <1>1 DEF Unsubscribe, element, kept
<1>0. PICK ended \in Ids : ended = Head(up).id
  BY <1>1, <1>2, Served
<1>3. /\ DOMAIN up \subseteq Nat /\ DOMAIN up' \subseteq Nat
      /\ \A i \in DOMAIN up' : i + 1 \in DOMAIN up /\ up[i + 1] = up'[i]
      /\ \A j \in DOMAIN up : up[j].id # ended => \E i \in DOMAIN up' : up'[i] = up[j]
      /\ 1 \in DOMAIN up /\ up[1].type = "unsubscribe" /\ up[1].id = ended
  BY <1>0, <1>1, <1>2, Served
<1>4. OneKnown /\ \A id \in Ids : AskedOnce(id) /\ KnownOrLeaving(id)
  BY <1>1, <1>2 DEF Accounted
<1>5. OneKnown'
  BY <1>2, <1>4 DEF OneKnown
<1> DEFINE answer == Told("unsubscribed", ended, version)
<1>6. answer \in Messages /\ answer.type = "unsubscribed" /\ answer.id = ended
  BY <1>1, ToldTyped DEF Told, TypeOK
<1>7. Send(<<answer>>) /\ down \in Seq(Messages)
  BY <1>0, <1>1 DEF Unsubscribe, TypeOK
<1> HIDE DEF answer
<1>8. /\ DOMAIN down \subseteq Nat /\ DOMAIN down' \subseteq Nat
      /\ \A i \in DOMAIN down : i \in DOMAIN down' /\ down'[i] = down[i]
      /\ Len(down) + 1 \in DOMAIN down' /\ down'[Len(down) + 1] = answer
      /\ \A i \in DOMAIN down' : i \in DOMAIN down \/ i = Len(down) + 1
  BY <1>6, <1>7, SentOne
<1>9. \A id \in Ids : Listened(id)' => Listened(id) /\ id # ended
  BY <1>0, <1>1 DEF Listened, Unsubscribe
<1>10. 1 \in Nat
  OBVIOUS
<1>11. ASSUME NEW id \in Ids, id # ended PROVE AskedOnce(id)' /\ KnownOrLeaving(id)'
  <2>1. \A i \in DOMAIN down' : i \in DOMAIN down \/ down'[i].id # id
    BY <1>6, <1>8, <1>11
  <2>2. Followed(id, 1)
    <3>1. /\ DOMAIN up \subseteq Nat /\ DOMAIN up' \subseteq Nat /\ DOMAIN down' \subseteq Nat
          /\ \A i \in DOMAIN up' : i + 1 \in DOMAIN up /\ up[i + 1] = up'[i]
          /\ \A j \in DOMAIN up : up[j].type = "unsubscribe" /\ up[j].id = id =>
                 \E i \in DOMAIN up' : up'[i] = up[j]
          /\ \A i \in DOMAIN down : i \in DOMAIN down' /\ down'[i] = down[i]
      BY <1>3, <1>8, <1>11
    <3>2. QED
      BY <1>10, <2>1, <3>1, Followers
  <2>3. AskedOnce(id) /\ KnownOrLeaving(id)
    BY <1>4
  <2>4. QED
    BY <1>2, <1>9, <1>10, <2>2, <2>3, QuietFor
<1>12. AskedOnce(ended)' /\ KnownOrLeaving(ended)'
  <2>1. PICK none \in Nat : \A i \in Nat : i + none = i
    BY Shifted
  <2>2. \A i \in Waiting(ended)' : i \in Nat /\ i + 1 \in Waiting(ended)
    BY <1>3 DEF Waiting
  <2>3. \A i \in Replies(ended)' :
          i \in Nat /\ i + none \in Replies(ended) /\ down'[i] = down[i + none]
    <3>1. TAKE i \in Replies(ended)'
    <3>2. i \in DOMAIN down' /\ down'[i].type # "unsubscribed"
      BY <3>1 DEF Replies
    <3>3. i \in DOMAIN down /\ down'[i] = down[i] /\ i \in Nat
      BY <1>6, <1>8, <3>2
    <3>4. i \in Replies(ended)
      BY <3>1, <3>3 DEF Replies
    <3>5. QED
      BY <2>1, <3>3, <3>4
  <2>4. Leaving(ended) /\ Leaving(ended)'
    <3>1. 1 \in Ending(ended)
      BY <1>3 DEF Ending
    <3>2. Len(down) + 1 \in Ended(ended)'
      BY <1>6, <1>8 DEF Ended
    <3>3. QED
      BY <3>1, <3>2 DEF Leaving
  <2>5. Known(ended)' = Known(ended) /\ Unending' = Unending
    BY <1>2 DEF Known, Unending
  <2>6. ~Listened(ended)' /\ AskedOnce(ended) /\ KnownOrLeaving(ended)
    BY <1>4, <1>9
  <2>7. /\ ended > subscribes' => ended > subscribes
        /\ ended \in held' => ended \in held
        /\ ended \in remade' => ended \in remade
        /\ ended \in Unending => ended \in Unending'
    BY <1>2, <2>5
  <2>8. QED
    BY <1>10, <2>1, <2>2, <2>3, <2>4, <2>5, <2>6, <2>7, KeptFor
<1>13. QED
  BY <1>5, <1>11, <1>12 DEF Accounted, Ids

-----------------------------------------------------------------------------
(* Steps of the element and of the connection.                             *)

\* A request is added, and nothing is sent: what a subscription that it is not about
\* sees of it.
LEMMA FollowedAdded ==
    ASSUME TypeOK, NEW id \in Ids, NEW r \in Requests, up' = Append(up, r), UNCHANGED down,
           NEW none \in Nat, \A i \in Nat : i + none = i,
           r.type \in {"subscribe", "unsubscribe"} => r.id # id
    PROVE  Followed(id, none)
<1>1. up \in Seq(Requests) /\ down \in Seq(Messages) /\ DOMAIN down \subseteq Nat
  BY LenProperties DEF TypeOK
<1>2. /\ Len(up) \in Nat /\ DOMAIN up = 1..Len(up) /\ DOMAIN up' = 1..(Len(up) + 1)
      /\ \A i \in DOMAIN up : i \in DOMAIN up' /\ up'[i] = up[i]
      /\ up'[Len(up) + 1] = r
      /\ DOMAIN up \subseteq Nat \ {0} /\ DOMAIN up' \subseteq Nat \ {0}
  BY <1>1, Added
<1>3. /\ \A i \in DOMAIN up' : up'[i].type \in {"subscribe", "unsubscribe"} /\ up'[i].id = id =>
             i + none \in DOMAIN up /\ up[i + none] = up'[i]
      /\ \A j \in DOMAIN up : \E i \in DOMAIN up' : up'[i] = up[j]
      /\ DOMAIN up \subseteq Nat /\ DOMAIN up' \subseteq Nat
  <2>1. ASSUME NEW i \in DOMAIN up', up'[i].type \in {"subscribe", "unsubscribe"}, up'[i].id = id
        PROVE  i + none \in DOMAIN up /\ up[i + none] = up'[i]
    <3>1. i # Len(up) + 1
      BY <1>2, <2>1
    <3>2. i \in DOMAIN up /\ i + none = i
      BY <1>2, <3>1
    <3>3. QED
      BY <1>2, <3>2
  <2>2. QED
    BY <1>2, <2>1
<1>4. /\ DOMAIN down' \subseteq Nat
      /\ \A i \in DOMAIN down : i \in DOMAIN down' /\ down'[i] = down[i]
      /\ \A i \in DOMAIN down' : i \in DOMAIN down
  BY <1>1
<1>5. QED
  BY <1>3, <1>4, Followers

LEMMA HassChangesStep == TypeOK /\ Accounted /\ HassChanges => Accounted'
<1>1. SUFFICES ASSUME TypeOK, Accounted, HassChanges, ~stranded' PROVE Accounted'
  BY DEF Accounted
<1>2. CASE UNCHANGED subscribes
  BY <1>1, <1>2, QuietSteps
<1>3. CASE ~UNCHANGED subscribes
  <2>1. PICK new \in Nat :
          /\ new = subscribes + 1 /\ new = subscribes' /\ new <= MaxSubscribes
          /\ ~subscribed /\ subscribed' = TRUE
          /\ up' = Append(up, Asked("subscribe", new))
          /\ held' = held \cup {new}
          /\ unanswered' = unanswered \cup {new}
          /\ UNCHANGED <<listeners, down, remade, unsub, stranded>>
    <3>1. subscribes \in Nat /\ MaxSubscribes \in Nat
      BY <1>1, PanelClientAssumption DEF TypeOK
    <3>2. subscribes < MaxSubscribes /\ subscribes' = subscribes + 1
      BY <1>1, <1>3 DEF HassChanges
    <3>3. subscribes' \in Nat /\ subscribes' <= MaxSubscribes
      BY <3>1, <3>2
    <3>4. QED
      BY <1>1, <1>3, <3>2, <3>3 DEF HassChanges
  <2>2. new \in Ids /\ new > subscribes /\ \A id \in Ids : id > new => id > subscribes
    BY <1>1, <2>1, SMT DEF TypeOK, Ids
  <2>3. OneKnown /\ \A id \in Ids : AskedOnce(id) /\ KnownOrLeaving(id)
    BY <1>1, <2>1 DEF Accounted
  <2>4. unanswered \cap held = {} /\ unsub = None
    BY <2>1, <2>3 DEF OneKnown
  <2>5. Fresh(new)
    BY <2>2, <2>3 DEF AskedOnce
  <2>6. unanswered' \cap held' = {new}
    BY <2>1, <2>4, <2>5 DEF Fresh, Known
  <2>7. OneKnown'
    BY <2>1, <2>4, <2>6 DEF OneKnown
  <2> DEFINE request == Asked("subscribe", new)
  <2>8. request \in Requests /\ request.type = "subscribe" /\ request.id = new
    BY <2>2, AskedTyped DEF Asked
  <2>9. up' = Append(up, request)
    BY <2>1
  <2> HIDE DEF request
  <2>10. PICK none \in Nat : \A i \in Nat : i + none = i
    BY Shifted
  <2>11. ASSUME NEW id \in Ids, id # new PROVE AskedOnce(id)' /\ KnownOrLeaving(id)'
    <3>1. Followed(id, none)
      BY <1>1, <2>1, <2>8, <2>9, <2>10, <2>11, FollowedAdded
    <3>2. Listened(id)' => Listened(id)
      BY <2>1 DEF Listened
    <3>3. AskedOnce(id) /\ KnownOrLeaving(id)
      BY <2>3
    <3>4. id > subscribes' => id > subscribes
      BY <2>1, <2>2
    <3>5. QED
      BY <2>1, <2>10, <2>11, <3>1, <3>2, <3>3, <3>4, QuietFor
  <2>12. AskedOnce(new)' /\ KnownOrLeaving(new)'
    <3>1. /\ Len(up) \in Nat /\ DOMAIN up = 1..Len(up) /\ DOMAIN up' = 1..(Len(up) + 1)
          /\ \A i \in DOMAIN up : i \in DOMAIN up' /\ up'[i] = up[i]
          /\ up'[Len(up) + 1] = request
      BY <1>1, <2>8, <2>9, Added DEF TypeOK
    <3>2. \A i \in DOMAIN up' : i \in DOMAIN up \/ i = Len(up) + 1
      BY <3>1
    <3>3. Waiting(new) = {} /\ Ending(new) = {} /\ Ended(new) = {} /\ Replies(new) = {}
      BY <2>5 DEF Fresh, Coming, Leaving
    <3>4. \A i \in Waiting(new)' : i = Len(up) + 1
      <4>1. TAKE i \in Waiting(new)'
      <4>2. i \in DOMAIN up' /\ up'[i].type = "subscribe" /\ up'[i].id = new
        BY <4>1 DEF Waiting
      <4>3. i \notin DOMAIN up
        BY <3>1, <3>3, <4>2 DEF Waiting
      <4>4. QED
        BY <3>2, <4>2, <4>3
    <3>5. Ending(new)' = {}
      <4>1. SUFFICES ASSUME NEW i \in Ending(new)' PROVE FALSE
        OBVIOUS
      <4>2. i \in DOMAIN up' /\ up'[i].type = "unsubscribe" /\ up'[i].id = new
        BY <4>1 DEF Ending
      <4>3. i \in DOMAIN up
        BY <2>8, <3>1, <3>2, <4>2
      <4>4. QED
        BY <3>1, <3>3, <4>2, <4>3 DEF Ending
    <3>6. Ended(new)' = {} /\ Replies(new)' = {} /\ ~Listened(new)'
      BY <2>1, <2>5, <3>3 DEF Ended, Replies, Listened, Fresh
    <3>7. ~Leaving(new)'
      BY <3>5, <3>6 DEF Leaving
    <3>8. ~(new > subscribes')
      BY <2>1
    <3>9. AskedOnce(new)'
      BY <3>4, <3>6, <3>7, <3>8 DEF AskedOnce
    <3>10. new \in Unending' /\ Known(new)'
      BY <2>1 DEF Unending, Known
    <3>11. KnownOrLeaving(new)'
      BY <3>6, <3>10 DEF KnownOrLeaving
    <3>12. QED
      BY <3>9, <3>11
  <2>13. QED
    BY <2>7, <2>11, <2>12 DEF Accounted, Ids
<1>4. QED
  BY <1>2, <1>3

LEMMA DisconnectedStep == TypeOK /\ Accounted /\ Disconnected => Accounted'
<1>1. SUFFICES ASSUME TypeOK, Accounted, Disconnected, ~stranded' PROVE Accounted'
  BY DEF Accounted
<1>2. /\ ~stranded /\ Unending = {} /\ unsub' = None /\ EndSubscription
      /\ UNCHANGED <<listeners, down, held, remade, unanswered, subscribes>>
  BY <1>1 DEF Disconnected, kept
<1>3. OneKnown /\ \A id \in Ids : AskedOnce(id) /\ KnownOrLeaving(id)
  BY <1>1, <1>2 DEF Accounted
<1>4. unanswered' \cap held' = {}
  <2>1. unanswered \cap held = {}
    BY <1>2 DEF Unending
  <2>2. QED
    BY <1>2, <2>1
<1>5. OneKnown'
  BY <1>2, <1>4 DEF OneKnown
<1>6. \A id \in Ids : ~Coming(id)
  BY <1>2, <1>3 DEF KnownOrLeaving
<1>7. PICK none \in Nat : \A i \in Nat : i + none = i
  BY Shifted
\* What is left of a subscription that the element does not end now.
<1>8. ASSUME NEW id \in Ids, Followed(id, none), id \in held => id # unsub
      PROVE  AskedOnce(id)' /\ KnownOrLeaving(id)'
  <2>1. AskedOnce(id) /\ KnownOrLeaving(id)
    BY <1>3
  <2>2. Listened(id)' = Listened(id)
    BY <1>2 DEF Listened
  <2>3. ~Coming(id)'
    BY <1>6, <1>8 DEF Followed, Coming
  <2>4. Leaving(id)' <=> Leaving(id)
    BY <1>8 DEF Followed, Leaving
  <2>5. Known(id)' => Known(id)
    <3>1. id # None
      BY PanelClientAssumption, SMT DEF Ids
    <3>2. QED
      BY <1>2, <3>1 DEF Known
  <2>6. id \in held' /\ (Known(id) \/ Leaving(id)) => Known(id)' \/ Leaving(id)'
    BY <1>2, <1>8, <2>4 DEF Known
  <2>7. Ended(id)' # {} => Ended(id) # {}
    BY <1>8 DEF Followed
  <2>8. \A i \in Waiting(id)' : i \in Nat /\ i + none \in Waiting(id)
    BY <1>8 DEF Followed
  <2>9. \A i \in Replies(id)' : i \in Nat /\ i + none \in Replies(id) /\ down'[i] = down[i + none]
    BY <1>7, <1>8 DEF Followed
  <2>10. QED
    BY <1>2, <1>7, <2>1, <2>2, <2>3, <2>4, <2>5, <2>6, <2>7, <2>8, <2>9, KeptFor
<1>9. CASE unsub = None \/ unsub \in remade
  <2>1. UNCHANGED up
    BY <1>2, <1>9 DEF EndSubscription
  <2>2. ASSUME NEW id \in Ids PROVE Followed(id, none) /\ (id \in held => id # unsub)
    <3>1. Waiting(id)' = Waiting(id) /\ Replies(id)' = Replies(id)
          /\ Ending(id)' = Ending(id) /\ Ended(id)' = Ended(id)
      BY <1>2, <2>1 DEF Waiting, Replies, Ending, Ended
    <3>2. Waiting(id) = {} /\ Replies(id) = {}
      BY <1>6 DEF Coming
    <3>3. Followed(id, none)
      BY <3>1, <3>2 DEF Followed
    <3>4. id # None
      BY PanelClientAssumption, SMT DEF Ids
    <3>5. id \in held => id # unsub
      BY <1>2, <1>9, <3>4 DEF Unending
    <3>6. QED
      BY <3>3, <3>5
  <2>3. QED
    BY <1>5, <1>8, <2>2 DEF Accounted, Ids
<1>10. CASE unsub # None /\ unsub \notin remade
  <2>1. PICK ended \in Ids : ended = unsub /\ up' = Append(up, Asked("unsubscribe", ended))
    BY <1>1, <1>2, <1>10 DEF EndSubscription, TypeOK
  <2> DEFINE request == Asked("unsubscribe", ended)
  <2>2. request \in Requests /\ request.type = "unsubscribe" /\ request.id = ended
    BY <2>1, AskedTyped DEF Asked
  <2>3. up' = Append(up, request)
    BY <2>1
  <2> HIDE DEF request
  <2>4. ASSUME NEW id \in Ids, id # ended PROVE AskedOnce(id)' /\ KnownOrLeaving(id)'
    <3>1. Followed(id, none)
      BY <1>1, <1>2, <1>7, <2>2, <2>3, <2>4, FollowedAdded
    <3>2. QED
      BY <1>8, <2>1, <2>4, <3>1
  <2>5. AskedOnce(ended)' /\ KnownOrLeaving(ended)'
    <3>1. /\ Len(up) \in Nat /\ DOMAIN up = 1..Len(up) /\ DOMAIN up' = 1..(Len(up) + 1)
          /\ \A i \in DOMAIN up : i \in DOMAIN up' /\ up'[i] = up[i]
          /\ up'[Len(up) + 1] = request
      BY <1>1, <2>2, <2>3, Added DEF TypeOK
    <3>2. \A i \in DOMAIN up' : i \in DOMAIN up \/ i = Len(up) + 1
      BY <3>1
    <3>3. AskedOnce(ended) /\ KnownOrLeaving(ended) /\ Waiting(ended) = {} /\ Replies(ended) = {}
      BY <1>3, <1>6 DEF Coming
    <3>4. Waiting(ended)' = {}
      <4>1. SUFFICES ASSUME NEW i \in Waiting(ended)' PROVE FALSE
        OBVIOUS
      <4>2. i \in DOMAIN up' /\ up'[i].type = "subscribe" /\ up'[i].id = ended
        BY <4>1 DEF Waiting
      <4>3. i \in DOMAIN up
        BY <2>2, <3>1, <3>2, <4>2
      <4>4. QED
        BY <3>1, <3>3, <4>2, <4>3 DEF Waiting
    <3>5. Replies(ended)' = {} /\ Ended(ended)' = Ended(ended) /\ Listened(ended)' = Listened(ended)
      BY <1>2, <3>3 DEF Replies, Ended, Listened
    <3>6. Len(up) + 1 \in Ending(ended)'
      BY <2>2, <3>1 DEF Ending
    <3>7. ~Coming(ended)' /\ Leaving(ended)'
      BY <3>4, <3>5, <3>6 DEF Coming, Leaving
    <3>8. ~(ended > subscribes')
      BY <1>2, <2>1, <3>3 DEF AskedOnce, Fresh, Known
    <3>9. AskedOnce(ended)'
      BY <3>3, <3>4, <3>5, <3>7, <3>8 DEF AskedOnce
    <3>10. KnownOrLeaving(ended)'
      BY <1>2, <3>3, <3>5, <3>7 DEF KnownOrLeaving
    <3>11. QED
      BY <3>9, <3>10
  <2>6. QED
    BY <1>5, <2>4, <2>5 DEF Accounted, Ids
<1>11. QED
  BY <1>9, <1>10

\* After a lost connection every subscription that is held is asked for once.
LEMMA ResubscribedOnce ==
    ASSUME held \subseteq Ids, NEW requests \in Resubscribed
    PROVE  /\ \A i \in DOMAIN requests : requests[i].type = "subscribe" /\ requests[i].id \in held
           /\ \A i, j \in DOMAIN requests : requests[i].id = requests[j].id => i = j
<1>1. Cardinality(held) \in Nat
  <2>1. held \subseteq 1..MaxSubscribes
    BY DEF Ids
  <2>2. IsFiniteSet(1..MaxSubscribes)
    BY PanelClientAssumption, FS_Interval, SMT
  <2>3. QED
    BY <2>1, <2>2, FS_Subset, FS_CardinalityType
<1>2. /\ requests \in [1..Cardinality(held) -> {Asked("subscribe", id) : id \in held}]
      /\ \A i, j \in DOMAIN requests : i < j => requests[i].id < requests[j].id
  BY DEF Resubscribed
<1>3. \A i \in DOMAIN requests : requests[i].type = "subscribe" /\ requests[i].id \in held
  <2>1. TAKE i \in DOMAIN requests
  <2>2. PICK id \in held : requests[i] = Asked("subscribe", id)
    BY <1>2
  <2>3. QED
    BY <2>2 DEF Asked
<1>4. \A i, j \in DOMAIN requests : requests[i].id = requests[j].id => i = j
  <2>1. TAKE i, j \in DOMAIN requests
  <2>2. i \in Int /\ j \in Int
    BY <1>1, <1>2
  <2>3. requests[i].id \in Int /\ requests[j].id \in Int
    <3>1. \A id \in Ids : id \in Int
      BY SMT DEF Ids
    <3>2. QED
      BY <1>3, <3>1
  <2>4. (i < j => requests[i].id < requests[j].id) /\ (j < i => requests[j].id < requests[i].id)
    BY <1>2
  <2>5. QED
    BY <2>2, <2>3, <2>4
<1>5. QED
  BY <1>3, <1>4

LEMMA LostStep == TypeOK /\ Accounted /\ ConnectionLost => Accounted'
<1>1. SUFFICES ASSUME TypeOK, Accounted, ConnectionLost, ~stranded' PROVE Accounted'
  BY DEF Accounted
<1>2. /\ up' \in Resubscribed /\ down' = <<>> /\ listeners' = {} /\ remade' = remade \cup held
      /\ ~stranded /\ Of(up, {"unsubscribe"}) = {} /\ Of(down, {"unsubscribed"}) = {}
      /\ UNCHANGED <<held, subscribed, unsub, unanswered, subscribes>>
  BY <1>1 DEF ConnectionLost
<1>3. OneKnown /\ \A id \in Ids : AskedOnce(id) /\ KnownOrLeaving(id)
  BY <1>1, <1>2 DEF Accounted
<1>4. OneKnown'
  BY <1>2, <1>3 DEF OneKnown
<1>5. /\ \A i \in DOMAIN up' : up'[i].type = "subscribe" /\ up'[i].id \in held
      /\ \A i, j \in DOMAIN up' : up'[i].id = up'[j].id => i = j
  BY <1>1, <1>2, ResubscribedOnce DEF TypeOK
<1>6. ASSUME NEW id \in Ids PROVE AskedOnce(id)' /\ KnownOrLeaving(id)'
  <2>1. AskedOnce(id) /\ KnownOrLeaving(id)
    BY <1>3
  <2>2. Replies(id)' = {} /\ Ended(id)' = {} /\ Ending(id)' = {} /\ ~Listened(id)'
    BY <1>2, <1>5 DEF Replies, Ended, Ending, Listened
  <2>3. ~Leaving(id) /\ ~Leaving(id)'
    BY <1>2, <2>2 DEF Leaving, Ending, Ended, Of
  <2>4. Waiting(id)' # {} => id \in held
    BY <1>5 DEF Waiting
  <2>5. \A i, j \in Waiting(id)' : i = j
    BY <1>5 DEF Waiting
  <2>6. id \in held => Known(id) /\ Known(id)' /\ id \in Unending'
    BY <1>2, <2>1, <2>3 DEF KnownOrLeaving, Known, Unending
  <2>7. id > subscribes' => Fresh(id)'
    <3>1. SUFFICES ASSUME id > subscribes' PROVE Fresh(id)'
      OBVIOUS
    <3>2. Fresh(id)
      BY <1>2, <2>1, <3>1 DEF AskedOnce
    <3>3. ~Coming(id)' /\ id \notin held' /\ id \notin remade' /\ ~Known(id)'
      BY <1>2, <2>2, <2>4, <3>2 DEF Fresh, Coming, Known
    <3>4. QED
      BY <2>2, <2>3, <3>3 DEF Fresh
  <2>8. AskedOnce(id)'
    BY <2>2, <2>3, <2>5, <2>7 DEF AskedOnce
  <2>9. KnownOrLeaving(id)'
    BY <1>2, <2>2, <2>4, <2>6 DEF KnownOrLeaving, Coming
  <2>10. QED
    BY <2>8, <2>9
<1>7. QED
  BY <1>4, <1>6 DEF Accounted, Ids

LEMMA Appended ==
    ASSUME up \in Seq(Requests), NEW requests \in Seq(Requests), up' = up \o requests
    PROVE  /\ DOMAIN up \subseteq Nat \ {0} /\ DOMAIN up' \subseteq Nat \ {0}
           /\ \A i \in DOMAIN up : i \in DOMAIN up' /\ up'[i] = up[i]
           /\ \A i \in DOMAIN up' :
                i \in DOMAIN up \/ \E k \in DOMAIN requests : up'[i] = requests[k]
<1>1. /\ up' \in Seq(Requests) /\ Len(up') = Len(up) + Len(requests)
      /\ \A i \in 1..(Len(up) + Len(requests)) :
           up'[i] = IF i <= Len(up) THEN up[i] ELSE requests[i - Len(up)]
  BY ConcatProperties
<1>2. /\ DOMAIN up' = 1..(Len(up) + Len(requests)) /\ DOMAIN up = 1..Len(up)
      /\ DOMAIN requests = 1..Len(requests) /\ Len(up) \in Nat /\ Len(requests) \in Nat
  BY <1>1, LenProperties
<1>3. DOMAIN up \subseteq Nat \ {0} /\ DOMAIN up' \subseteq Nat \ {0}
  BY <1>2
<1>4. \A i \in DOMAIN up : i \in DOMAIN up' /\ up'[i] = up[i]
  BY <1>1, <1>2
<1>5. ASSUME NEW i \in DOMAIN up', i \notin DOMAIN up
      PROVE  \E k \in DOMAIN requests : up'[i] = requests[k]
  <2>1. ~(i <= Len(up)) /\ i - Len(up) \in DOMAIN requests
    BY <1>2, <1>5
  <2>2. QED
    BY <1>1, <1>2, <1>5, <2>1
<1>6. QED
  BY <1>3, <1>4, <1>5

LEMMA ReceiveStep == TypeOK /\ Accounted /\ Receive => Accounted'
<1>1. SUFFICES ASSUME TypeOK, Accounted, Receive, ~stranded' PROVE Accounted'
  BY DEF Accounted
<1>2. PICK n \in 1..Len(down) : Receive!(n)
  BY <1>1 DEF Receive
<1> DEFINE batch == SubSeq(down, 1, n)
           rest == SubSeq(down, n + 1, Len(down))
           fetches == Refetch(1..Cardinality(Of(batch, {"written"})))
<1>3. /\ n \in Nat /\ DOMAIN batch = 1..n
      /\ \A i \in DOMAIN batch : batch[i] = down[i] /\ i \in DOMAIN down
      /\ rest \in Seq(Messages) /\ Len(rest) = Len(down) - n
      /\ \A i \in 1..(Len(down) - n) : rest[i] = down[n + i] /\ n + i \in DOMAIN down
  BY <1>1, BatchProperties DEF TypeOK
<1>4. /\ down' = rest /\ Settles(batch) /\ up' = up \o fetches /\ held' = held \ Dropped(batch)
      /\ UNCHANGED <<listeners, subscribes, stranded>>
  BY <1>2
<1>5. OneKnown /\ \A id \in Ids : AskedOnce(id) /\ KnownOrLeaving(id)
  BY <1>1, <1>4 DEF Accounted
\* The messages that are left, and those that are handled.
<1>6. /\ \A i \in DOMAIN down' : i \in Nat \ {0} /\ i + n \in DOMAIN down /\ down'[i] = down[i + n]
      /\ \A i \in DOMAIN down : i \in DOMAIN batch \/ \E k \in DOMAIN down' : down'[k] = down[i]
      /\ \A i \in Nat \ {0} : i + n \notin DOMAIN batch
  <2> HIDE DEF batch, rest, fetches
  <2>1. DOMAIN rest = 1..(Len(down) - n) /\ DOMAIN down = 1..Len(down) /\ Len(down) \in Nat
    BY <1>1, <1>3, LenProperties DEF TypeOK
  <2>2. \A i \in DOMAIN rest :
          /\ i \in Nat \ {0} /\ i + n = n + i /\ n + i \in DOMAIN down /\ rest[i] = down[n + i]
    BY <1>3, <2>1
  <2>3. \A i \in DOMAIN rest : i \in Nat \ {0} /\ i + n \in DOMAIN down /\ rest[i] = down[i + n]
    <3>1. TAKE i \in DOMAIN rest
    <3>2. QED
      BY <2>2, Zenon
  <2>4. \A i \in DOMAIN down : i \in DOMAIN batch \/ \E k \in DOMAIN rest : rest[k] = down[i]
    <3>1. TAKE i \in DOMAIN down
    <3>2. i \in Nat \ {0} /\ i <= Len(down)
      BY <2>1
    <3>3. CASE i <= n
      BY <1>3, <3>2, <3>3
    <3>4. CASE ~(i <= n)
      <4>1. i - n \in 1..(Len(down) - n) /\ n + (i - n) = i
        BY <1>3, <2>1, <3>2, <3>4
      <4>2. i - n \in DOMAIN rest
        BY <2>1, <4>1
      <4>3. rest[i - n] = down[i]
        BY <2>2, <4>1, <4>2, Zenon
      <4>4. QED
        BY <4>2, <4>3, Zenon
    <3>5. QED
      BY <3>3, <3>4
  <2>5. \A i \in Nat \ {0} : i + n \notin DOMAIN batch
    BY <1>3
  <2>6. QED
    BY <1>4, <2>3, <2>4, <2>5, Zenon
<1>7. /\ DOMAIN up \subseteq Nat /\ DOMAIN up' \subseteq Nat
      /\ \A i \in DOMAIN up : i \in DOMAIN up' /\ up'[i] = up[i]
      /\ \A i \in DOMAIN up' : i \in DOMAIN up \/ up'[i].type = "fetch"
  <2>1. fetches \in Seq(Requests) /\ \A k \in DOMAIN fetches : fetches[k].type = "fetch"
    <3>1. Cardinality(Of(batch, {"written"})) \in Nat
      <4>1. Of(batch, {"written"}) \subseteq 1..n
        BY <1>3 DEF Of
      <4>2. IsFiniteSet(1..n)
        BY <1>3, FS_Interval, SMT
      <4>3. QED
        BY <4>1, <4>2, FS_Subset, FS_CardinalityType
    <3>2. Asked("fetch", None) \in Requests /\ Asked("fetch", None).type = "fetch"
      BY AskedTyped DEF Asked
    <3>3. QED
      BY <3>1, <3>2, IsASeq DEF Refetch
  <2> HIDE DEF fetches
  <2>2. QED
    BY <1>1, <1>4, <2>1, Appended DEF TypeOK
<1>8. /\ \A i \in DOMAIN batch : batch[i] = down[i] /\ i \in DOMAIN down
      /\ held' = held \ Dropped(batch) /\ Settles(batch) /\ n \in Nat
  BY <1>3, <1>4
<1> HIDE DEF batch, rest, fetches
<1> DEFINE answered == {i \in Of(batch, {"subscribed"}) : batch[i].id \in unanswered}
           refused == Refusals(batch)
<1>9. /\ unanswered' = unanswered \ {batch[i].id : i \in answered \cup refused}
      /\ \/ \E i \in answered : unsub' = batch[i].id
         \/ answered = {} /\ unsub' = unsub
      /\ subscribed' = (subscribed /\ refused = {})
      /\ remade' = remade \ {batch[i].id : i \in Of(batch, {"subscribed"})}
  BY <1>8 DEF Settles, LastOf
<1>10. unanswered \subseteq Ids /\ None \notin Ids
  BY <1>1, PanelClientAssumption, SMT DEF TypeOK, Ids
\* What is settled was awaited by the element, and held.
<1>11. ASSUME NEW i \in answered \cup refused
       PROVE  /\ i \in Replies(batch[i].id) /\ i \in DOMAIN batch
              /\ batch[i].id \in unanswered \cap held
  <2>1. /\ i \in DOMAIN batch /\ batch[i].id \in unanswered
        /\ batch[i].type \in {"subscribed", "subscribe refused"}
    BY <1>11 DEF Of, Refusals
  <2>2. i \in Replies(batch[i].id) /\ batch[i].id \in Ids
    BY <1>8, <1>10, <2>1 DEF Replies
  <2>3. Coming(batch[i].id)
    BY <2>2 DEF Coming
  <2>4. batch[i].id \in held
    BY <1>5, <2>2, <2>3 DEF KnownOrLeaving, Unending
  <2>5. QED
    BY <2>1, <2>2, <2>4
<1>12. /\ \A i \in answered : batch[i].type = "subscribed"
       /\ \A i \in refused : batch[i].type = "subscribe refused" /\ batch[i].id \in Dropped(batch)
  BY DEF Of, Refusals, Dropped
<1> HIDE DEF answered, refused
<1>13. ASSUME answered # {}
       PROVE  refused = {} /\ unsub = None /\ subscribed
  <2>1. PICK i \in answered : TRUE
    BY <1>13
  <2>2. batch[i].id \in unanswered \cap held /\ i \in Replies(batch[i].id)
    BY <1>11
  <2>3. unsub = None /\ subscribed
    BY <1>5, <2>2 DEF OneKnown
  <2>4. ASSUME NEW k \in refused PROVE FALSE
    <3>1. batch[k].id \in unanswered \cap held /\ k \in Replies(batch[k].id)
      BY <1>11
    <3>2. batch[k].id = batch[i].id
      BY <1>5, <2>2, <3>1 DEF OneKnown
    <3>3. k = i
      BY <1>5, <1>10, <2>2, <3>1, <3>2 DEF AskedOnce
    <3>4. QED
      BY <1>12, <3>3
  <2>5. QED
    BY <2>3, <2>4
<1>14. OneKnown'
  <2>1. unanswered' \cap held' \subseteq unanswered \cap held
    BY <1>8, <1>9
  <2>2. CASE answered # {}
    <3>1. PICK i \in answered : TRUE
      BY <2>2
    <3>2. batch[i].id \in unanswered \cap held /\ batch[i].id \notin unanswered'
      BY <1>9, <1>11
    <3>3. unanswered' \cap held' = {}
      BY <1>5, <2>1, <3>2 DEF OneKnown
    <3>4. subscribed'
      BY <1>9, <1>13, <2>2
    <3>5. QED
      BY <3>3, <3>4 DEF OneKnown
  <2>3. CASE answered = {} /\ refused # {}
    <3>1. PICK i \in refused : TRUE
      BY <2>3
    <3>2. batch[i].id \in unanswered \cap held /\ batch[i].id \notin unanswered'
      BY <1>9, <1>11
    <3>3. unanswered' \cap held' = {}
      BY <1>5, <2>1, <3>2 DEF OneKnown
    <3>4. unsub' = None
      BY <1>5, <1>9, <2>3, <3>2 DEF OneKnown
    <3>5. QED
      BY <3>3, <3>4 DEF OneKnown
  <2>4. CASE answered = {} /\ refused = {}
    <3>1. unsub' = unsub /\ subscribed' <=> subscribed
      BY <1>9, <2>4
    <3>2. QED
      BY <1>5, <1>9, <2>1, <2>4, <3>1 DEF OneKnown
  <2>5. QED
    BY <2>2, <2>3, <2>4
<1>15. PICK none \in Nat : \A i \in Nat : i + none = i
  BY Shifted
<1>16. ASSUME NEW id \in Ids PROVE AskedOnce(id)' /\ KnownOrLeaving(id)'
  <2>1. AskedOnce(id) /\ KnownOrLeaving(id)
    BY <1>5
  <2>2. \A i \in Waiting(id)' : i \in Nat /\ i + none \in Waiting(id)
    <3>1. TAKE i \in Waiting(id)'
    <3>2. i \in DOMAIN up' /\ i \in Nat /\ i \in DOMAIN up /\ up[i] = up'[i]
      BY <1>7, <3>1 DEF Waiting
    <3>3. i \in Waiting(id)
      BY <3>1, <3>2 DEF Waiting
    <3>4. QED
      BY <1>15, <3>2, <3>3
  <2>3. \A i \in Replies(id)' : i \in Nat \ {0} /\ i + n \in Replies(id) /\ down'[i] = down[i + n]
    BY <1>6 DEF Replies
  <2>4. Ending(id)' = Ending(id)
    BY <1>7 DEF Ending
  <2>5. Ended(id)' # {} => Ended(id) # {}
    <3>1. \A i \in Ended(id)' : i + n \in Ended(id)
      BY <1>6 DEF Ended
    <3>2. QED
      BY <3>1
  <2>6. Leaving(id)' => Leaving(id)
    BY <2>4, <2>5 DEF Leaving
  <2>7. id \in Dropped(batch) =>
          \/ Ended(id) # {}
          \/ \E i \in Replies(id) : i \in DOMAIN batch /\ down[i].type = "subscribe refused"
    BY <1>8 DEF Dropped, Of, Ended, Replies
  <2>8. Ended(id) # {} => Ended(id)' # {} \/ id \in Dropped(batch)
    <3>1. SUFFICES ASSUME NEW i \in Ended(id) PROVE Ended(id)' # {} \/ id \in Dropped(batch)
      OBVIOUS
    <3>2. i \in DOMAIN down /\ down[i].type = "unsubscribed" /\ down[i].id = id
      BY <3>1 DEF Ended
    <3>3. CASE i \in DOMAIN batch
      BY <1>8, <3>2, <3>3 DEF Dropped, Of
    <3>4. CASE i \notin DOMAIN batch
      <4>1. PICK k \in DOMAIN down' : down'[k] = down[i]
        BY <1>6, <3>2, <3>4
      <4>2. k \in Ended(id)'
        BY <3>2, <4>1 DEF Ended
      <4>3. QED
        BY <4>2
    <3>5. QED
      BY <3>3, <3>4
  <2>9. Listened(id)' => Listened(id) /\ (id \in held => id \in held')
    <3>1. Listened(id)' = Listened(id)
      BY <1>4 DEF Listened
    <3>2. Listened(id) => id \notin Dropped(batch)
      BY <2>1, <2>7 DEF AskedOnce
    <3>3. QED
      BY <1>8, <3>1, <3>2
  <2>10. (id \in held' => id \in held) /\ (id \in remade' => id \in remade)
    BY <1>8, <1>9
  <2>11. Known(id)' => Known(id)
    BY <1>9, <1>11 DEF Known
  <2>12. id = unsub /\ id \in held => unsub' = unsub
    <3>1. id = unsub /\ id \in held => answered = {}
      BY <1>10, <1>13
    <3>2. QED
      BY <1>9, <3>1
  <2>13. Coming(id)' /\ id \in Unending => id \in Unending'
    <3>1. SUFFICES ASSUME Coming(id)', id \in Unending PROVE id \in Unending'
      OBVIOUS
    <3>2. Ended(id) = {}
      <4>1. Coming(id)
        BY <2>2, <2>3, <3>1 DEF Coming
      <4>2. QED
        BY <2>1, <4>1 DEF AskedOnce, Leaving
    <3>3. \A k \in Replies(id) : k \notin DOMAIN batch
      <4>1. CASE Waiting(id)' # {}
        <5>1. Waiting(id) # {}
          BY <2>2, <4>1
        <5>2. QED
          BY <2>1, <5>1 DEF AskedOnce
      <4>2. CASE Replies(id)' # {}
        <5>1. PICK i \in Replies(id)' : TRUE
          BY <4>2
        <5>2. i \in Nat \ {0} /\ i + n \in Replies(id)
          BY <2>3
        <5>3. \A k \in Replies(id) : k = i + n
          BY <2>1, <5>2 DEF AskedOnce
        <5>4. QED
          BY <1>6, <5>2, <5>3
      <4>3. QED
        BY <3>1, <4>1, <4>2 DEF Coming
    <3>4. id \in held'
      BY <1>8, <2>7, <3>1, <3>2, <3>3 DEF Unending
    <3>5. \A i \in DOMAIN batch :
            batch[i].type \in {"subscribed", "subscribe refused"} => batch[i].id # id
      BY <1>8, <3>3 DEF Replies
    <3>6. \A i \in answered \cup refused : batch[i].id # id
      BY <1>11, <3>3
    <3>7. id \in unanswered => id \in unanswered'
      BY <1>9, <3>6
    <3>8. id \in remade => id \in remade'
      BY <1>9, <3>5 DEF Of
    <3>9. QED
      BY <2>12, <3>1, <3>4, <3>7, <3>8 DEF Unending
  <2>14. id \in held' /\ (Known(id) \/ Leaving(id)) => Known(id)' \/ Leaving(id)'
    <3>1. SUFFICES ASSUME id \in held', Known(id) \/ Leaving(id) PROVE Known(id)' \/ Leaving(id)'
      OBVIOUS
    <3>2. id \in held /\ id \notin Dropped(batch)
      BY <1>8, <3>1
    <3>3. CASE Leaving(id)
      BY <2>4, <2>8, <3>2, <3>3 DEF Leaving
    <3>4. CASE id = unsub
      BY <2>12, <3>2, <3>4 DEF Known
    <3>5. CASE id \in unanswered
      <4>1. CASE id \in unanswered'
        BY <4>1 DEF Known
      <4>2. CASE id \notin unanswered'
        <5>1. PICK i \in answered \cup refused : batch[i].id = id
          BY <1>9, <3>5, <4>2
        <5>2. i \in answered
          BY <1>12, <3>2, <5>1
        <5>3. PICK k \in answered : unsub' = batch[k].id
          BY <1>9, <5>2
        <5>4. batch[k].id = id
          BY <1>5, <1>11, <5>1, <5>3 DEF OneKnown
        <5>5. QED
          BY <5>3, <5>4 DEF Known
      <4>3. QED
        BY <4>1, <4>2
    <3>6. QED
      BY <3>1, <3>3, <3>4, <3>5 DEF Known
  <2>15. id > subscribes' => id > subscribes
    BY <1>4
  <2>16. QED
    BY <1>8, <1>15, <2>1, <2>2, <2>3, <2>5, <2>6, <2>9, <2>10, <2>11, <2>13, <2>14, <2>15, KeptFor
<1>17. QED
  BY <1>14, <1>16 DEF Accounted, Ids

LEMMA AccountedStep == TypeOK /\ Accounted /\ [Next]_vars => Accounted'
  BY QuietSteps, SubscribeStep, UnsubscribeStep, HassChangesStep, DisconnectedStep, ReceiveStep,
     LostStep DEF Next, Serve

\* Each listener of the panel is the one it would end, one whose answer it awaits, or
\* one it is ending, unless a subscription was stranded.
THEOREM ListenersAccounted == Spec => []ListensOnce
<1>1. Init => Accounted
  <2>1. SUFFICES ASSUME Init, NEW id \in Ids
                 PROVE  AskedOnce(id) /\ KnownOrLeaving(id)
    BY DEF Init, Accounted, OneKnown
  <2>2. /\ DOMAIN up = {} /\ DOMAIN down = {} /\ listeners = {} /\ held = {} /\ remade = {}
        /\ unanswered = {} /\ unsub = None
    BY <2>1 DEF Init
  <2>3. /\ Waiting(id) = {} /\ Replies(id) = {} /\ Ending(id) = {} /\ Ended(id) = {}
        /\ ~Listened(id)
    BY <2>2 DEF Waiting, Replies, Ending, Ended, Listened
  <2>4. id # None
    BY PanelClientAssumption, SMT DEF Ids
  <2>5. Fresh(id)
    BY <2>2, <2>3, <2>4 DEF Fresh, Coming, Leaving, Known
  <2>6. QED
    BY <2>2, <2>3, <2>5 DEF AskedOnce, KnownOrLeaving, Fresh
<1>2. TypeOK /\ Accounted => ListensOnce
  <2>1. SUFFICES ASSUME TypeOK, Accounted, ~stranded, NEW l \in listeners
                 PROVE  \/ l.id = unsub
                        \/ l.id \in unanswered
                        \/ \E i \in DOMAIN up : up[i] = Asked("unsubscribe", l.id)
    BY DEF ListensOnce
  <2>2. l.id \in Ids /\ Listened(l.id)
    BY <2>1 DEF TypeOK, Listened
  <2>3. AskedOnce(l.id) /\ KnownOrLeaving(l.id)
    BY <2>1, <2>2 DEF Accounted
  <2>4. Known(l.id) \/ Ending(l.id) # {}
    BY <2>2, <2>3 DEF AskedOnce, KnownOrLeaving, Leaving
  <2>5. \A i \in Ending(l.id) : i \in DOMAIN up /\ up[i] = Asked("unsubscribe", l.id)
    <3>1. TAKE i \in Ending(l.id)
    <3>2. i \in DOMAIN up /\ up[i].type = "unsubscribe" /\ up[i].id = l.id
      BY <3>1 DEF Ending
    <3>3. up[i] \in Requests
      BY <2>1, <3>2, ElementOfSeq, LenProperties DEF TypeOK
    <3>4. QED
      BY <3>2, <3>3 DEF Requests, Asked
  <2>6. QED
    BY <2>4, <2>5 DEF Known
<1>3. TypeOK /\ Accounted /\ [Next]_vars => Accounted'
  BY AccountedStep
<1>4. QED
  BY <1>1, <1>2, <1>3, PanelTypeCorrect, PTL DEF Spec
=============================================================================
