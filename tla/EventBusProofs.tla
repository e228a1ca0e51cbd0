--------------------------- MODULE EventBusProofs ---------------------------
(***************************************************************************)
(* What a WebSocket receives, for every number of sessions, every capacity *)
(* and every identity.                                                     *)
(***************************************************************************)
EXTENDS EventBus, TLAPS

Shape ==
    /\ sent \in Seq(TenantEvent)
    /\ sender \in [Sockets -> {"absent", "receiving", "sending", "done"}]
    /\ receiver \in [Sockets -> {"absent", "reading", "done"}]
    /\ cursor \in [Sockets -> Nat]
    /\ start \in [Sockets -> Nat]
    /\ delivered \in [Sockets -> Seq(Nat)]
    /\ skipped \in [Sockets -> SUBSET Nat]

(* Where a session stands in the channel.                                  *)
Position(s) ==
    /\ 1 <= start[s] /\ start[s] <= cursor[s] /\ cursor[s] <= Len(sent) + 1
    /\ sender[s] = "absent" => delivered[s] = <<>> /\ skipped[s] = {}
    /\ sender[s] = "sending" => start[s] < cursor[s] /\ Visible(s, cursor[s] - 1)

(* What was delivered lies before the cursor, and before what is in hand.  *)
Order(s) ==
    /\ \A j \in DOMAIN delivered[s] :
          /\ start[s] <= delivered[s][j] /\ delivered[s][j] < cursor[s]
          /\ sender[s] = "sending" => delivered[s][j] < cursor[s] - 1
          /\ Visible(s, delivered[s][j])
    /\ \A j, k \in DOMAIN delivered[s] : j < k => delivered[s][j] < delivered[s][k]

(* What was missed lies before the cursor, is gone, and was not delivered. *)
Missed(s) ==
    /\ \A i \in skipped[s] : start[s] <= i /\ i < cursor[s] /\ i + Capacity <= Len(sent)
    /\ \A j \in DOMAIN delivered[s] : delivered[s][j] \notin skipped[s]
    /\ sender[s] = "sending" => cursor[s] - 1 \notin skipped[s]

(* Every visible event before the cursor is accounted for.                 *)
Covered(s) ==
    Subscribed(s) =>
        \A i \in Nat :
            start[s] <= i /\ i < cursor[s] /\ Visible(s, i) =>
                \/ i \in skipped[s]
                \/ \E j \in DOMAIN delivered[s] : delivered[s][j] = i
                \/ sender[s] = "sending" /\ i = cursor[s] - 1

Session(s) == Position(s) /\ Order(s) /\ Missed(s) /\ Covered(s)

BusInv == Shape /\ \A s \in Sockets : Session(s)

-----------------------------------------------------------------------------
(* The channel is empty and nobody has subscribed.                         *)
LEMMA InitInv == Init => BusInv
  BY BusAssumption DEF Init, BusInv, Shape, Session, Position, Order, Missed, Covered, Subscribed

(* Every step keeps the shape of the state.                                *)
LEMMA ShapeStep == ASSUME BusInv, Next PROVE Shape'
<1> USE BusAssumption DEF Shape, BusInv
<1>1. ASSUME NEW event \in Published, publish_event(event) PROVE Shape'
  BY <1>1 DEF publish_event
<1>2. ASSUME NEW s \in Sockets, SocketStep(s) PROVE Shape'
  <2>1. CASE Subscribe(s)
    BY <2>1 DEF Subscribe
  <2>2. CASE Receive(s)
    BY <2>2 DEF Receive
  <2>3. CASE Lagged(s)
    <3>1. Oldest \in Nat /\ cursor[s] \in Nat
      BY DEF Oldest
    <3>2. cursor[s]..(Oldest - 1) \subseteq Nat
      BY <3>1
    <3>3. QED
      BY <2>3, <3>1, <3>2 DEF Lagged
  <2>4. CASE SendOk(s)
    <3>1. cursor[s] - 1 \in Nat
      BY <2>4 DEF SendOk, Session, Position
    <3>2. QED
      BY <2>4, <3>1 DEF SendOk
  <2>5. CASE SendError(s)
    BY <2>5 DEF SendError
  <2>6. CASE PeerCloses(s)
    BY <2>6 DEF PeerCloses
  <2>7. CASE Select(s)
    BY <2>7 DEF Select
  <2>8. QED
    BY <1>2, <2>1, <2>2, <2>3, <2>4, <2>5, <2>6, <2>7 DEF SocketStep
<1>3. QED
  BY <1>1, <1>2 DEF Next

(* A session nobody touches stays as it is while the channel does.         *)
LEMMA Untouched ==
    ASSUME NEW t \in Sockets, Session(t), sent' = sent, sender'[t] = sender[t],
           cursor'[t] = cursor[t], start'[t] = start[t], delivered'[t] = delivered[t],
           skipped'[t] = skipped[t]
    PROVE  Session(t)'
  BY DEF Session, Position, Order, Missed, Covered, Subscribed, Visible

(* A new event lies behind every cursor and changes no older one.          *)
LEMMA PublishStep ==
    ASSUME BusInv, NEW event \in Published, publish_event(event), NEW t \in Sockets
    PROVE  Session(t)'
<1> USE BusAssumption DEF BusInv, Shape, publish_event
<1>1. Len(sent') = Len(sent) + 1 /\ Len(sent) \in Nat /\ Capacity \in Nat
  OBVIOUS
<1>2. \A i \in Nat : 1 <= i /\ i <= Len(sent) => sent'[i] = sent[i]
  OBVIOUS
<1>3. \A i \in Nat : 1 <= i /\ i <= Len(sent) => (Visible(t, i)' <=> Visible(t, i))
  BY <1>2 DEF Visible
<1>4. Session(t) /\ cursor[t] \in Nat /\ start[t] \in Nat /\ delivered[t] \in Seq(Nat)
      /\ skipped[t] \in SUBSET Nat
  OBVIOUS
<1>5. Position(t)'
  <2>1. cursor[t] - 1 \in Nat /\ cursor[t] - 1 <= Len(sent)
    BY <1>1, <1>4 DEF Session, Position
  <2>2. QED
    BY <1>1, <1>3, <1>4, <2>1 DEF Session, Position
<1>6. Order(t)'
  <2>1. \A j \in DOMAIN delivered[t] : delivered[t][j] \in Nat
    BY <1>4
  <2>2. QED
    BY <1>1, <1>3, <1>4, <2>1 DEF Session, Order, Position
<1>7. Missed(t)'
  BY <1>1, <1>4 DEF Session, Missed
<1>8. Covered(t)'
  <2>1. \A i \in Nat : start[t] <= i /\ i < cursor[t] => 1 <= i /\ i <= Len(sent)
    BY <1>1, <1>4 DEF Session, Position
  <2>2. \A i \in Nat : start[t] <= i /\ i < cursor[t] => (Visible(t, i)' <=> Visible(t, i))
    BY <1>3, <2>1
  <2>3. Subscribed(t)' <=> Subscribed(t)
    BY DEF Subscribed
  <2>4. start'[t] = start[t] /\ cursor'[t] = cursor[t] /\ skipped'[t] = skipped[t]
        /\ delivered'[t] = delivered[t] /\ sender'[t] = sender[t]
    OBVIOUS
  <2> HIDE DEF BusInv, Shape, publish_event
  <2>5. QED
    BY <1>4, <2>2, <2>3, <2>4 DEF Session, Covered
<1>9. QED
  BY <1>5, <1>6, <1>7, <1>8 DEF Session

(* A subscription starts behind the last event.                            *)
LEMMA SubscribeStep ==
    ASSUME BusInv, NEW s \in Sockets, Subscribe(s)
    PROVE  Session(s)'
  BY DEF BusInv, Shape, Subscribe, Session, Position, Order, Missed, Covered, Subscribed

(* recv hands over the event at the cursor, or passes it over.             *)
LEMMA ReceiveStep ==
    ASSUME BusInv, NEW s \in Sockets, Receive(s)
    PROVE  Session(s)'
<1> USE BusAssumption DEF BusInv, Shape, Receive
<1>1. Session(s) /\ cursor[s] \in Nat /\ start[s] \in Nat /\ delivered[s] \in Seq(Nat)
      /\ skipped[s] \in SUBSET Nat /\ Len(sent) \in Nat
  OBVIOUS
<1>2. cursor'[s] = cursor[s] + 1 /\ cursor[s] <= Len(sent)
  BY <1>1 DEF Oldest
<1>3. sender'[s] = IF Visible(s, cursor[s]) THEN "sending" ELSE "receiving"
  OBVIOUS
<1>4. \A i : Visible(s, i)' <=> Visible(s, i)
  BY DEF Visible
<1>5. start'[s] = start[s] /\ delivered'[s] = delivered[s] /\ skipped'[s] = skipped[s]
      /\ sent' = sent /\ sender[s] = "receiving"
  OBVIOUS
<1>6. \A j \in DOMAIN delivered[s] : delivered[s][j] \in Nat
  BY <1>1
<1> HIDE DEF BusInv, Shape, Receive
<1>7. Position(s)'
  BY <1>1, <1>2, <1>3, <1>4, <1>5 DEF Session, Position
<1>8. Order(s)'
  BY <1>1, <1>2, <1>3, <1>4, <1>5, <1>6 DEF Session, Order
<1>9. Missed(s)'
  BY <1>1, <1>2, <1>3, <1>5 DEF Session, Missed
<1>10. Covered(s)'
  BY <1>1, <1>2, <1>3, <1>4, <1>5 DEF Session, Covered, Subscribed
<1>11. QED
  BY <1>7, <1>8, <1>9, <1>10 DEF Session

(* Lagged: what lies between the cursor and the oldest event is overwritten. *)
LEMMA LaggedStep ==
    ASSUME BusInv, NEW s \in Sockets, Lagged(s)
    PROVE  Session(s)'
<1> USE BusAssumption DEF BusInv, Shape, Lagged
<1>1. Session(s) /\ cursor[s] \in Nat /\ start[s] \in Nat /\ delivered[s] \in Seq(Nat)
      /\ skipped[s] \in SUBSET Nat /\ Len(sent) \in Nat /\ Capacity \in Nat
  OBVIOUS
<1>2. Oldest \in Nat /\ cursor[s] < Oldest /\ Oldest + Capacity <= Len(sent) + 1
  BY <1>1 DEF Oldest, Session, Position
<1>3. cursor'[s] = Oldest /\ skipped'[s] = skipped[s] \cup cursor[s]..(Oldest - 1)
  OBVIOUS
<1>4. \A i : Visible(s, i)' <=> Visible(s, i)
  BY DEF Visible
<1>5. start'[s] = start[s] /\ delivered'[s] = delivered[s] /\ sender'[s] = "receiving"
      /\ sent' = sent /\ sender[s] = "receiving"
  OBVIOUS
<1>6. \A j \in DOMAIN delivered[s] : delivered[s][j] \in Nat
  BY <1>1
<1> HIDE DEF BusInv, Shape, Lagged
<1>7. Position(s)'
  BY <1>1, <1>2, <1>3, <1>5, BusAssumption DEF Session, Position
<1>8. Order(s)'
  BY <1>1, <1>2, <1>3, <1>4, <1>5, <1>6 DEF Session, Order
<1>9. Missed(s)'
  <2>1. \A i \in skipped[s] : /\ i \in Nat /\ start[s] <= i
                             /\ i < cursor[s] /\ i + Capacity <= Len(sent)
    BY <1>1 DEF Session, Missed
  <2>2. start[s] <= cursor[s]
    BY <1>1 DEF Session, Position
  <2>3. \A i \in cursor[s]..(Oldest - 1) : start[s] <= i /\ i < Oldest /\ i + Capacity <= Len(sent)
    BY <1>1, <1>2, <2>2
  <2>4. \A i \in skipped[s] : i < Oldest
    BY <1>1, <1>2, <2>1
  <2>5. \A i \in skipped'[s] : start[s] <= i /\ i < Oldest /\ i + Capacity <= Len(sent)
    BY <1>3, <2>1, <2>3, <2>4
  <2>6. \A j \in DOMAIN delivered[s] : delivered[s][j] \notin skipped[s] /\ delivered[s][j] < cursor[s]
    BY <1>1 DEF Session, Missed, Order
  <2>7. \A i \in cursor[s]..(Oldest - 1) : i \in Int /\ ~(i < cursor[s])
    BY <1>1, <1>2
  <2>8. \A j \in DOMAIN delivered[s] : delivered[s][j] \notin skipped'[s]
    BY <1>3, <2>6, <2>7
  <2>9. QED
    BY <1>3, <1>5, <2>5, <2>8 DEF Missed
<1>10. Covered(s)'
  BY <1>1, <1>2, <1>3, <1>4, <1>5 DEF Session, Covered, Subscribed
<1>11. QED
  BY <1>7, <1>8, <1>9, <1>10 DEF Session

(* The event in hand is later than all that were delivered.                *)
LEMMA SendOkStep ==
    ASSUME BusInv, NEW s \in Sockets, SendOk(s)
    PROVE  Session(s)'
<1> USE DEF BusInv, Shape, SendOk
<1>1. Session(s) /\ cursor[s] \in Nat /\ start[s] \in Nat /\ delivered[s] \in Seq(Nat)
      /\ skipped[s] \in SUBSET Nat /\ Len(sent) \in Nat
  OBVIOUS
<1>2. start'[s] = start[s] /\ cursor'[s] = cursor[s] /\ skipped'[s] = skipped[s]
      /\ sender'[s] = "receiving" /\ sent' = sent /\ sender[s] = "sending"
  OBVIOUS
<1>3. \A i : Visible(s, i)' <=> Visible(s, i)
  BY DEF Visible
<1> DEFINE d == delivered[s]  e == delivered'[s]  n == Len(delivered[s])
<1>4. e = Append(d, cursor[s] - 1)
  OBVIOUS
<1>5. cursor[s] - 1 \in Nat
  BY <1>1 DEF Session, Position
<1>6. /\ n \in Nat /\ DOMAIN d = 1..n /\ DOMAIN e = 1..(n + 1)
      /\ \A j \in 1..n : e[j] = d[j] /\ d[j] \in Nat
      /\ e[n + 1] = cursor[s] - 1
  BY <1>1, <1>4, <1>5
<1> HIDE DEF BusInv, Shape, SendOk, d, e, n
<1>7. Position(s)'
  BY <1>1, <1>2 DEF Session, Position
<1>8. Order(s)'
  <2>1. \A j \in 1..n : start[s] <= d[j] /\ d[j] < cursor[s] - 1 /\ Visible(s, d[j])
    BY <1>1, <1>2, <1>6 DEF Session, Order, d
  <2>2. \A j, k \in 1..n : j < k => d[j] < d[k]
    BY <1>1, <1>6 DEF Session, Order, d
  <2>3. start[s] <= cursor[s] - 1 /\ Visible(s, cursor[s] - 1)
    BY <1>1, <1>2 DEF Session, Position
  <2>4. \A j \in 1..(n + 1) : j \in 1..n \/ j = n + 1
    BY <1>6
  <2>5. \A j \in 1..(n + 1) : start[s] <= e[j] /\ e[j] < cursor[s] /\ Visible(s, e[j])
    BY <2>1, <2>3, <2>4, <1>1, <1>6
  <2>6. \A j, k \in 1..(n + 1) : j < k => e[j] < e[k]
    BY <2>1, <2>2, <2>4, <1>6
  <2>7. QED
    BY <2>5, <2>6, <1>2, <1>3, <1>6 DEF Order, e
<1>9. Missed(s)'
  <2>1. \A i \in skipped[s] : start[s] <= i /\ i < cursor[s] /\ i + Capacity <= Len(sent)
    BY <1>1 DEF Session, Missed
  <2>2. cursor[s] - 1 \notin skipped[s] /\ \A j \in 1..n : d[j] \notin skipped[s]
    BY <1>1, <1>2, <1>6 DEF Session, Missed, d
  <2>3. \A j \in 1..(n + 1) : j \in 1..n \/ j = n + 1
    BY <1>6
  <2>4. \A j \in 1..(n + 1) : e[j] \notin skipped[s]
    BY <1>6, <2>2, <2>3
  <2>5. QED
    BY <1>2, <1>6, <2>1, <2>4 DEF Missed, e
<1>10. Covered(s)'
  <2>1. \A i \in Nat : start[s] <= i /\ i < cursor[s] /\ Visible(s, i) =>
            i \in skipped[s] \/ (\E j \in 1..n : d[j] = i) \/ i = cursor[s] - 1
    BY <1>1, <1>2, <1>6 DEF Session, Covered, Subscribed, d
  <2>2. \A i \in Nat : (\E j \in 1..n : d[j] = i) \/ i = cursor[s] - 1 => \E j \in 1..(n + 1) : e[j] = i
    <3>1. n + 1 \in 1..(n + 1) /\ \A j \in 1..n : j \in 1..(n + 1)
      BY <1>6
    <3>2. QED
      BY <3>1, <1>6
  <2>3. \A i \in Nat : start[s] <= i /\ i < cursor[s] /\ Visible(s, i)' =>
            i \in skipped'[s] \/ \E j \in DOMAIN delivered'[s] : delivered'[s][j] = i
    BY <2>1, <2>2, <1>2, <1>3, <1>6 DEF e
  <2>4. QED
    BY <2>3, <1>2 DEF Covered
<1>11. QED
  BY <1>7, <1>8, <1>9, <1>10 DEF Session

(* A task that ends leaves what it delivered.                              *)
LEMMA EndStep ==
    ASSUME BusInv, NEW s \in Sockets, SendError(s) \/ PeerCloses(s) \/ Select(s)
    PROVE  Session(s)'
<1>1. /\ sent' = sent /\ cursor' = cursor /\ start' = start /\ delivered' = delivered
      /\ skipped' = skipped /\ sender'[s] \in {sender[s], "done"}
  BY DEF SendError, PeerCloses, Select, BusInv, Shape
<1>2. CASE sender'[s] = sender[s]
  BY <1>1, <1>2, Untouched DEF BusInv
<1>3. CASE sender'[s] = "done"
  BY <1>1, <1>3 DEF BusInv, Session, Position, Order, Missed, Covered, Subscribed, Visible
<1>4. QED
  BY <1>1, <1>2, <1>3

(* A step of one session leaves the others alone.                          *)
LEMMA OtherSessions ==
    ASSUME BusInv, NEW s \in Sockets, SocketStep(s), NEW t \in Sockets, t # s
    PROVE  Session(t)'
<1>1. /\ sent' = sent /\ sender'[t] = sender[t] /\ cursor'[t] = cursor[t]
      /\ start'[t] = start[t] /\ delivered'[t] = delivered[t] /\ skipped'[t] = skipped[t]
  BY DEF SocketStep, Subscribe, Receive, Lagged, SendOk, SendError, PeerCloses, Select, BusInv, Shape
<1>2. QED
  BY <1>1, Untouched DEF BusInv

(***************************************************************************)
(* The inductive invariant: where every session stands in the channel, and *)
(* that what it has passed is delivered, in hand, missed or not for it.    *)
(***************************************************************************)
THEOREM Accounting == Spec => []BusInv
<1>1. ASSUME BusInv, [Next]_vars PROVE BusInv'
  <2>1. CASE UNCHANGED vars
    <3>1. \A t \in Sockets : Session(t)'
      BY <1>1, <2>1, Untouched DEF vars, BusInv
    <3>2. Shape'
      BY <1>1, <2>1 DEF vars, BusInv, Shape
    <3>3. QED
      BY <3>1, <3>2 DEF BusInv
  <2>2. ASSUME NEW event \in Published, publish_event(event) PROVE BusInv'
    BY <1>1, <2>2, PublishStep, ShapeStep DEF BusInv, Next
  <2>3. ASSUME NEW s \in Sockets, SocketStep(s) PROVE BusInv'
    <3>1. Shape'
      BY <1>1, <2>3, ShapeStep DEF Next
    <3>2. Session(s)'
      BY <1>1, <2>3, SubscribeStep, ReceiveStep, LaggedStep, SendOkStep, EndStep DEF SocketStep
    <3>3. QED
      BY <1>1, <2>3, <3>1, <3>2, OtherSessions DEF BusInv
  <2>4. QED
    BY <1>1, <2>1, <2>2, <2>3 DEF Next
<1>2. QED
  BY <1>1, InitInv, PTL DEF Spec

(***************************************************************************)
(* Only the audience of an event receives it, once and in order, whatever  *)
(* a session has missed (websocket and event_visible_to).                  *)
(***************************************************************************)
THEOREM Audience == Spec => []OnlyAudience
<1>1. ASSUME BusInv PROVE OnlyAudience
  <2> SUFFICES ASSUME NEW s \in Sockets
               PROVE  /\ \A i \in Range(delivered[s]) :
                            /\ sent[i].tenant = Identity[s].tenant
                            /\ sent[i].audience = Administrators => Identity[s].tenant_admin
                            /\ \/ sent[i].audience \in {Administrators, Identity[s].subject}
                               \/ Identity[s].tenant_admin
                      /\ \A j, k \in DOMAIN delivered[s] : j < k => delivered[s][j] < delivered[s][k]
    BY DEF OnlyAudience
  <2>1. Order(s)
    BY <1>1 DEF BusInv, Session
  <2>2. Identity[s].subject # Administrators
    BY BusAssumption DEF AuthContext
  <2>3. \A i \in Range(delivered[s]) : Visible(s, i)
    BY <2>1 DEF Order, Range
  <2>4. QED
    BY <2>1, <2>2, <2>3 DEF Order, Visible, event_visible_to
<1>2. QED
  BY <1>1, Accounting, PTL

(***************************************************************************)
(* Every visible event that a session has passed is delivered, in hand or  *)
(* reported as missed, and nothing else is (the loop of send_task).        *)
(***************************************************************************)
THEOREM NothingLost == Spec => []NoSilentLoss
<1>1. ASSUME BusInv PROVE NoSilentLoss
  <2> SUFFICES ASSUME NEW s \in Sockets, Subscribed(s)
               PROVE  {i \in start[s]..(cursor[s] - 1) : Visible(s, i)} \ skipped[s]
                          = Range(delivered[s]) \cup InHand(s)
    BY DEF NoSilentLoss
  <2>1. Session(s) /\ cursor[s] \in Nat /\ start[s] \in Nat
        /\ \A j \in DOMAIN delivered[s] : delivered[s][j] \in Nat
    BY <1>1 DEF BusInv, Shape
  <2>2. ASSUME NEW i \in start[s]..(cursor[s] - 1), Visible(s, i), i \notin skipped[s]
        PROVE  i \in Range(delivered[s]) \cup InHand(s)
    BY <2>1, <2>2 DEF Session, Covered, Range, InHand
  <2>3. ASSUME NEW j \in DOMAIN delivered[s]
        PROVE  delivered[s][j] \in {i \in start[s]..(cursor[s] - 1) : Visible(s, i)} \ skipped[s]
    BY <2>1, <2>3 DEF Session, Order, Missed
  <2>4. ASSUME sender[s] = "sending"
        PROVE  cursor[s] - 1 \in {i \in start[s]..(cursor[s] - 1) : Visible(s, i)} \ skipped[s]
    BY <2>1, <2>4 DEF Session, Position, Missed
  <2>5. QED
    BY <2>2, <2>3, <2>4 DEF Range, InHand
<1>2. QED
  BY <1>1, Accounting, PTL

(***************************************************************************)
(* Only events that the channel has overwritten are missed (Lagged).       *)
(***************************************************************************)
THEOREM OnlyOverwritten == Spec => []MissedWereOverwritten
<1>1. ASSUME BusInv PROVE MissedWereOverwritten
  BY <1>1 DEF BusInv, Session, Missed, MissedWereOverwritten
<1>2. QED
  BY <1>1, Accounting, PTL

-----------------------------------------------------------------------------
(***************************************************************************)
(* EventBus implements EventFeed.                                          *)
(***************************************************************************)

(* Both tasks of a socket are spawned together.                            *)
Paired == \A s \in Sockets : sender[s] = "absent" <=> receiver[s] = "absent"

(* The tasks of a socket are there together, from the upgrade on.          *)
LEMMA TasksPaired == Spec => []Paired
<1>1. Init => Paired
  BY DEF Init, Paired
<1>2. ASSUME BusInv, Paired, [Next]_vars PROVE Paired'
  <2>1. CASE UNCHANGED vars
    BY <1>2, <2>1 DEF vars, Paired
  <2>2. ASSUME NEW event \in Published, publish_event(event) PROVE Paired'
    BY <1>2, <2>2 DEF publish_event, Paired
  <2>3. ASSUME NEW s \in Sockets, SocketStep(s) PROVE Paired'
    BY <1>2, <2>3 DEF SocketStep, Subscribe, Receive, Lagged, SendOk, SendError, PeerCloses, Select,
                      BusInv, Shape, Paired
  <2>4. QED
    BY <1>2, <2>1, <2>2, <2>3 DEF Next
<1>3. QED
  BY <1>1, <1>2, Accounting, PTL DEF Spec

(* Only events of handlers enter the channel.                              *)
FromHandlers == sent \in Seq(Published)

(* publish_event is the only way into the channel.                         *)
LEMMA SentIsPublished == Spec => []FromHandlers
<1>1. Init => FromHandlers
  BY DEF Init, FromHandlers
<1>2. ASSUME FromHandlers, [Next]_vars PROVE FromHandlers'
  BY <1>2 DEF Next, vars, publish_event, SocketStep, Subscribe, Receive, Lagged, SendOk, SendError,
              PeerCloses, Select, FromHandlers
<1>3. QED
  BY <1>1, <1>2, PTL DEF Spec

(* The refinement mapping, by name.                                        *)
SessionOf == [s \in Sockets |-> Phase[sender[s]]]
MissedOf == [s \in Sockets |-> {i \in skipped[s] : Visible(s, i)}]

(* Events of an audience are the visible ones.                             *)
LEMMA ForAudience ==
    ASSUME FromHandlers, NEW s \in Sockets, NEW i \in 1..Len(sent)
    PROVE  sent[i] \in {e \in Published : event_visible_to(e, Identity[s])} <=> Visible(s, i)
<1>1. sent[i] \in Published
  BY DEF FromHandlers
<1>2. QED
  BY <1>1 DEF Visible

(***************************************************************************)
(* What is due to an open session: the event in hand and the visible ones  *)
(* from the cursor on.                                                     *)
(***************************************************************************)
LEMMA DueIsAhead ==
    ASSUME BusInv, FromHandlers, NEW s \in Sockets, Subscribed(s)
    PROVE  Feed!Due(s) = InHand(s) \cup {i \in cursor[s]..Len(sent) : Visible(s, i)}
<1>1. Session(s) /\ cursor[s] \in Nat /\ start[s] \in Nat /\ Len(sent) \in Nat
      /\ delivered[s] \in Seq(Nat) /\ skipped[s] \in SUBSET Nat
  BY DEF BusInv, Shape
<1>2. /\ 1 <= start[s] /\ start[s] <= cursor[s] /\ cursor[s] <= Len(sent) + 1
      /\ sender[s] = "sending" => start[s] < cursor[s] /\ Visible(s, cursor[s] - 1)
  BY <1>1 DEF Session, Position
<1> DEFINE visible == {i \in start[s]..Len(sent) : Visible(s, i)}
           settled == Range(delivered[s]) \cup {i \in skipped[s] : Visible(s, i)}
           ahead == InHand(s) \cup {i \in cursor[s]..Len(sent) : Visible(s, i)}
<1>3. \A i \in start[s]..Len(sent) :
          sent[i] \in {e \in Published : event_visible_to(e, Identity[s])} <=> Visible(s, i)
  <2>1. \A i \in start[s]..Len(sent) : i \in 1..Len(sent)
    BY <1>1, <1>2
  <2>2. QED
    BY <2>1, ForAudience
<1>4. Feed!Due(s) = visible \ settled
  BY <1>3 DEF Feed!Due, Feed!Range, Range, visible, settled
<1> HIDE DEF visible, settled, ahead
<1>5. ASSUME NEW i \in visible, i \notin settled PROVE i \in ahead
  <2>1. i \in Nat /\ start[s] <= i /\ i <= Len(sent) /\ Visible(s, i)
    BY <1>1, <1>2, <1>5 DEF visible
  <2>2. CASE i < cursor[s]
    <3>1. i \notin skipped[s] /\ ~\E j \in DOMAIN delivered[s] : delivered[s][j] = i
      BY <1>5, <2>1 DEF settled, Range
    <3>2. sender[s] = "sending" /\ i = cursor[s] - 1
      BY <1>1, <2>1, <2>2, <3>1 DEF Session, Covered
    <3>3. QED
      BY <3>2 DEF ahead, InHand
  <2>3. CASE ~(i < cursor[s])
    <3>1. i \in cursor[s]..Len(sent)
      BY <1>1, <2>1, <2>3
    <3>2. QED
      BY <2>1, <3>1 DEF ahead
  <2>4. QED
    BY <2>2, <2>3
<1>6. ASSUME NEW i \in ahead PROVE i \in visible /\ i \notin settled
  <2>1. CASE i \in InHand(s)
    <3>1. sender[s] = "sending" /\ i = cursor[s] - 1
      BY <2>1 DEF InHand
    <3>2. i \in visible
      BY <1>1, <1>2, <3>1 DEF visible
    <3>3. \A j \in DOMAIN delivered[s] : delivered[s][j] \in Nat /\ delivered[s][j] < cursor[s] - 1
      BY <1>1, <3>1 DEF Session, Order
    <3>4. i \notin skipped[s]
      BY <1>1, <3>1 DEF Session, Missed
    <3>5. \A j \in DOMAIN delivered[s] : delivered[s][j] # i
      BY <1>1, <3>1, <3>3
    <3>6. QED
      BY <3>2, <3>4, <3>5 DEF settled, Range
  <2>2. CASE i \in {k \in cursor[s]..Len(sent) : Visible(s, k)}
    <3>1. i \in Nat /\ cursor[s] <= i /\ i <= Len(sent) /\ Visible(s, i)
      BY <1>1, <2>2
    <3>2. i \in visible
      BY <1>1, <1>2, <3>1 DEF visible
    <3>3. \A j \in DOMAIN delivered[s] : delivered[s][j] \in Nat /\ delivered[s][j] < cursor[s]
      BY <1>1 DEF Session, Order
    <3>4. i \notin skipped[s]
      BY <1>1, <3>1 DEF Session, Missed
    <3>5. \A j \in DOMAIN delivered[s] : delivered[s][j] # i
      BY <1>1, <3>1, <3>3
    <3>6. QED
      BY <3>2, <3>4, <3>5 DEF settled, Range
  <2>3. QED
    BY <1>6, <2>1, <2>2 DEF ahead
<1>7. QED
  BY <1>4, <1>5, <1>6 DEF ahead

(* A session is open while its send_task has not ended.                    *)
LEMMA Open ==
    ASSUME Shape, NEW s \in Sockets
    PROVE  /\ SessionOf[s] = "open" <=> Subscribed(s)
           /\ SessionOf[s] = "new" <=> sender[s] = "absent"
           /\ SessionOf[s] = "closed" <=> sender[s] = "done"
  BY DEF Shape, SessionOf, Phase, Subscribed

(* Completing a send delivers the earliest event that is due.              *)
LEMMA SendDelivers ==
    ASSUME BusInv, FromHandlers, NEW s \in Sockets, SendOk(s)
    PROVE  Feed!Deliver(s)
<1>1. Session(s) /\ cursor[s] \in Nat /\ start[s] \in Nat /\ Len(sent) \in Nat /\ Shape
  BY DEF BusInv, Shape
<1>2. Subscribed(s) /\ InHand(s) = {cursor[s] - 1}
  BY DEF SendOk, Subscribed, InHand
<1>3. Feed!Due(s) = {cursor[s] - 1} \cup {i \in cursor[s]..Len(sent) : Visible(s, i)}
  BY <1>2, DueIsAhead
<1>4. cursor[s] - 1 \in Feed!Due(s) /\ \A j \in Feed!Due(s) : cursor[s] - 1 <= j
  BY <1>1, <1>3
<1>5. SessionOf[s] = "open"
  BY <1>1, <1>2, Open
<1>6. SessionOf' = SessionOf
  BY <1>1 DEF SendOk, Shape, SessionOf, Phase
<1>7. MissedOf' = MissedOf
  BY DEF SendOk, MissedOf, Visible
<1>8. delivered' = [delivered EXCEPT ![s] = Append(@, cursor[s] - 1)] /\ sent' = sent /\ start' = start
  BY DEF SendOk
<1>9. QED
  BY <1>4, <1>5, <1>6, <1>7, <1>8 DEF Feed!Deliver, SessionOf, MissedOf

(* Lagged loses what is due and was overwritten, and nothing else.         *)
LEMMA LaggedLoses ==
    ASSUME BusInv, FromHandlers, NEW s \in Sockets, Lagged(s)
    PROVE  Feed!Lose(s)
<1>1. Session(s) /\ cursor[s] \in Nat /\ start[s] \in Nat /\ Len(sent) \in Nat /\ Shape
      /\ Capacity \in Nat \ {0} /\ skipped \in [Sockets -> SUBSET Nat]
  BY BusAssumption DEF BusInv, Shape
<1>2. Subscribed(s) /\ InHand(s) = {}
  BY DEF Lagged, Subscribed, InHand
<1>3. Feed!Due(s) = {i \in cursor[s]..Len(sent) : Visible(s, i)}
  BY <1>2, DueIsAhead
<1>4. 1 <= cursor[s]
  BY <1>1 DEF Session, Position
<1>5. Oldest = Len(sent) - Capacity + 1 /\ cursor[s] < Oldest
  BY <1>1, <1>4 DEF Lagged, Oldest
<1>6. {i \in Feed!Due(s) : i + Capacity <= Len(sent)} = {i \in cursor[s]..(Oldest - 1) : Visible(s, i)}
  <2>1. \A i : i \in cursor[s]..Len(sent) /\ i + Capacity <= Len(sent) <=> i \in cursor[s]..(Oldest - 1)
    BY <1>1, <1>5
  <2>2. QED
    BY <1>3, <2>1
<1>7. MissedOf' = [MissedOf EXCEPT ![s] = @ \cup {i \in Feed!Due(s) : i + Capacity <= Len(sent)}]
  <2>1. skipped' = [skipped EXCEPT ![s] = @ \cup cursor[s]..(Oldest - 1)] /\ sent' = sent
    BY DEF Lagged
  <2>2. \A t \in Sockets : \A i : Visible(t, i)' <=> Visible(t, i)
    BY <2>1 DEF Visible
  <2>3. \A t \in Sockets : MissedOf'[t] = {i \in skipped'[t] : Visible(t, i)}
    BY <2>2 DEF MissedOf
  <2>4. \A t \in Sockets : t # s => MissedOf'[t] = MissedOf[t]
    BY <1>1, <2>1, <2>3 DEF MissedOf
  <2>5. MissedOf'[s] = MissedOf[s] \cup {i \in cursor[s]..(Oldest - 1) : Visible(s, i)}
    <3>1. skipped'[s] = skipped[s] \cup cursor[s]..(Oldest - 1)
      BY <1>1, <2>1
    <3>2. QED
      BY <2>3, <3>1 DEF MissedOf
  <2>6. MissedOf = [t \in Sockets |-> MissedOf[t]] /\ MissedOf' = [t \in Sockets |-> MissedOf'[t]]
    BY DEF MissedOf
  <2>7. QED
    BY <1>6, <2>4, <2>5, <2>6
<1>8. SessionOf[s] = "open"
  BY <1>1, <1>2, Open
<1>9. SessionOf' = SessionOf /\ sent' = sent /\ start' = start /\ delivered' = delivered
  BY DEF Lagged, SessionOf
<1>10. QED
  BY <1>7, <1>8, <1>9 DEF Feed!Lose, SessionOf, MissedOf

(* Publishing shows as it is: no session has missed an event of the future. *)
LEMMA PublishShows ==
    ASSUME BusInv, FromHandlers, NEW event \in Published, publish_event(event)
    PROVE  Feed!Publish(event)
<1>1. Shape /\ Len(sent) \in Nat
  BY DEF BusInv, Shape
<1>2. sent' = Append(sent, event) /\ SessionOf' = SessionOf /\ start' = start /\ delivered' = delivered
      /\ skipped' = skipped
  BY DEF publish_event, SessionOf
<1>3. \E s \in Sockets : SessionOf[s] = "open"
  BY <1>1, Open DEF publish_event
<1>4. \A t \in Sockets : \A i \in skipped[t] : Visible(t, i)' <=> Visible(t, i)
  <2>1. \A t \in Sockets : \A i \in skipped[t] : i \in 1..Len(sent)
    BY <1>1 DEF BusInv, Shape, Session, Position, Missed
  <2>2. \A i \in 1..Len(sent) : sent'[i] = sent[i]
    BY <1>2
  <2>3. QED
    BY <2>1, <2>2 DEF Visible
<1>5. MissedOf' = MissedOf
  BY <1>2, <1>4 DEF MissedOf
<1>6. QED
  BY <1>2, <1>3, <1>5 DEF Feed!Publish, SessionOf, MissedOf

(* Every other step of a socket joins, leaves or does not show.            *)
LEMMA SocketShows ==
    ASSUME BusInv, Paired, FromHandlers, NEW s \in Sockets, SocketStep(s)
    PROVE  \/ Feed!Join(s) \/ Feed!Deliver(s) \/ Feed!Lose(s) \/ Feed!Leave(s)
           \/ UNCHANGED <<sent, SessionOf, start, delivered, MissedOf>>
<1>1. Shape /\ sender \in [Sockets -> {"absent", "receiving", "sending", "done"}]
  BY DEF BusInv, Shape
<1>2. ASSUME sent' = sent, skipped' = skipped PROVE MissedOf' = MissedOf
  BY <1>2 DEF MissedOf, Visible
<1>3. CASE Subscribe(s)
  <2>1. SessionOf[s] = "new"
    BY <1>1, <1>3, Open DEF Subscribe
  <2>2. SessionOf' = [SessionOf EXCEPT ![s] = "open"]
    BY <1>1, <1>3 DEF Subscribe, SessionOf, Phase
  <2>3. MissedOf' = MissedOf
    BY <1>2, <1>3 DEF Subscribe
  <2>4. QED
    BY <1>3, <2>1, <2>2, <2>3 DEF Subscribe, Feed!Join, SessionOf, MissedOf
<1>4. CASE Receive(s)
  <2>1. SessionOf' = SessionOf
    BY <1>1, <1>4 DEF Receive, SessionOf, Phase
  <2>2. QED
    BY <1>2, <1>4, <2>1 DEF Receive
<1>5. CASE Lagged(s)
  BY <1>5, LaggedLoses
<1>6. CASE SendOk(s)
  BY <1>6, SendDelivers
<1>7. ASSUME Subscribed(s), sender' = [sender EXCEPT ![s] = "done"],
             UNCHANGED <<sent, start, delivered, skipped>>
      PROVE  Feed!Leave(s)
  <2>1. SessionOf[s] = "open"
    BY <1>1, <1>7, Open
  <2>2. SessionOf' = [SessionOf EXCEPT ![s] = "closed"]
    BY <1>1, <1>7 DEF SessionOf, Phase
  <2>3. QED
    BY <1>2, <1>7, <2>1, <2>2 DEF Feed!Leave, SessionOf, MissedOf
<1>8. CASE SendError(s)
  BY <1>7, <1>8 DEF SendError, Subscribed
<1>9. CASE PeerCloses(s)
  BY <1>2, <1>9 DEF PeerCloses, SessionOf
<1>10. CASE Select(s)
  <2>1. CASE sender[s] = "done"
    <3>1. sender' = sender
      BY <1>1, <1>10, <2>1 DEF Select
    <3>2. QED
      BY <1>2, <1>10, <3>1 DEF Select, SessionOf
  <2>2. CASE sender[s] # "done"
    <3>1. receiver[s] = "done"
      BY <1>10, <2>2 DEF Select
    <3>2. Subscribed(s)
      BY <1>1, <2>2, <3>1 DEF Paired, Subscribed
    <3>3. QED
      BY <1>7, <1>10, <3>2 DEF Select
  <2>3. QED
    BY <2>1, <2>2
<1>11. QED
  BY <1>3, <1>4, <1>5, <1>6, <1>8, <1>9, <1>10 DEF SocketStep

(***************************************************************************)
(* The broadcast channel with its lagging receivers, and the two tasks of  *)
(* every socket that select! ends together, implement the feed: completing *)
(* a send is its delivery, Lagged its loss, the end of send_task the end   *)
(* of the session, and receiving does not show.                            *)
(***************************************************************************)
THEOREM FeedRefinement == Spec => ImplementsFeed
<1>1. Init => Feed!FInit
  BY DEF Init, Feed!FInit, Phase
<1>2. ASSUME BusInv, Paired, FromHandlers, [Next]_vars
      PROVE  [Feed!FNext]_(Feed!feeds)
  <2>1. CASE UNCHANGED vars
    BY <2>1 DEF vars, Feed!feeds, Visible
  <2>2. ASSUME NEW event \in Published, publish_event(event) PROVE Feed!FNext
    BY <1>2, <2>2, PublishShows DEF Feed!FNext
  <2>3. ASSUME NEW s \in Sockets, SocketStep(s) PROVE [Feed!FNext]_(Feed!feeds)
    BY <1>2, <2>3, SocketShows DEF Feed!FNext, Feed!feeds, SessionOf, MissedOf
  <2>4. QED
    BY <1>2, <2>1, <2>2, <2>3 DEF Next
<1>3. QED
  BY <1>1, <1>2, Accounting, TasksPaired, SentIsPublished, PTL DEF Spec, ImplementsFeed, Feed!FSpec
=============================================================================
