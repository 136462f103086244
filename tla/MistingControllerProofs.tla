------------------------- MODULE MistingControllerProofs -------------------------
(***************************************************************************)
(* For every number of polls and every set of messages: the types of the   *)
(* controller, with a bound on the driver's events, and, for a queue of    *)
(* ten events, that none is ever refused.                                  *)
(***************************************************************************)
EXTENDS MistingController, SequenceTheorems, FunctionTheorems, FiniteSetTheorems, TLAPS

-----------------------------------------------------------------------------
(* The queue.  The events whose handlers generate more than the one they take; the
   load of a queue counts them with what they will add. *)

Growing == {"EVT_AP_CONNECT", "EVT_AP_DISCONNECT", "EVT_WIFI_STATUS", "EVT_DEVICE_MONITOR_STATUS"}

Has(q, e) == \E i \in 1 .. Len(q) : q[i] = e
Extra(q, e, n) == IF Has(q, e) THEN n ELSE 0

Load(q) ==
  Len(q) + Extra(q, "EVT_AP_CONNECT", 2) + Extra(q, "EVT_AP_DISCONNECT", 1)
         + Extra(q, "EVT_WIFI_STATUS", 1) + Extra(q, "EVT_DEVICE_MONITOR_STATUS", 1)

Once(q) == \A i, j \in 1 .. Len(q) : i # j /\ q[i] = q[j] => q[i] \notin Growing

(* The request to connect is the first or, behind a discovery packet, the second. *)
First(q)  == q # <<>> /\ q[1] = "EVT_AP_CONNECT"
Second(q) == Len(q) >= 2 /\ q[1] \notin Growing /\ q[2] = "EVT_AP_CONNECT"

Fits(q, n) ==
  /\ Has(q, "EVT_AP_CONNECT") => First(q) \/ Second(q)
  /\ Load(q) <= IF Second(q) THEN n + 1 ELSE n

Light(q, n) == ~Has(q, "EVT_AP_CONNECT") /\ Load(q) <= n

QueueInv ==
  /\ pc \in {"setup", "timers", "events", "join", "check", "forget", "receive"}
  /\ booting \in BOOLEAN
  /\ booting => pc \in {"setup", "join"}
  /\ queue \in Seq(Event) /\ Once(queue)
  /\ pc \in {"setup", "receive"} => queue = <<>>
  /\ pc = "timers" => /\ Fits(queue, 4)
                      /\ ~Has(queue, "EVT_WIFI_STATUS") /\ ~Has(queue, "EVT_DEVICE_MONITOR_STATUS")
  /\ pc = "events" => Fits(queue, 10)
  /\ pc = "join" => IF booting THEN queue = <<>> ELSE Light(queue, 7)
  /\ pc \in {"check", "forget"} => Light(queue, 8)

(* The driver's events, each with the ones its handling will post: on one of those that
   make the library reconnect, disconnect posts two, and the begin behind it one. *)
Retrying(s) == {i \in 1 .. Len(s) : Reconnects(s[i])}
Weight(s) == Len(s) + 2 * Cardinality(Retrying(s))

Sound(w) == w \in Radio /\ (w.sta <=> w.link # "off")

RadioInv ==
  /\ Sound(radio)
  /\ etask \in {"idle", "begin"}
  /\ Weight(radio.pend) <= 3 * MaxNetEvents + (IF etask = "begin" THEN 0 ELSE 1)
-----------------------------------------------------------------------------
(* Sequences of events. *)

LEMMA HasConcat ==
  ASSUME NEW q \in Seq(Event), NEW r \in Seq(Event), NEW e
  PROVE  Has(q \o r, e) <=> Has(q, e) \/ Has(r, e)
  <1>1. /\ Len(q) \in Nat /\ Len(r) \in Nat /\ Len(q \o r) = Len(q) + Len(r)
        /\ \A i \in 1 .. Len(q) + Len(r) :
             (q \o r)[i] = IF i <= Len(q) THEN q[i] ELSE r[i - Len(q)]
    BY ConcatProperties, LenProperties
  <1>2. ASSUME Has(q \o r, e) PROVE Has(q, e) \/ Has(r, e)
    <2>1. PICK i \in 1 .. Len(q) + Len(r) : (q \o r)[i] = e
      BY <1>1, <1>2 DEF Has
    <2>2. CASE i <= Len(q)
      BY <1>1, <2>1, <2>2 DEF Has
    <2>3. CASE ~(i <= Len(q))
      <3>1. i - Len(q) \in 1 .. Len(r) /\ r[i - Len(q)] = e
        BY <1>1, <2>1, <2>3
      <3> QED
        BY <3>1 DEF Has
    <2> QED
      BY <2>2, <2>3
  <1>3. ASSUME NEW i \in 1 .. Len(q), q[i] = e PROVE Has(q \o r, e)
    <2>1. i \in 1 .. Len(q \o r) /\ (q \o r)[i] = e
      BY <1>1, <1>3
    <2> QED
      BY <2>1 DEF Has
  <1>4. ASSUME NEW i \in 1 .. Len(r), r[i] = e PROVE Has(q \o r, e)
    <2>1. i + Len(q) \in 1 .. Len(q \o r) /\ (q \o r)[i + Len(q)] = e
      BY <1>1, <1>4
    <2> QED
      BY <2>1 DEF Has
  <1> QED
    BY <1>2, <1>3, <1>4 DEF Has

LEMMA TailElements ==
  ASSUME NEW q \in Seq(Event), q # <<>>
  PROVE  /\ Tail(q) \in Seq(Event) /\ Len(Tail(q)) = Len(q) - 1 /\ Len(q) \in Nat \ {0}
         /\ \A i \in 1 .. Len(q) - 1 : Tail(q)[i] = q[i + 1]
         /\ Head(q) = q[1] /\ Head(q) \in Event
  <1>1. Len(q) \in Nat \ {0}
    BY EmptySeq, LenProperties
  <1>2. Head(q) = q[1] /\ q[1] \in Event
    BY <1>1, ElementOfSeq
  <1> QED
    BY <1>1, <1>2, HeadTailProperties

LEMMA HasTail ==
  ASSUME NEW q \in Seq(Event), q # <<>>, Once(q), NEW e \in Growing
  PROVE  Has(Tail(q), e) <=> Has(q, e) /\ Head(q) # e
  <1>1. ASSUME Has(Tail(q), e) PROVE Has(q, e) /\ Head(q) # e
    <2>1. PICK i \in 1 .. Len(q) - 1 : q[i + 1] = e
      BY <1>1, TailElements DEF Has
    <2>2. i + 1 \in 1 .. Len(q) /\ 1 \in 1 .. Len(q) /\ i + 1 # 1
      BY TailElements
    <2> QED
      BY <2>1, <2>2, TailElements DEF Has, Once
  <1>2. ASSUME NEW i \in 1 .. Len(q), q[i] = e, Head(q) # e PROVE Has(Tail(q), e)
    <2>1. i - 1 \in 1 .. Len(q) - 1 /\ (i - 1) + 1 = i
      BY <1>2, TailElements
    <2>2. i - 1 \in 1 .. Len(Tail(q)) /\ Tail(q)[i - 1] = e
      BY <1>2, <2>1, TailElements
    <2> QED
      BY <2>2 DEF Has
  <1> QED
    BY <1>1, <1>2 DEF Has

LEMMA OnceTail ==
  ASSUME NEW q \in Seq(Event), q # <<>>, Once(q)
  PROVE  Once(Tail(q))
  <1> SUFFICES ASSUME NEW i \in 1 .. Len(q) - 1, NEW j \in 1 .. Len(q) - 1, i # j,
                      Tail(q)[i] = Tail(q)[j]
               PROVE  Tail(q)[i] \notin Growing
    BY TailElements DEF Once
  <1>1. i + 1 \in 1 .. Len(q) /\ j + 1 \in 1 .. Len(q) /\ i + 1 # j + 1
    BY TailElements
  <1> QED
    BY <1>1, TailElements DEF Once

LEMMA OnceConcat ==
  ASSUME NEW q \in Seq(Event), NEW r \in Seq(Event), Once(q), Once(r),
         \A e \in Growing : ~(Has(q, e) /\ Has(r, e))
  PROVE  Once(q \o r)
  <1>1. /\ Len(q) \in Nat /\ Len(r) \in Nat /\ Len(q \o r) = Len(q) + Len(r)
        /\ \A i \in 1 .. Len(q) + Len(r) :
             (q \o r)[i] = IF i <= Len(q) THEN q[i] ELSE r[i - Len(q)]
    BY ConcatProperties, LenProperties
  <1> SUFFICES ASSUME NEW i \in 1 .. Len(q) + Len(r), NEW j \in 1 .. Len(q) + Len(r), i < j,
                      (q \o r)[i] = (q \o r)[j]
               PROVE  (q \o r)[i] \notin Growing
    BY <1>1 DEF Once
  <1>2. CASE j <= Len(q)
    BY <1>1, <1>2 DEF Once
  <1>3. CASE i <= Len(q) /\ ~(j <= Len(q))
    <2>1. j - Len(q) \in 1 .. Len(r) /\ i \in 1 .. Len(q) /\ q[i] = r[j - Len(q)]
      BY <1>1, <1>3
    <2>2. Has(q, q[i]) /\ Has(r, q[i])
      BY <2>1 DEF Has
    <2> QED
      BY <1>1, <1>3, <2>2
  <1>4. CASE ~(i <= Len(q))
    <2>1. /\ i - Len(q) \in 1 .. Len(r) /\ j - Len(q) \in 1 .. Len(r)
          /\ i - Len(q) # j - Len(q) /\ r[i - Len(q)] = r[j - Len(q)]
      BY <1>1, <1>4
    <2> QED
      BY <1>1, <1>4, <2>1 DEF Once
  <1> QED
    BY <1>2, <1>3, <1>4

LEMMA ExtraValue ==
  \A q, e, n : (Has(q, e) => Extra(q, e, n) = n) /\ (~Has(q, e) => Extra(q, e, n) = 0)
  BY DEF Extra

LEMMA LoadBounds ==
  ASSUME NEW q \in Seq(Event)
  PROVE  Load(q) \in Nat /\ Len(q) \in Nat /\ Len(q) <= Load(q)
  <1>1. Len(q) \in Nat
    BY LenProperties
  <1> QED
    BY <1>1, ExtraValue DEF Load

(* Taking an event off takes its share of the load with it. *)
Share(e) ==
  CASE e = "EVT_AP_CONNECT" -> 3
    [] e \in Growing \ {"EVT_AP_CONNECT"} -> 2
    [] OTHER -> 1

LEMMA LoadTail ==
  ASSUME NEW q \in Seq(Event), q # <<>>, Once(q)
  PROVE  Load(Tail(q)) = Load(q) - Share(Head(q))
  <1>1. \A e \in Growing : Has(Tail(q), e) <=> Has(q, e) /\ Head(q) # e
    BY HasTail
  <1>2. Has(q, Head(q))
    BY TailElements DEF Has
  <1>3. Len(Tail(q)) = Len(q) - 1 /\ Len(q) \in Nat
    BY TailElements
  <1>4. CASE Head(q) = "EVT_AP_CONNECT"
    BY <1>1, <1>2, <1>3, <1>4, ExtraValue DEF Load, Share, Growing
  <1>5. CASE Head(q) = "EVT_AP_DISCONNECT"
    BY <1>1, <1>2, <1>3, <1>5, ExtraValue DEF Load, Share, Growing
  <1>6. CASE Head(q) = "EVT_WIFI_STATUS"
    BY <1>1, <1>2, <1>3, <1>6, ExtraValue DEF Load, Share, Growing
  <1>7. CASE Head(q) = "EVT_DEVICE_MONITOR_STATUS"
    BY <1>1, <1>2, <1>3, <1>7, ExtraValue DEF Load, Share, Growing
  <1>8. CASE Head(q) \notin Growing
    BY <1>1, <1>3, <1>8, ExtraValue DEF Load, Share, Growing
  <1> QED
    BY <1>4, <1>5, <1>6, <1>7, <1>8 DEF Growing

(* Loads of queues that share no growing event add up. *)
AddsUp(s, q, r) ==
  /\ Len(q) \in Nat /\ Len(r) \in Nat /\ Len(s) = Len(q) + Len(r)
  /\ \A e \in Growing, n \in Nat : /\ Extra(s, e, n) = Extra(q, e, n) + Extra(r, e, n)
                                  /\ Extra(q, e, n) \in Nat /\ Extra(r, e, n) \in Nat

LEMMA LoadSum ==
  ASSUME NEW s, NEW q, NEW r, AddsUp(s, q, r)
  PROVE  Load(s) = Load(q) + Load(r)
  <1> DEFINE l1 == Len(q)
             c1 == Extra(q, "EVT_AP_CONNECT", 2)
             d1 == Extra(q, "EVT_AP_DISCONNECT", 1)
             w1 == Extra(q, "EVT_WIFI_STATUS", 1)
             m1 == Extra(q, "EVT_DEVICE_MONITOR_STATUS", 1)
  <1> DEFINE l2 == Len(r)
             c2 == Extra(r, "EVT_AP_CONNECT", 2)
             d2 == Extra(r, "EVT_AP_DISCONNECT", 1)
             w2 == Extra(r, "EVT_WIFI_STATUS", 1)
             m2 == Extra(r, "EVT_DEVICE_MONITOR_STATUS", 1)
  <1>1. Load(q) = l1 + c1 + d1 + w1 + m1
    BY DEF Load
  <1>2. Load(r) = l2 + c2 + d2 + w2 + m2
    BY DEF Load
  <1>3. Load(s) = (l1 + l2) + (c1 + c2) + (d1 + d2) + (w1 + w2) + (m1 + m2)
    BY DEF AddsUp, Load, Growing
  <1>4. l1 \in Nat /\ c1 \in Nat /\ d1 \in Nat /\ w1 \in Nat /\ m1 \in Nat
    BY DEF AddsUp, Growing
  <1>5. l2 \in Nat /\ c2 \in Nat /\ d2 \in Nat /\ w2 \in Nat /\ m2 \in Nat
    BY DEF AddsUp, Growing
  <1> HIDE DEF l1, c1, d1, w1, m1, l2, c2, d2, w2, m2
  <1> QED
    BY <1>1, <1>2, <1>3, <1>4, <1>5

LEMMA LoadConcat ==
  ASSUME NEW q \in Seq(Event), NEW r \in Seq(Event),
         \A e \in Growing : ~(Has(q, e) /\ Has(r, e))
  PROVE  Load(q \o r) = Load(q) + Load(r)
  <1>1. \A e \in Growing : Has(q \o r, e) <=> Has(q, e) \/ Has(r, e)
    BY HasConcat
  <1>2. Len(q \o r) = Len(q) + Len(r) /\ Len(q) \in Nat /\ Len(r) \in Nat
    BY ConcatProperties, LenProperties
  <1>3. ASSUME NEW e \in Growing, NEW n \in Nat
        PROVE  /\ Extra(q \o r, e, n) = Extra(q, e, n) + Extra(r, e, n)
               /\ Extra(q, e, n) \in Nat /\ Extra(r, e, n) \in Nat
    <2>1. CASE Has(q, e)
      <3>1. Has(q \o r, e) /\ ~Has(r, e)
        BY <1>1, <2>1
      <3> QED
        BY <2>1, <3>1, ExtraValue
    <2>2. CASE ~Has(q, e) /\ Has(r, e)
      <3>1. Has(q \o r, e)
        BY <1>1, <2>2
      <3> QED
        BY <2>2, <3>1, ExtraValue
    <2>3. CASE ~Has(q, e) /\ ~Has(r, e)
      <3>1. ~Has(q \o r, e)
        BY <1>1, <2>3
      <3> QED
        BY <2>3, <3>1, ExtraValue
    <2> QED
      BY <2>1, <2>2, <2>3
  <1>4. AddsUp(q \o r, q, r)
    BY <1>2, <1>3 DEF AddsUp
  <1> QED
    BY <1>4, LoadSum

(* What handlers generate in plenty: events none of which grows. *)
Plain(r) == r \in Seq(Event) /\ \A e \in Growing : ~Has(r, e)

LEMMA PlainOnce ==
  ASSUME NEW r, Plain(r)
  PROVE  Once(r) /\ Load(r) = Len(r)
  <1>1. Len(r) \in Nat
    BY LenProperties DEF Plain
  <1>2. Once(r)
    BY DEF Plain, Once, Has
  <1>3. Load(r) = Len(r)
    BY <1>1, ExtraValue DEF Plain, Load, Growing
  <1> QED
    BY <1>2, <1>3

(* One queue behind another. *)
LEMMA Behind ==
  ASSUME NEW q \in Seq(Event), NEW r \in Seq(Event), Once(q), Once(r),
         \A e \in Growing : ~(Has(q, e) /\ Has(r, e))
  PROVE  /\ q \o r \in Seq(Event) /\ Once(q \o r)
         /\ Load(q \o r) = Load(q) + Load(r)
         /\ \A e \in Growing : Has(q \o r, e) <=> Has(q, e) \/ Has(r, e)
  BY ConcatProperties, OnceConcat, LoadConcat, HasConcat

LEMMA PlainBehind ==
  ASSUME NEW q \in Seq(Event), Once(q), NEW r, Plain(r)
  PROVE  /\ q \o r \in Seq(Event) /\ Once(q \o r)
         /\ Load(q \o r) = Load(q) + Len(r)
         /\ \A e \in Growing : Has(q \o r, e) <=> Has(q, e)
  <1>1. r \in Seq(Event) /\ Once(r) /\ Load(r) = Len(r) /\ \A e \in Growing : ~Has(r, e)
    BY PlainOnce DEF Plain
  <1> QED
    BY <1>1, Behind

LEMMA PlainConcat ==
  ASSUME NEW q, Plain(q), NEW r, Plain(r)
  PROVE  Plain(q \o r) /\ Len(q \o r) = Len(q) + Len(r) /\ Len(q) \in Nat /\ Len(r) \in Nat
  <1>1. q \in Seq(Event) /\ r \in Seq(Event)
    BY DEF Plain
  <1>2. \A e \in Growing : ~Has(q \o r, e)
    BY <1>1, HasConcat DEF Plain
  <1> QED
    BY <1>1, <1>2, ConcatProperties, LenProperties DEF Plain

(* A queue with the request to connect among its first two keeps it there when events
   come in behind. *)
LEMMA FitsBehind ==
  ASSUME NEW q \in Seq(Event), NEW r \in Seq(Event), Once(q), Once(r),
         \A e \in Growing : ~(Has(q, e) /\ Has(r, e)),
         ~Has(r, "EVT_AP_CONNECT"),
         NEW n \in Nat, NEW k \in Nat, Fits(q, n), Load(r) <= k
  PROVE  Fits(q \o r, n + k)
  <1> DEFINE s == q \o r
  <1>1. Load(s) = Load(q) + Load(r) /\ (Has(s, "EVT_AP_CONNECT") <=> Has(q, "EVT_AP_CONNECT"))
    BY Behind DEF Growing
  <1>2. /\ Len(q) \in Nat /\ Len(r) \in Nat /\ Len(s) = Len(q) + Len(r)
        /\ \A i \in 1 .. Len(q) : s[i] = q[i]
    BY ConcatProperties, LenProperties
  <1>3. Load(q) \in Nat /\ Load(r) \in Nat
    BY LoadBounds
  <1>4. First(q) => First(s)
    BY <1>2, EmptySeq DEF First
  <1>5. Second(q) => Second(s)
    BY <1>2 DEF Second
  <1>6. First(q) => ~Second(q)
    BY DEF First, Second, Growing
  <1>7. First(s) => ~Second(s)
    BY DEF First, Second, Growing
  <1>8. Second(q) => Has(q, "EVT_AP_CONNECT")
    BY <1>2 DEF Second, Has
  <1>9. Second(s) => Has(s, "EVT_AP_CONNECT")
    BY <1>2 DEF Second, Has
  <1>10. Second(s) <=> Second(q)
    BY <1>1, <1>4, <1>5, <1>7, <1>9 DEF Fits
  <1> HIDE DEF s
  <1>11. Has(s, "EVT_AP_CONNECT") => First(s) \/ Second(s)
    BY <1>1, <1>4, <1>5 DEF Fits
  <1>12. CASE Second(q)
    <2>1. Load(q) <= n + 1
      BY <1>12 DEF Fits
    <2> QED
      BY <1>1, <1>3, <1>10, <1>11, <1>12, <2>1 DEF Fits, s
  <1>13. CASE ~Second(q)
    <2>1. Load(q) <= n
      BY <1>13 DEF Fits
    <2> QED
      BY <1>1, <1>3, <1>10, <1>11, <1>13, <2>1 DEF Fits, s
  <1> QED
    BY <1>12, <1>13

LEMMA FitsPlain ==
  ASSUME NEW q \in Seq(Event), Once(q), NEW r, Plain(r), NEW n \in Nat, NEW k \in Nat,
         Fits(q, n), Len(r) <= k
  PROVE  Fits(q \o r, n + k)
  <1>1. r \in Seq(Event) /\ Once(r) /\ Load(r) = Len(r) /\ \A e \in Growing : ~Has(r, e)
    BY PlainOnce DEF Plain
  <1>2. ~Has(r, "EVT_AP_CONNECT") /\ Load(r) <= k
    BY <1>1 DEF Growing
  <1> QED
    BY <1>1, <1>2, FitsBehind

LEMMA LightFits ==
  ASSUME NEW q \in Seq(Event), NEW n \in Nat, Light(q, n)
  PROVE  Fits(q, n) /\ ~Second(q)
  <1>1. ~Second(q)
    BY LenProperties DEF Light, Second, Has
  <1> QED
    BY <1>1 DEF Light, Fits

LEMMA FitsMore ==
  ASSUME NEW q \in Seq(Event), NEW n \in Nat, NEW k \in Nat, n <= k, Fits(q, n)
  PROVE  Fits(q, k)
  <1>1. Load(q) \in Nat
    BY LoadBounds
  <1> QED
    BY <1>1 DEF Fits

(* What is left when eventFwProcess takes an event: two to four places for the handlers
   of the events that grow. *)
LEMMA EventTaken ==
  ASSUME NEW q \in Seq(Event), q # <<>>, Once(q), Fits(q, 10)
  PROVE  /\ Tail(q) \in Seq(Event) /\ Once(Tail(q))
         /\ Head(q) \notin Growing => Fits(Tail(q), 10)
         /\ Head(q) = "EVT_AP_CONNECT" => Light(Tail(q), 7)
         /\ Head(q) \in Growing \ {"EVT_AP_CONNECT"} => Light(Tail(q), 8)
  <1> DEFINE t == Tail(q)
  <1>1. t \in Seq(Event) /\ Once(t) /\ Load(t) = Load(q) - Share(Head(q))
    BY TailElements, OnceTail, LoadTail
  <1>2. Has(t, "EVT_AP_CONNECT") <=> Has(q, "EVT_AP_CONNECT") /\ Head(q) # "EVT_AP_CONNECT"
    BY HasTail DEF Growing
  <1>3. /\ Head(q) = q[1] /\ Len(t) = Len(q) - 1 /\ Len(q) \in Nat \ {0}
        /\ \A i \in 1 .. Len(q) - 1 : t[i] = q[i + 1]
    BY TailElements
  <1>4. Load(q) \in Nat /\ Load(t) \in Nat
    BY <1>1, LoadBounds
  <1> HIDE DEF t
  <1>5. CASE Head(q) \notin Growing
    <2>1. ~First(q)
      BY <1>3, <1>5 DEF First, Growing
    <2>2. Share(Head(q)) = 1
      BY <1>5 DEF Share, Growing
    <2>3. CASE Second(q)
      <3>1. Len(q) >= 2 /\ q[2] = "EVT_AP_CONNECT" /\ t[1] = q[2]
        BY <1>3, <2>3 DEF Second
      <3>2. First(t)
        BY <1>3, <3>1, EmptySeq DEF First
      <3>3. ~Second(t)
        BY <3>2 DEF First, Second, Growing
      <3>4. Load(t) <= 10
        BY <1>1, <1>4, <2>2, <2>3 DEF Fits
      <3> QED
        BY <1>1, <1>5, <3>2, <3>3, <3>4 DEF Fits, t, Growing
    <2>4. CASE ~Second(q)
      <3>1. ~Has(t, "EVT_AP_CONNECT")
        BY <1>2, <2>1, <2>4 DEF Fits
      <3>2. Load(t) <= 10
        BY <1>1, <1>4, <2>2, <2>4 DEF Fits
      <3>3. Fits(t, 10)
        BY <1>1, <3>1, <3>2, LightFits DEF Light
      <3> QED
        BY <1>1, <1>5, <3>3 DEF t, Growing
    <2> QED
      BY <2>3, <2>4
  <1>6. CASE Head(q) \in Growing
    <2>1. ~Second(q)
      BY <1>3, <1>6 DEF Second
    <2>2. Load(q) <= 10
      BY <2>1 DEF Fits
    <2>3. CASE Head(q) = "EVT_AP_CONNECT"
      <3>1. Load(t) <= 7 /\ ~Has(t, "EVT_AP_CONNECT")
        BY <1>1, <1>2, <1>4, <2>2, <2>3 DEF Share
      <3> QED
        BY <1>1, <1>6, <2>3, <3>1 DEF Light, t
    <2>4. CASE Head(q) # "EVT_AP_CONNECT"
      <3>1. Share(Head(q)) = 2
        BY <1>6, <2>4 DEF Share
      <3>2. ~Has(t, "EVT_AP_CONNECT")
        BY <1>2, <1>3, <2>1, <2>4 DEF Fits, First
      <3>3. Load(t) <= 8
        BY <1>1, <1>4, <2>2, <3>1
      <3> QED
        BY <1>1, <1>6, <2>4, <3>2, <3>3 DEF Light, t
    <2> QED
      BY <2>3, <2>4
  <1> QED
    BY <1>5, <1>6

(* eventGenerate takes them all when they fit. *)
LEMMA AllQueued ==
  ASSUME QueueSize >= 10, NEW q \in Seq(Event), NEW r \in Seq(Event), Fits(q \o r, 10)
  PROVE  Queued(q, r) = q \o r /\ ~(Len(q \o r) > QueueSize)
  <1> DEFINE s == q \o r
  <1>1. s \in Seq(Event)
    BY ConcatProperties
  <1>2. Load(s) \in Nat /\ Len(s) \in Nat /\ Len(s) <= Load(s)
    BY <1>1, LoadBounds
  <1> HIDE DEF s
  <1>3. Len(s) <= 10
    <2>1. CASE Second(s)
      <3>1. Has(s, "EVT_AP_CONNECT")
        BY <1>2, <2>1 DEF Second, Has
      <3>2. Extra(s, "EVT_AP_CONNECT", 2) = 2
        BY <3>1, ExtraValue
      <3>3. Load(s) >= Len(s) + 2
        BY <1>2, <3>2, ExtraValue DEF Load
      <3> QED
        BY <1>2, <2>1, <3>3 DEF Fits, s
    <2>2. CASE ~Second(s)
      BY <1>2, <2>2 DEF Fits, s
    <2> QED
      BY <2>1, <2>2
  <1>4. SubSeq(s, 1, Len(s)) = s
    BY <1>1, SubSeqFull
  <1>5. Len(s) <= QueueSize /\ QueueSize \in Nat
    BY <1>2, <1>3, ControllerAssumption
  <1>6. CASE Len(s) < QueueSize
    BY <1>2, <1>4, <1>5, <1>6 DEF Queued, s
  <1>7. CASE Len(s) = QueueSize
    BY <1>2, <1>4, <1>5, <1>7 DEF Queued, s
  <1> QED
    BY <1>2, <1>5, <1>6, <1>7 DEF s

-----------------------------------------------------------------------------
(* The events that the code generates together. *)

LEMMA NoEvents ==
  Plain(<<>>) /\ Len(<<>>) = 0 /\ \A n \in Nat : Fits(<<>>, n)
  <1>1. <<>> \in Seq(Event) /\ Len(<<>>) = 0
    BY EmptySeq
  <1>2. \A e : ~Has(<<>>, e)
    BY <1>1 DEF Has
  <1>3. Plain(<<>>)
    BY <1>1, <1>2 DEF Plain
  <1>4. Load(<<>>) = 0
    BY <1>1, <1>3, PlainOnce
  <1>5. ~Second(<<>>)
    BY <1>1 DEF Second
  <1> QED
    BY <1>1, <1>2, <1>3, <1>4, <1>5 DEF Fits

LEMMA OneEvent ==
  ASSUME NEW e \in Event
  PROVE  /\ <<e>> \in Seq(Event) /\ Once(<<e>>)
         /\ \A f : Has(<<e>>, f) <=> f = e
         /\ e \notin Growing => Plain(<<e>>) /\ Load(<<e>>) = 1
         /\ e \in Growing \ {"EVT_AP_CONNECT"} => Load(<<e>>) = 2
         /\ e = "EVT_AP_CONNECT" => Load(<<e>>) = 3
         /\ Len(<<e>>) = 1 /\ <<e>>[1] = e
  <1>1. <<e>> \in Seq(Event) /\ Len(<<e>>) = 1 /\ <<e>>[1] = e
    OBVIOUS
  <1>2. \A f : Has(<<e>>, f) <=> f = e
    BY <1>1 DEF Has
  <1>3. Once(<<e>>)
    BY <1>1 DEF Once
  <1>4. e \notin Growing => Plain(<<e>>) /\ Load(<<e>>) = 1
    BY <1>1, <1>2, PlainOnce DEF Plain
  <1>5. CASE e = "EVT_AP_CONNECT"
    BY <1>1, <1>2, <1>3, <1>5, ExtraValue DEF Load, Growing
  <1>6. CASE e = "EVT_AP_DISCONNECT"
    BY <1>1, <1>2, <1>3, <1>6, ExtraValue DEF Load, Growing
  <1>7. CASE e = "EVT_WIFI_STATUS"
    BY <1>1, <1>2, <1>3, <1>7, ExtraValue DEF Load, Growing
  <1>8. CASE e = "EVT_DEVICE_MONITOR_STATUS"
    BY <1>1, <1>2, <1>3, <1>8, ExtraValue DEF Load, Growing
  <1>9. CASE e \notin Growing
    BY <1>1, <1>2, <1>3, <1>4, <1>9 DEF Growing
  <1> QED
    BY <1>5, <1>6, <1>7, <1>8, <1>9 DEF Growing

LEMMA TwoEvents ==
  ASSUME NEW e \in Event \ Growing, NEW f \in Event \ Growing
  PROVE  Plain(<<e, f>>) /\ Len(<<e, f>>) = 2
  <1>1. /\ <<e, f>> \in Seq(Event) /\ Len(<<e, f>>) = 2
        /\ <<e, f>>[1] = e /\ <<e, f>>[2] = f
    OBVIOUS
  <1>2. ASSUME NEW g \in Growing, NEW i \in 1 .. 2 PROVE <<e, f>>[i] # g
    BY <1>1
  <1> QED
    BY <1>1, <1>2 DEF Plain, Has

LEMMA HandlerEvents ==
  /\ Plain(InitServers) /\ Len(InitServers) = 2
  /\ Plain(Registration) /\ Len(Registration) = 1
  /\ Plain(AtEndOfSetup) /\ Len(AtEndOfSetup) = IF booting THEN 1 ELSE 0
  /\ Plain(InitServers \o AtEndOfSetup)
  /\ Len(InitServers \o AtEndOfSetup) = IF booting THEN 3 ELSE 2
  /\ Plain(InitServers \o Registration) /\ Len(InitServers \o Registration) = 3
  /\ Plain(InitServers \o Registration \o AtEndOfSetup)
  /\ Len(InitServers \o Registration \o AtEndOfSetup) = IF booting THEN 4 ELSE 3
  <1>1. Plain(InitServers) /\ Len(InitServers) = 2
    BY TwoEvents DEF InitServers, Event, Growing
  <1>2. Plain(Registration) /\ Len(Registration) = 1
    BY OneEvent DEF Registration, Event, Growing
  <1>3. Plain(AtEndOfSetup) /\ Len(AtEndOfSetup) = IF booting THEN 1 ELSE 0
    <2>1. CASE booting
      <3>1. AtEndOfSetup = Registration
        BY <2>1 DEF AtEndOfSetup
      <3> QED
        BY <1>2, <2>1, <3>1
    <2>2. CASE ~booting
      <3>1. AtEndOfSetup = <<>>
        BY <2>2 DEF AtEndOfSetup
      <3> QED
        BY <2>2, <3>1, NoEvents
    <2> QED
      BY <2>1, <2>2
  <1>4. /\ Plain(InitServers \o AtEndOfSetup)
        /\ Len(InitServers \o AtEndOfSetup) = IF booting THEN 3 ELSE 2
    <2>1. Len(InitServers \o AtEndOfSetup) = Len(InitServers) + Len(AtEndOfSetup)
      BY <1>1, <1>3, PlainConcat
    <2>2. Plain(InitServers \o AtEndOfSetup)
      BY <1>1, <1>3, PlainConcat
    <2> QED
      BY <1>1, <1>3, <2>1, <2>2
  <1>5. Plain(InitServers \o Registration) /\ Len(InitServers \o Registration) = 3
    <2>1. Len(InitServers \o Registration) = Len(InitServers) + Len(Registration)
      BY <1>1, <1>2, PlainConcat
    <2>2. Plain(InitServers \o Registration)
      BY <1>1, <1>2, PlainConcat
    <2> QED
      BY <1>1, <1>2, <2>1, <2>2
  <1>6. /\ Plain((InitServers \o Registration) \o AtEndOfSetup)
        /\ Len((InitServers \o Registration) \o AtEndOfSetup) = IF booting THEN 4 ELSE 3
    <2>1. Len((InitServers \o Registration) \o AtEndOfSetup)
            = Len(InitServers \o Registration) + Len(AtEndOfSetup)
      BY <1>3, <1>5, PlainConcat
    <2>2. Plain((InitServers \o Registration) \o AtEndOfSetup)
      BY <1>3, <1>5, PlainConcat
    <2> QED
      BY <1>3, <1>5, <2>1, <2>2
  <1> QED
    BY <1>1, <1>2, <1>3, <1>4, <1>5, <1>6

(* Each timer's event at most once: six places with what they will add. *)
LEMMA TimerEventsFit ==
  ASSUME NEW expired
  PROVE  /\ Callbacks(expired) \in Seq(Event) /\ Once(Callbacks(expired))
         /\ Load(Callbacks(expired)) <= 6
         /\ ~Has(Callbacks(expired), "EVT_AP_CONNECT") /\ ~Has(Callbacks(expired), "EVT_AP_DISCONNECT")
  <1> DEFINE of(slot) == IF TimerEvents[slot] \in expired THEN <<TimerEvents[slot]>> ELSE <<>>
             a == of(1)
             b == of(1) \o of(2)
             c == of(1) \o of(2) \o of(3)
  <1>1. /\ TimerEvents[1] = "EVT_WIFI_STATUS" /\ TimerEvents[2] = "EVT_SEND_DEVICE_STATUS"
        /\ TimerEvents[3] = "EVT_DEVICE_MONITOR_STATUS" /\ TimerEvents[4] = "EVT_FLUSH_BUFFER"
    BY DEF TimerEvents
  <1>2. ASSUME NEW slot \in 1 .. 4
        PROVE  /\ of(slot) \in Seq(Event) /\ Once(of(slot))
               /\ Load(of(slot)) \in Nat
               /\ Load(of(slot)) <= IF slot \in {1, 3} THEN 2 ELSE 1
               /\ \A e : Has(of(slot), e) => e = TimerEvents[slot]
    <2>1. TimerEvents[slot] \in Event /\ (TimerEvents[slot] \in Growing <=> slot \in {1, 3})
          /\ TimerEvents[slot] # "EVT_AP_CONNECT"
      BY <1>1 DEF Event, Growing
    <2>2. CASE TimerEvents[slot] \in expired
      <3>1. of(slot) = <<TimerEvents[slot]>>
        BY <2>2
      <3>2. /\ <<TimerEvents[slot]>> \in Seq(Event) /\ Once(<<TimerEvents[slot]>>)
            /\ \A e : Has(<<TimerEvents[slot]>>, e) <=> e = TimerEvents[slot]
            /\ Load(<<TimerEvents[slot]>>) = IF slot \in {1, 3} THEN 2 ELSE 1
        BY <2>1, OneEvent
      <3> QED
        BY <3>1, <3>2
    <2>3. CASE TimerEvents[slot] \notin expired
      <3>1. of(slot) = <<>>
        BY <2>3
      <3>2. <<>> \in Seq(Event) /\ Once(<<>>) /\ Load(<<>>) = 0
        BY NoEvents, PlainOnce DEF Plain
      <3>3. \A e : ~Has(<<>>, e)
        BY NoEvents DEF Has
      <3> QED
        BY <3>1, <3>2, <3>3
    <2> QED
      BY <2>2, <2>3
  <1>3. Callbacks(expired) = c \o of(4)
    BY DEF Callbacks
  <1> HIDE DEF of
  <1>4. /\ b \in Seq(Event) /\ Once(b) /\ Load(b) \in Nat /\ Load(b) <= 3
        /\ \A e \in Growing : Has(b, e) => e = "EVT_WIFI_STATUS"
    <2>1. \A e \in Growing : ~Has(of(2), e)
      BY <1>1, <1>2 DEF Growing
    <2>2. \A e \in Growing : Has(of(1), e) => e = "EVT_WIFI_STATUS"
      BY <1>1, <1>2
    <2> QED
      BY <1>2, <2>1, <2>2, Behind
  <1> HIDE DEF b
  <1>5. c = b \o of(3)
    BY DEF b
  <1>6. /\ c \in Seq(Event) /\ Once(c) /\ Load(c) \in Nat /\ Load(c) <= 5
        /\ \A e \in Growing : Has(c, e) => e \in {"EVT_WIFI_STATUS", "EVT_DEVICE_MONITOR_STATUS"}
    <2>1. \A e \in Growing : Has(of(3), e) => e = "EVT_DEVICE_MONITOR_STATUS"
      BY <1>1, <1>2
    <2>2. of(3) \in Seq(Event) /\ Once(of(3)) /\ Load(of(3)) \in Nat /\ Load(of(3)) <= 2
      BY <1>2
    <2> HIDE DEF c
    <2> QED
      BY <1>4, <1>5, <2>1, <2>2, Behind
  <1> HIDE DEF c
  <1>7. /\ c \o of(4) \in Seq(Event) /\ Once(c \o of(4)) /\ Load(c \o of(4)) <= 6
        /\ \A e \in Growing : Has(c \o of(4), e) => e \in {"EVT_WIFI_STATUS", "EVT_DEVICE_MONITOR_STATUS"}
    <2>1. \A e \in Growing : ~Has(of(4), e)
      BY <1>1, <1>2 DEF Growing
    <2>2. of(4) \in Seq(Event) /\ Once(of(4)) /\ Load(of(4)) \in Nat /\ Load(of(4)) <= 1
      BY <1>2
    <2> QED
      BY <1>6, <2>1, <2>2, Behind
  <1>8. "EVT_AP_CONNECT" \in Growing /\ "EVT_AP_DISCONNECT" \in Growing
    BY DEF Growing
  <1> QED
    BY <1>3, <1>7, <1>8

(* What one pass of loop receives. *)
LEMMA ReceivedFits ==
  ASSUME NEW packet \in {<<>>, <<"EVT_PAR_UDP_MSG">>}, NEW message \in CommandEvents
  PROVE  /\ packet \o message \in Seq(Event) /\ Once(packet \o message)
         /\ Fits(packet \o message, 4)
         /\ ~Has(packet \o message, "EVT_WIFI_STATUS")
         /\ ~Has(packet \o message, "EVT_DEVICE_MONITOR_STATUS")
  <1> DEFINE connect == <<"EVT_AP_CONNECT", "EVT_DEVICE_REGISTRATION">>
  <1>1. Plain(packet) /\ Len(packet) \in {0, 1} /\ (Len(packet) = 1 => packet = <<"EVT_PAR_UDP_MSG">>)
    BY OneEvent, NoEvents DEF Event, Growing
  <1>2. packet \in Seq(Event) /\ Once(packet) /\ \A e \in Growing : ~Has(packet, e)
    BY <1>1, PlainOnce DEF Plain
  <1>3. Fits(packet, 1) /\ Load(packet) = Len(packet)
    <2>1. ~Has(packet, "EVT_AP_CONNECT")
      BY <1>2 DEF Growing
    <2>2. Load(packet) = Len(packet)
      BY <1>1, PlainOnce
    <2> QED
      BY <1>1, <1>2, <2>1, <2>2, LightFits DEF Light
  <1>4. CASE message = <<>>
    <2>1. packet \o message = packet
      BY <1>2, <1>4, ConcatEmptySeq
    <2> QED
      BY <1>2, <1>3, <2>1, FitsMore DEF Growing
  <1>5. CASE message = connect
    <2>1. /\ connect \in Seq(Event) /\ Len(connect) = 2
          /\ connect[1] = "EVT_AP_CONNECT" /\ connect[2] = "EVT_DEVICE_REGISTRATION"
      BY DEF Event
    <2> HIDE DEF connect
    <2>2. \A e : Has(connect, e) <=> e \in {"EVT_AP_CONNECT", "EVT_DEVICE_REGISTRATION"}
      <3>1. \A e : Has(connect, e) <=> connect[1] = e \/ connect[2] = e
        BY <2>1 DEF Has
      <3> QED
        BY <2>1, <3>1
    <2>3. Once(connect)
      <3>1. \A i \in 1 .. 2 : i = 1 \/ i = 2
        OBVIOUS
      <3> QED
        BY <2>1, <3>1 DEF Once
    <2>4. Load(connect) = 4
      BY <2>1, <2>2, ExtraValue DEF Load
    <2>5. /\ packet \o connect \in Seq(Event) /\ Once(packet \o connect)
          /\ Load(packet \o connect) = Len(packet) + 4
          /\ \A e \in Growing : Has(packet \o connect, e) <=> Has(connect, e)
      BY <1>2, <1>3, <2>1, <2>3, <2>4, Behind
    <2>6. /\ Len(packet \o connect) = Len(packet) + 2
          /\ \A i \in 1 .. Len(packet) + 2 :
               (packet \o connect)[i] = IF i <= Len(packet) THEN packet[i] ELSE connect[i - Len(packet)]
      <3>1. packet \in Seq(Event) /\ connect \in Seq(Event)
        BY <1>2, <2>1
      <3>2. /\ Len(packet \o connect) = Len(packet) + Len(connect)
            /\ \A i \in 1 .. Len(packet) + Len(connect) :
                 (packet \o connect)[i] = IF i <= Len(packet) THEN packet[i] ELSE connect[i - Len(packet)]
        BY ONLY <3>1, ConcatProperties
      <3> QED
        BY <2>1, <3>2
    <2>7. CASE Len(packet) = 0
      <3>1. First(packet \o connect)
        BY <2>1, <2>5, <2>6, <2>7, EmptySeq DEF First
      <3>2. ~Second(packet \o connect)
        BY <3>1 DEF First, Second, Growing
      <3>3. Fits(packet \o connect, 4)
        BY <2>5, <2>7, <3>1, <3>2 DEF Fits
      <3> QED
        BY <1>5, <2>2, <2>5, <3>3 DEF Growing
    <2>8. CASE Len(packet) = 1
      <3>1. packet[1] = "EVT_PAR_UDP_MSG"
        BY <1>1, <2>8, OneEvent DEF Event
      <3>2. Second(packet \o connect)
        BY <2>1, <2>6, <2>8, <3>1 DEF Second, Growing
      <3>3. Fits(packet \o connect, 4)
        BY <2>5, <2>8, <3>2 DEF Fits
      <3> QED
        BY <1>5, <2>2, <2>5, <3>3 DEF Growing
    <2> QED
      BY <1>1, <2>7, <2>8
  <1>6. CASE message # <<>> /\ message # connect
    <2>1. PICK e \in Event \ {"EVT_AP_CONNECT", "EVT_WIFI_STATUS", "EVT_DEVICE_MONITOR_STATUS"} :
            message = <<e>>
      BY <1>6 DEF CommandEvents, Event
    <2>2. /\ message \in Seq(Event) /\ Once(message) /\ Load(message) <= 3
          /\ \A f : Has(message, f) <=> f = e
      BY <2>1, OneEvent
    <2>3. Fits(packet \o message, 1 + 3)
      BY <1>2, <1>3, <2>1, <2>2, FitsBehind
    <2>4. packet \o message \in Seq(Event) /\ Once(packet \o message)
          /\ \A f \in Growing : Has(packet \o message, f) <=> Has(message, f)
      BY <1>2, <2>2, Behind
    <2>5. Fits(packet \o message, 4)
      BY <2>3
    <2> QED
      BY <2>1, <2>2, <2>4, <2>5 DEF Growing
  <1> QED
    BY <1>4, <1>5, <1>6

-----------------------------------------------------------------------------
(* No step of the loop loses an event. *)

LEMMA Generated ==
  ASSUME QueueSize >= 10, ~refused, NEW q \in Seq(Event), NEW r \in Seq(Event),
         Fits(q \o r, 10), eventGenerate(q, r)
  PROVE  queue' = q \o r /\ ~refused'
  <1>1. Queued(q, r) = q \o r /\ ~(Len(q \o r) > QueueSize)
    BY AllQueued
  <1> QED
    BY <1>1 DEF eventGenerate

(* A handler, or setup, adds plain events to a queue that has places for them. *)
LEMMA GeneratedPlain ==
  ASSUME QueueSize >= 10, ~refused, NEW q \in Seq(Event), Once(q), NEW r, Plain(r),
         NEW n \in Nat, NEW m \in 0 .. 10, Fits(q, n), n + Len(r) <= m,
         eventGenerate(q, r)
  PROVE  /\ queue' = q \o r /\ ~refused'
         /\ queue' \in Seq(Event) /\ Once(queue') /\ Fits(queue', m)
         /\ \A e \in Growing : Has(queue', e) <=> Has(q, e)
  <1> DEFINE s == q \o r
             k == n + Len(r)
  <1>1. r \in Seq(Event) /\ Len(r) \in Nat
    BY LenProperties DEF Plain
  <1>2. /\ s \in Seq(Event) /\ Once(s) /\ Fits(s, k)
        /\ \A e \in Growing : Has(s, e) <=> Has(q, e)
    BY <1>1, FitsPlain, PlainBehind
  <1>3. k \in Nat /\ k <= m /\ k <= 10
    BY <1>1
  <1> HIDE DEF s, k
  <1>4. Fits(s, m) /\ Fits(s, 10)
    BY <1>2, <1>3, FitsMore
  <1>5. queue' = s /\ ~refused'
    BY <1>1, <1>4, Generated DEF s
  <1> QED
    BY <1>2, <1>4, <1>5 DEF s

LEMMA QueueInit == Init => QueueInv /\ ~refused
  <1>1. <<>> \in Seq(Event) /\ Once(<<>>)
    BY NoEvents, PlainOnce DEF Plain
  <1> QED
    BY <1>1 DEF Init, QueueInv

LEMMA SetupStep ==
  ASSUME QueueSize >= 10, QueueInv, ~refused, SetupAp \/ SetupConnect
  PROVE  QueueInv' /\ ~refused'
  <1>1. CASE SetupAp
    <2> DEFINE r == InitServers \o Registration
    <2>1. queue = <<>> /\ eventGenerate(queue, r)
      BY <1>1 DEF SetupAp, Main, QueueInv
    <2>2. /\ queue \in Seq(Event) /\ Once(queue) /\ Fits(queue, 1)
          /\ Plain(r) /\ 1 + Len(r) <= 4
      BY <2>1, HandlerEvents, NoEvents DEF QueueInv
    <2> HIDE DEF r
    <2>3. eventGenerate(queue, r)
      BY <2>1
    <2>4. /\ queue' \in Seq(Event) /\ Once(queue') /\ Fits(queue', 4) /\ ~refused'
          /\ \A e \in Growing : Has(queue', e) <=> Has(queue, e)
      BY <2>2, <2>3, GeneratedPlain
    <2>5. /\ queue' \in Seq(Event) /\ Once(queue') /\ Fits(queue', 4) /\ ~refused'
          /\ \A e \in Growing : Has(queue', e) <=> Has(<<>>, e)
      BY <2>1, <2>4
    <2>6. pc' = "timers" /\ booting' = FALSE
      BY <1>1 DEF SetupAp, Main
    <2>7. ~Has(queue', "EVT_WIFI_STATUS") /\ ~Has(queue', "EVT_DEVICE_MONITOR_STATUS")
      BY <2>5, NoEvents DEF Plain, Growing
    <2> QED
      BY <2>5, <2>6, <2>7 DEF QueueInv
  <1>2. CASE SetupConnect
    <2>1. pc = "setup" /\ pc' = "join" /\ queue' = queue /\ refused' = refused /\ booting' = booting
      BY <1>2 DEF SetupConnect, Main
    <2>2. queue = <<>> /\ queue \in Seq(Event) /\ Once(queue)
      BY <2>1 DEF QueueInv
    <2>3. Light(<<>>, 7)
      <3>1. Load(<<>>) = 0
        BY NoEvents, PlainOnce
      <3>2. ~Has(<<>>, "EVT_AP_CONNECT")
        BY NoEvents DEF Plain, Growing
      <3> QED
        BY <3>1, <3>2 DEF Light
    <2> QED
      BY <2>1, <2>2, <2>3 DEF QueueInv
  <1> QED
    BY <1>1, <1>2

LEMMA JoinStep ==
  ASSUME QueueSize >= 10, QueueInv, ~refused, JoinPoll \/ Joined \/ JoinFailed
  PROVE  QueueInv' /\ ~refused'
  <1>1. /\ pc = "join" /\ queue \in Seq(Event) /\ Once(queue)
        /\ booting => queue = <<>>
        /\ ~booting => Light(queue, 7)
        /\ booting \in BOOLEAN
    BY DEF QueueInv, JoinPoll, Joined, JoinFailed, Main
  <1>2. CASE JoinPoll
    BY <1>1, <1>2 DEF QueueInv, JoinPoll, Main
  <1>3. CASE Joined \/ JoinFailed
    <2>1. PICK r : /\ eventGenerate(queue, r) /\ Plain(r)
                   /\ Len(r) <= IF booting THEN 4 ELSE 3
      <3>1. CASE Joined
        <4>1. eventGenerate(queue, InitServers \o Registration \o AtEndOfSetup)
          BY <3>1 DEF Joined
        <4>2. /\ Plain(InitServers \o Registration \o AtEndOfSetup)
              /\ Len(InitServers \o Registration \o AtEndOfSetup) <= IF booting THEN 4 ELSE 3
          BY HandlerEvents
        <4> QED
          BY <4>1, <4>2
      <3>2. CASE JoinFailed
        <4>1. eventGenerate(queue, InitServers \o AtEndOfSetup)
          BY <3>2 DEF JoinFailed
        <4>2. /\ Plain(InitServers \o AtEndOfSetup)
              /\ Len(InitServers \o AtEndOfSetup) <= IF booting THEN 4 ELSE 3
          BY HandlerEvents
        <4> QED
          BY <4>1, <4>2
      <3> QED
        BY <1>3, <3>1, <3>2
    <2>2. booting' = FALSE /\ pc' = AfterJoin
      BY <1>3 DEF Joined, JoinFailed, Main
    <2>3. CASE booting
      <3>1. queue = <<>> /\ Len(r) <= 4
        BY <1>1, <2>1, <2>3
      <3>2. Fits(queue, 0) /\ \A e \in Growing : ~Has(queue, e)
        BY <3>1, NoEvents DEF Plain
      <3>3. 0 + Len(r) <= 4
        BY <2>1, <3>1 DEF Plain
      <3>4. /\ queue' \in Seq(Event) /\ Once(queue') /\ Fits(queue', 4) /\ ~refused'
            /\ \A e \in Growing : Has(queue', e) <=> Has(queue, e)
        BY <1>1, <2>1, <3>2, <3>3, GeneratedPlain
      <3>5. ~Has(queue', "EVT_WIFI_STATUS") /\ ~Has(queue', "EVT_DEVICE_MONITOR_STATUS")
        BY <3>2, <3>4 DEF Growing
      <3>6. pc' = "timers"
        BY <2>2, <2>3 DEF AfterJoin
      <3> QED
        BY <2>2, <3>4, <3>5, <3>6 DEF QueueInv
    <2>4. CASE ~booting
      <3>1. Fits(queue, 7)
        BY <1>1, <2>4, LightFits
      <3>2. 7 + Len(r) <= 10
        BY <2>1, <2>4, LenProperties DEF Plain
      <3>3. queue' \in Seq(Event) /\ Once(queue') /\ Fits(queue', 10) /\ ~refused'
        BY <1>1, <2>1, <3>1, <3>2, GeneratedPlain
      <3>4. pc' = "events"
        BY <2>2, <2>4 DEF AfterJoin
      <3> QED
        BY <2>2, <3>3, <3>4 DEF QueueInv
    <2> QED
      BY <2>3, <2>4
  <1> QED
    BY <1>2, <1>3

LEMMA TimersStep ==
  ASSUME QueueSize >= 10, QueueInv, ~refused, NEW expired, timerFwProcess(expired)
  PROVE  QueueInv' /\ ~refused'
  <1> DEFINE r == Callbacks(expired)
  <1>1. pc = "timers" /\ pc' = "events" /\ booting' = booting /\ eventGenerate(queue, r)
    BY DEF timerFwProcess, Main
  <1>2. /\ queue \in Seq(Event) /\ Once(queue) /\ Fits(queue, 4) /\ booting \in BOOLEAN /\ ~booting
        /\ ~Has(queue, "EVT_WIFI_STATUS") /\ ~Has(queue, "EVT_DEVICE_MONITOR_STATUS")
    BY <1>1 DEF QueueInv
  <1>3. /\ r \in Seq(Event) /\ Once(r) /\ Load(r) <= 6
        /\ ~Has(r, "EVT_AP_CONNECT") /\ ~Has(r, "EVT_AP_DISCONNECT")
    BY TimerEventsFit
  <1> HIDE DEF r
  <1>4. \A e \in Growing : ~(Has(queue, e) /\ Has(r, e))
    BY <1>2, <1>3 DEF Growing
  <1>5. Fits(queue \o r, 4 + 6)
    BY <1>2, <1>3, <1>4, FitsBehind
  <1>6. Fits(queue \o r, 10) /\ queue \o r \in Seq(Event) /\ Once(queue \o r)
    BY <1>2, <1>3, <1>4, <1>5, Behind
  <1>7. queue' = queue \o r /\ ~refused'
    BY <1>1, <1>2, <1>3, <1>6, Generated
  <1> QED
    BY <1>1, <1>2, <1>6, <1>7 DEF QueueInv

LEMMA EventsStep ==
  ASSUME QueueSize >= 10, QueueInv, ~refused, Events
  PROVE  QueueInv' /\ ~refused'
  <1> DEFINE t == Tail(queue)
  <1>1. queue \in Seq(Event) /\ Once(queue) /\ booting \in BOOLEAN
    BY DEF QueueInv
  <1>2. pc = "events" => ~booting /\ Fits(queue, 10)
    BY DEF QueueInv
  <1>3. pc \in {"check", "forget"} => ~booting /\ Light(queue, 8) /\ Fits(queue, 8)
    BY <1>1, LightFits DEF QueueInv
  <1>4. pc = "events" /\ queue # <<>> =>
          /\ t \in Seq(Event) /\ Once(t)
          /\ Head(queue) \notin Growing => Fits(t, 10)
          /\ Head(queue) = "EVT_AP_CONNECT" => Light(t, 7)
          /\ Head(queue) \in Growing \ {"EVT_AP_CONNECT"} => Light(t, 8) /\ Fits(t, 8)
    BY <1>1, <1>2, EventTaken, LightFits
  <1> HIDE DEF t
  <1>5. CASE EventsDone
    BY <1>1, <1>2, <1>5 DEF EventsDone, Main, QueueInv
  <1>6. CASE PlainEvent \/ evtGetApList
    <2>1. /\ pc = "events" /\ pc' = "events" /\ queue # <<>> /\ queue' = t
          /\ booting' = booting /\ refused' = refused /\ Head(queue) \notin Growing
      BY <1>6 DEF PlainEvent, evtGetApList, Taken, Main, t, Growing
    <2> QED
      BY <1>2, <1>4, <2>1 DEF QueueInv
  <1>7. CASE \E alerts \in BOOLEAN : evtDeviceMonitorStatus(alerts)
    <2>1. PICK alerts \in BOOLEAN : evtDeviceMonitorStatus(alerts)
      BY <1>7
    <2> DEFINE r == IF alerts THEN <<"EVT_DEV_HANDLE_ALERT", "EVT_SEND_DEVICE_STATUS">> ELSE <<>>
    <2>2. /\ pc = "events" /\ pc' = "events" /\ queue # <<>> /\ booting' = booting
          /\ eventGenerate(t, r)
          /\ Head(queue) = "EVT_DEVICE_MONITOR_STATUS"
      BY <2>1 DEF evtDeviceMonitorStatus, Taken, Main, t
    <2>3. t \in Seq(Event) /\ Once(t) /\ Fits(t, 8)
      BY <1>4, <2>2 DEF Growing
    <2>4. Plain(r) /\ Len(r) <= 2
      BY NoEvents, TwoEvents DEF Event, Growing
    <2> HIDE DEF r
    <2>5. 8 + Len(r) <= 10
      BY <2>4, LenProperties DEF Plain
    <2>6. Plain(r) /\ eventGenerate(t, r)
      BY <2>2, <2>4
    <2>7. queue' \in Seq(Event) /\ Once(queue') /\ Fits(queue', 10) /\ ~refused'
      BY <2>3, <2>5, <2>6, GeneratedPlain
    <2> QED
      BY <1>1, <1>2, <2>2, <2>7 DEF QueueInv
  <1>8. CASE evtApConnect
    <2>1. /\ pc = "events" /\ pc' = "join" /\ queue # <<>> /\ queue' = t
          /\ booting' = booting /\ refused' = refused /\ Head(queue) = "EVT_AP_CONNECT"
      BY <1>8 DEF evtApConnect, Taken, Main, t
    <2> QED
      BY <1>1, <1>2, <1>4, <2>1 DEF QueueInv
  <1>9. CASE evtApDisconnect \/ evtWifiStatus
    <2>1. /\ pc = "events" /\ pc' \in {"forget", "check"} /\ queue # <<>> /\ queue' = t
          /\ booting' = booting /\ refused' = refused
          /\ Head(queue) \in Growing \ {"EVT_AP_CONNECT"}
      BY <1>9 DEF evtApDisconnect, evtWifiStatus, Taken, Main, t, Growing
    <2> QED
      BY <1>1, <1>2, <1>4, <2>1 DEF QueueInv
  <1>10. CASE WifiStatusKept
    <2>1. /\ pc = "events" /\ pc' = "events" /\ queue # <<>> /\ queue' = t
          /\ booting' = booting /\ refused' = refused
          /\ Head(queue) \in Growing \ {"EVT_AP_CONNECT"}
      BY <1>10 DEF WifiStatusKept, Taken, Main, t, Growing
    <2>2. t \in Seq(Event) /\ Fits(t, 8)
      BY <1>4, <2>1
    <2>3. Fits(t, 10)
      BY <2>2, FitsMore
    <2> QED
      BY <1>1, <1>2, <1>4, <2>1, <2>3 DEF QueueInv
  <1>11. CASE ApDisconnected \/ FallBack
    <2>1. /\ pc \in {"check", "forget"} /\ pc' = "events" /\ booting' = booting
          /\ eventGenerate(queue, InitServers)
      BY <1>11 DEF ApDisconnected, FallBack, Main
    <2>2. Plain(InitServers) /\ 8 + Len(InitServers) <= 10
      BY HandlerEvents
    <2>3. queue' \in Seq(Event) /\ Once(queue') /\ Fits(queue', 10) /\ ~refused'
      BY <1>1, <1>3, <2>1, <2>2, GeneratedPlain
    <2> QED
      BY <1>1, <1>3, <2>1, <2>3 DEF QueueInv
  <1>12. CASE AlreadyInAp
    <2>1. /\ pc = "check" /\ pc' = "events" /\ booting' = booting /\ queue' = queue
          /\ refused' = refused
      BY <1>12 DEF AlreadyInAp, Main
    <2>2. Fits(queue, 8)
      BY <1>3, <2>1
    <2>3. Fits(queue, 10)
      BY <1>1, <2>2, FitsMore
    <2> QED
      BY <1>1, <1>3, <2>1, <2>3 DEF QueueInv
  <1> QED
    BY <1>5, <1>6, <1>7, <1>8, <1>9, <1>10, <1>11, <1>12 DEF Events

LEMMA ReceiveStep ==
  ASSUME QueueSize >= 10, QueueInv, ~refused,
         NEW packet \in {<<>>, <<"EVT_PAR_UDP_MSG">>}, NEW message \in Message \cup {<<>>},
         Receive(packet, message)
  PROVE  QueueInv' /\ ~refused'
  <1> DEFINE r == packet \o message
  <1>1. message \in CommandEvents
    BY ControllerAssumption DEF CommandEvents
  <1>2. /\ pc = "receive" /\ pc' = "timers" /\ booting' = booting /\ eventGenerate(queue, r)
    BY DEF Receive, Main
  <1>3. queue = <<>> /\ booting \in BOOLEAN /\ ~booting
    BY <1>2 DEF QueueInv
  <1>4. /\ r \in Seq(Event) /\ Once(r) /\ Fits(r, 4)
        /\ ~Has(r, "EVT_WIFI_STATUS") /\ ~Has(r, "EVT_DEVICE_MONITOR_STATUS")
    BY <1>1, ReceivedFits
  <1> HIDE DEF r
  <1>5. queue \o r = r /\ queue \in Seq(Event)
    BY <1>3, <1>4, ConcatEmptySeq, EmptySeq
  <1>6. Fits(queue \o r, 10)
    BY <1>4, <1>5, FitsMore
  <1>7. queue' = r /\ ~refused'
    BY <1>2, <1>4, <1>5, <1>6, Generated
  <1> QED
    BY <1>2, <1>3, <1>4, <1>7 DEF QueueInv

LEMMA QueueStep ==
  ASSUME QueueSize >= 10, QueueInv, ~refused, [Next]_vars
  PROVE  QueueInv' /\ ~refused'
  <1>1. CASE Loop
    <2>1. CASE \E expired \in Expired : timerFwProcess(expired)
      BY <2>1, TimersStep
    <2>2. CASE \E packet \in {<<>>, <<"EVT_PAR_UDP_MSG">>}, message \in Message \cup {<<>>} :
                 Receive(packet, message)
      BY <2>2, ReceiveStep
    <2> QED
      BY <1>1, <2>1, <2>2, SetupStep, JoinStep, EventsStep DEF Loop
  <1>2. CASE NetworkTask \/ Driver \/ UNCHANGED vars
    <2>1. UNCHANGED <<app, refused>>
      BY <1>2 DEF NetworkTask, NetworkEvent, Reconnect, Driver, vars
    <2> QED
      BY <2>1 DEF app, QueueInv
  <1> QED
    BY <1>1, <1>2 DEF Next

(* The queue of ten places is long enough: whatever the timers, the messages and the
   network do, no event that eventGenerate is given is refused (no caller of it looks at
   its answer). *)
THEOREM EventsNeverLost ==
  ASSUME QueueSize >= 10
  PROVE  Spec => []NoEventLost
  <1>1. QueueInv /\ ~refused /\ [Next]_vars => QueueInv' /\ ~refused'
    BY QueueStep
  <1>2. QueueInv /\ ~refused => NoEventLost
    BY DEF NoEventLost
  <1> QED
    BY <1>1, <1>2, QueueInit, PTL DEF Spec

-----------------------------------------------------------------------------
(* The driver's events. *)

LEMMA RetryingFinite ==
  ASSUME NEW s \in Seq(NetEvent)
  PROVE  /\ IsFiniteSet(Retrying(s)) /\ Cardinality(Retrying(s)) \in Nat
         /\ Cardinality(Retrying(s)) <= Len(s) /\ Len(s) \in Nat
  <1>1. Len(s) \in Nat
    BY LenProperties
  <1>2. IsFiniteSet(1 .. Len(s)) /\ Cardinality(1 .. Len(s)) = Len(s)
    BY <1>1, FS_Interval
  <1>3. Retrying(s) \in SUBSET (1 .. Len(s))
    BY DEF Retrying
  <1> QED
    BY <1>1, <1>2, <1>3, FS_Subset, FS_CardinalityType

LEMMA WeightBounds ==
  ASSUME NEW s \in Seq(NetEvent)
  PROVE  /\ Weight(s) \in Nat /\ Len(s) \in Nat
         /\ Len(s) <= Weight(s) /\ Weight(s) <= 3 * Len(s)
  BY RetryingFinite DEF Weight

LEMMA WeightEmpty == Weight(<<>>) = 0
  <1>1. Retrying(<<>>) = {} /\ Len(<<>>) = 0
    BY EmptySeq DEF Retrying
  <1> QED
    BY <1>1, FS_EmptySet DEF Weight

LEMMA WeightAppend ==
  ASSUME NEW s \in Seq(NetEvent), NEW e \in NetEvent
  PROVE  /\ Append(s, e) \in Seq(NetEvent)
         /\ Weight(Append(s, e)) = Weight(s) + (IF Reconnects(e) THEN 3 ELSE 1)
  <1> DEFINE a == Append(s, e)
             n == Len(s)
  <1>1. /\ a \in Seq(NetEvent) /\ Len(a) = n + 1 /\ n \in Nat
        /\ \A i \in 1 .. n : a[i] = s[i]
        /\ a[n + 1] = e
    BY LenProperties
  <1>2. n + 1 \notin Retrying(s)
    BY <1>1 DEF Retrying
  <1> HIDE DEF a
  <1>3. CASE Reconnects(e)
    <2>1. Retrying(a) = Retrying(s) \cup {n + 1}
      BY <1>1, <1>3 DEF Retrying
    <2>2. Cardinality(Retrying(a)) = Cardinality(Retrying(s)) + 1
      BY <1>2, <2>1, RetryingFinite, FS_AddElement
    <2> QED
      BY <1>1, <1>3, <2>2, RetryingFinite DEF Weight, a
  <1>4. CASE ~Reconnects(e)
    <2>1. Retrying(a) = Retrying(s)
      BY <1>1, <1>4 DEF Retrying
    <2> QED
      BY <1>1, <1>4, <2>1, RetryingFinite DEF Weight, a
  <1> QED
    BY <1>3, <1>4

LEMMA WeightTail ==
  ASSUME NEW s \in Seq(NetEvent), s # <<>>
  PROVE  /\ Tail(s) \in Seq(NetEvent) /\ Head(s) \in NetEvent
         /\ Weight(Tail(s)) = Weight(s) - (IF Reconnects(Head(s)) THEN 3 ELSE 1)
  <1> DEFINE t == Tail(s)
             n == Len(s)
             rest == Retrying(s) \ {1}
  <1>1. n \in Nat \ {0}
    BY EmptySeq
  <1>2. /\ t \in Seq(NetEvent) /\ Len(t) = n - 1 /\ Head(s) \in NetEvent /\ Head(s) = s[1]
        /\ \A i \in 1 .. n - 1 : t[i] = s[i + 1]
    BY <1>1, HeadTailProperties
  <1> HIDE DEF t
  <1>3. Cardinality(rest) = Cardinality(Retrying(t))
    <2> DEFINE shift == [i \in Retrying(t) |-> i + 1]
    <2>1. \A i \in Retrying(t) : shift[i] \in rest
      BY <1>1, <1>2 DEF Retrying
    <2>2. \A i, j \in Retrying(t) : shift[i] = shift[j] => i = j
      BY <1>1, <1>2 DEF Retrying
    <2>3. \A j \in rest : \E i \in Retrying(t) : shift[i] = j
      <3> SUFFICES ASSUME NEW j \in rest PROVE \E i \in Retrying(t) : shift[i] = j
        OBVIOUS
      <3>1. j \in 2 .. n /\ Reconnects(s[j])
        BY <1>1 DEF Retrying
      <3>2. j - 1 \in 1 .. n - 1 /\ (j - 1) + 1 = j
        BY <1>1, <3>1
      <3>3. j - 1 \in Retrying(t)
        BY <1>2, <3>1, <3>2 DEF Retrying
      <3> QED
        BY <3>2, <3>3
    <2>4. shift \in Bijection(Retrying(t), rest)
      BY <2>1, <2>2, <2>3, Fun_IsBij
    <2>5. ExistsBijection(Retrying(t), rest)
      BY <2>4 DEF ExistsBijection
    <2> QED
      BY <1>2, <2>5, RetryingFinite, FS_Bijection
  <1>4. IsFiniteSet(Retrying(s)) /\ Cardinality(Retrying(s)) \in Nat
    BY RetryingFinite
  <1>5. 1 \in Retrying(s) <=> Reconnects(Head(s))
    BY <1>1, <1>2 DEF Retrying
  <1>6. Cardinality(rest) = IF 1 \in Retrying(s) THEN Cardinality(Retrying(s)) - 1
                            ELSE Cardinality(Retrying(s))
    BY <1>4, FS_RemoveElement
  <1>7. Cardinality(Retrying(t)) \in Nat
    BY <1>2, RetryingFinite
  <1>8. CASE Reconnects(Head(s))
    <2>1. Cardinality(Retrying(t)) = Cardinality(Retrying(s)) - 1
      BY <1>3, <1>5, <1>6, <1>8
    <2> QED
      BY <1>1, <1>2, <1>4, <1>7, <1>8, <2>1 DEF Weight, t
  <1>9. CASE ~Reconnects(Head(s))
    <2>1. Cardinality(Retrying(t)) = Cardinality(Retrying(s))
      BY <1>3, <1>5, <1>6, <1>9
    <2> QED
      BY <1>1, <1>2, <1>4, <1>7, <1>9, <2>1 DEF Weight, t
  <1> QED
    BY <1>8, <1>9

-----------------------------------------------------------------------------
(* The calls of the WiFi library keep the radio sound, and post few events. *)

Keeps(w, v, k) == Sound(v) /\ Weight(v.pend) <= Weight(w.pend) + k

LEMMA SoundFields ==
  ASSUME NEW w, Sound(w)
  PROVE  /\ w = [sta |-> w.sta, ap |-> w.ap, link |-> w.link, status |-> w.status, pend |-> w.pend]
         /\ w.sta \in BOOLEAN /\ w.ap \in BOOLEAN /\ w.status \in WlStatus
         /\ w.link \in {"off", "idle", "trying", "joined", "up"}
         /\ w.pend \in Seq(NetEvent) /\ Weight(w.pend) \in Nat
         /\ w.sta <=> w.link # "off"
  BY WeightBounds DEF Sound, Radio

LEMMA PostedKeeps ==
  ASSUME NEW w, Sound(w), NEW e \in NetEvent, NEW sta \in BOOLEAN,
         NEW link \in {"off", "idle", "trying", "joined", "up"}, sta <=> link # "off"
  PROVE  Keeps(w, Posted(e, [w EXCEPT !.sta = sta, !.link = link]), IF Reconnects(e) THEN 3 ELSE 1)
  <1> DEFINE x == [w EXCEPT !.sta = sta, !.link = link]
             v == Posted(e, x)
  <1>1. v = [sta |-> sta, ap |-> w.ap, link |-> link, status |-> w.status, pend |-> Append(w.pend, e)]
    <2>1. x = [sta |-> sta, ap |-> w.ap, link |-> link, status |-> w.status, pend |-> w.pend]
      <3> DEFINE y == [w EXCEPT !.sta = sta]
      <3>1. y = [sta |-> sta, ap |-> w.ap, link |-> w.link, status |-> w.status, pend |-> w.pend]
        BY DEF Sound, Radio
      <3>2. x = [y EXCEPT !.link = link]
        BY DEF Sound, Radio
      <3> HIDE DEF x, y
      <3> QED
        BY <3>1, <3>2
    <2> HIDE DEF x
    <2>2. v = [x EXCEPT !.pend = Append(x.pend, e)]
      BY DEF Posted
    <2> QED
      BY <2>1, <2>2
  <1>2. /\ Append(w.pend, e) \in Seq(NetEvent)
        /\ Weight(Append(w.pend, e)) = Weight(w.pend) + (IF Reconnects(e) THEN 3 ELSE 1)
    BY SoundFields, WeightAppend
  <1>3. Weight(w.pend) \in Nat
    BY SoundFields
  <1> DEFINE p == Append(w.pend, e)
  <1>4. /\ p \in Seq(NetEvent) /\ Weight(p) <= Weight(w.pend) + (IF Reconnects(e) THEN 3 ELSE 1)
    BY <1>2, <1>3
  <1>5. v = [sta |-> sta, ap |-> w.ap, link |-> link, status |-> w.status, pend |-> p]
    BY <1>1
  <1> HIDE DEF v, p
  <1>6. v \in Radio
    BY <1>4, <1>5, SoundFields DEF Radio
  <1>7. v.sta <=> v.link # "off"
    BY <1>5
  <1>8. v.pend = p
    BY <1>5
  <1>9. Keeps(w, v, IF Reconnects(e) THEN 3 ELSE 1)
    BY <1>4, <1>6, <1>7, <1>8 DEF Keeps, Sound
  <1> QED
    BY <1>9 DEF v

LEMMA LinkKeeps ==
  ASSUME NEW w, Sound(w), w.link # "off", NEW link \in {"idle", "trying", "joined", "up"}
  PROVE  Keeps(w, [w EXCEPT !.link = link], 0)
  <1> DEFINE v == [w EXCEPT !.link = link]
  <1>1. v = [sta |-> w.sta, ap |-> w.ap, link |-> link, status |-> w.status, pend |-> w.pend]
    BY SoundFields
  <1> HIDE DEF v
  <1>2. v \in Radio /\ v.sta = w.sta /\ v.link = link /\ v.pend = w.pend
    BY <1>1, SoundFields DEF Radio
  <1>3. Sound(v) /\ Weight(v.pend) <= Weight(w.pend) + 0
    BY <1>2, SoundFields DEF Sound
  <1> QED
    BY <1>3 DEF v, Keeps

LEMMA Kept ==
  ASSUME NEW w, Sound(w)
  PROVE  Keeps(w, w, 0)
  BY SoundFields DEF Keeps

LEMMA KeepsOn ==
  ASSUME NEW w, NEW v, NEW u, Sound(w), NEW j \in Nat, NEW k \in Nat, Keeps(w, v, j), Keeps(v, u, k)
  PROVE  Keeps(w, u, j + k)
  BY SoundFields DEF Keeps

LEMMA KeepsMore ==
  ASSUME NEW w, NEW v, Sound(w), NEW j \in Nat, NEW k \in Nat, j <= k, Keeps(w, v, j)
  PROVE  Keeps(w, v, k)
  BY SoundFields DEF Keeps

LEMMA enableSTAKeeps ==
  ASSUME NEW w, Sound(w)
  PROVE  /\ Keeps(w, enableSTA(TRUE, w), 1) /\ enableSTA(TRUE, w).link # "off"
         /\ Keeps(w, enableSTA(FALSE, w), 1)
  <1>1. Keeps(w, Posted("STA_START", [w EXCEPT !.sta = TRUE, !.link = "idle"]), 1)
    <2>1. ~Reconnects("STA_START") /\ "STA_START" \in NetEvent
      BY DEF Reconnects, NetEvent
    <2>2. Keeps(w, Posted("STA_START", [w EXCEPT !.sta = TRUE, !.link = "idle"]),
                IF Reconnects("STA_START") THEN 3 ELSE 1)
      BY <2>1, PostedKeeps
    <2> QED
      BY <2>1, <2>2
  <1>2. Keeps(w, Posted("STA_STOP", [w EXCEPT !.sta = FALSE, !.link = "off"]), 1)
    <2>1. ~Reconnects("STA_STOP") /\ "STA_STOP" \in NetEvent
      BY DEF Reconnects, NetEvent
    <2>2. Keeps(w, Posted("STA_STOP", [w EXCEPT !.sta = FALSE, !.link = "off"]),
                IF Reconnects("STA_STOP") THEN 3 ELSE 1)
      BY <2>1, PostedKeeps
    <2> QED
      BY <2>1, <2>2
  <1>3. Keeps(w, w, 1)
    BY Kept, KeepsMore
  <1>4. CASE w.sta = TRUE
    <2>1. enableSTA(TRUE, w) = w /\ w.link # "off"
      BY <1>4, SoundFields DEF enableSTA
    <2>2. enableSTA(FALSE, w) = Posted("STA_STOP", [w EXCEPT !.sta = FALSE, !.link = "off"])
      BY <1>4 DEF enableSTA
    <2> QED
      BY <1>2, <1>3, <2>1, <2>2
  <1>5. CASE w.sta = FALSE
    <2>1. enableSTA(FALSE, w) = w
      BY <1>5 DEF enableSTA
    <2>2. enableSTA(TRUE, w) = Posted("STA_START", [w EXCEPT !.sta = TRUE, !.link = "idle"])
      BY <1>5 DEF enableSTA
    <2>3. Posted("STA_START", [w EXCEPT !.sta = TRUE, !.link = "idle"]).link = "idle"
      BY SoundFields DEF Posted
    <2> QED
      BY <1>1, <1>3, <2>1, <2>2, <2>3
  <1> QED
    BY <1>4, <1>5, SoundFields

LEMMA esp_wifi_disconnectKeeps ==
  ASSUME NEW w, Sound(w)
  PROVE  Keeps(w, esp_wifi_disconnect(w), 1) /\ (w.link # "off" => esp_wifi_disconnect(w).link # "off")
  <1>1. CASE w.link \in {"off", "idle"}
    <2>1. esp_wifi_disconnect(w) = w
      BY <1>1 DEF esp_wifi_disconnect
    <2>2. Keeps(w, w, 1)
      BY Kept, KeepsMore
    <2> QED
      BY <2>1, <2>2
  <1>2. CASE w.link \notin {"off", "idle"}
    <2> DEFINE v == [w EXCEPT !.link = "idle"]
    <2>1. esp_wifi_disconnect(w) = Posted("ASSOC_LEAVE", v)
      BY <1>2 DEF esp_wifi_disconnect
    <2>2. Keeps(w, v, 0)
      BY <1>2, LinkKeeps
    <2>3. v.link = "idle" /\ v.pend = w.pend /\ Sound(v)
      BY <2>2, SoundFields DEF Keeps
    <2> HIDE DEF v
    <2>4. Posted("ASSOC_LEAVE", v) = Posted("ASSOC_LEAVE", [v EXCEPT !.sta = v.sta, !.link = "idle"])
      <3>1. v = [v EXCEPT !.sta = v.sta]
        BY <2>3 DEF Sound, Radio
      <3>2. v = [v EXCEPT !.link = "idle"]
        BY <2>3 DEF Sound, Radio
      <3>3. [v EXCEPT !.sta = v.sta, !.link = "idle"] = [[v EXCEPT !.sta = v.sta] EXCEPT !.link = "idle"]
        BY <2>3 DEF Sound, Radio
      <3> QED
        BY <3>1, <3>2, <3>3
    <2>5. v.sta \in BOOLEAN /\ (v.sta <=> "idle" # "off")
      BY <2>3, SoundFields
    <2>6. ~Reconnects("ASSOC_LEAVE") /\ "ASSOC_LEAVE" \in NetEvent
      BY DEF Reconnects, NetEvent, Reason
    <2>7. Keeps(v, Posted("ASSOC_LEAVE", v), 1)
      BY <2>3, <2>4, <2>5, <2>6, PostedKeeps
    <2>8. Keeps(w, Posted("ASSOC_LEAVE", v), 1)
      BY <2>2, <2>3, <2>7, SoundFields DEF Keeps
    <2>9. Posted("ASSOC_LEAVE", v).link # "off"
      BY <2>3, SoundFields DEF Posted
    <2> QED
      BY <2>1, <2>8, <2>9
  <1> QED
    BY <1>1, <1>2

LEMMA esp_wifi_connectKeeps ==
  ASSUME NEW w, Sound(w)
  PROVE  Keeps(w, esp_wifi_connect(w), 0)
  <1>1. CASE w.link = "idle"
    BY <1>1, LinkKeeps DEF esp_wifi_connect
  <1>2. CASE w.link # "idle"
    BY <1>2, Kept DEF esp_wifi_connect
  <1> QED
    BY <1>1, <1>2

LEMMA disconnectKeeps ==
  ASSUME NEW w, Sound(w)
  PROVE  Keeps(w, disconnect(w), 2)
  <1> DEFINE v == esp_wifi_disconnect(w)
             x == enableSTA(FALSE, v)
  <1>1. CASE w.sta
    <2>1. disconnect(w) = x
      BY <1>1 DEF disconnect
    <2>2. Keeps(w, v, 1) /\ Sound(v)
      BY esp_wifi_disconnectKeeps DEF Keeps
    <2> HIDE DEF v
    <2>3. Keeps(v, x, 1)
      BY <2>2, enableSTAKeeps
    <2> HIDE DEF x
    <2>4. Sound(x) /\ Weight(x.pend) <= Weight(v.pend) + 1 /\ Weight(v.pend) <= Weight(w.pend) + 1
      BY <2>2, <2>3 DEF Keeps
    <2>5. Weight(x.pend) \in Nat /\ Weight(v.pend) \in Nat /\ Weight(w.pend) \in Nat
      BY <2>2, <2>4, SoundFields
    <2>6. Keeps(w, x, 2)
      BY <2>4, <2>5 DEF Keeps
    <2> QED
      BY <2>1, <2>6
  <1>2. CASE ~w.sta
    BY <1>2, SoundFields DEF disconnect, Keeps
  <1> QED
    BY <1>1, <1>2

LEMMA beginKeeps ==
  ASSUME NEW w, Sound(w)
  PROVE  Keeps(w, begin(w), 1)
  <1> DEFINE s == enableSTA(TRUE, w)
  <1>1. Keeps(w, s, 1) /\ Sound(s)
    BY enableSTAKeeps DEF Keeps
  <1>2. begin(w) = IF s.status = "WL_CONNECTED" THEN s ELSE esp_wifi_connect(s)
    BY DEF begin
  <1> HIDE DEF s
  <1>3. Keeps(s, esp_wifi_connect(s), 0)
    BY <1>1, esp_wifi_connectKeeps
  <1>4. CASE s.status = "WL_CONNECTED"
    BY <1>1, <1>2, <1>4
  <1>5. CASE s.status # "WL_CONNECTED"
    BY <1>1, <1>2, <1>3, <1>5, SoundFields DEF Keeps
  <1> QED
    BY <1>4, <1>5

LEMMA beginWithKeeps ==
  ASSUME NEW w, Sound(w), NEW same
  PROVE  Keeps(w, beginWith(same, w), 2)
  <1> DEFINE s == enableSTA(TRUE, w)
             d == esp_wifi_disconnect(s)
  <1>1. Keeps(w, s, 1) /\ Sound(s)
    BY enableSTAKeeps DEF Keeps
  <1>2. Keeps(s, d, 1) /\ Sound(d)
    BY <1>1, esp_wifi_disconnectKeeps DEF Keeps
  <1>3. beginWith(same, w) \in {s, esp_wifi_connect(s), esp_wifi_connect(d)}
    BY DEF beginWith
  <1> HIDE DEF s, d
  <1>4. Keeps(s, esp_wifi_connect(s), 0) /\ Keeps(d, esp_wifi_connect(d), 0)
    BY <1>1, <1>2, esp_wifi_connectKeeps
  <1>5. Keeps(w, s, 2)
    BY <1>1, SoundFields DEF Keeps
  <1>6. Keeps(w, esp_wifi_connect(s), 2)
    BY <1>1, <1>4, SoundFields DEF Keeps
  <1>7. Keeps(w, esp_wifi_connect(d), 2)
    BY <1>1, <1>2, <1>4, SoundFields DEF Keeps
  <1> QED
    BY <1>3, <1>5, <1>6, <1>7

LEMMA softAPKeeps ==
  ASSUME NEW w, Sound(w)
  PROVE  Keeps(w, softAP(w), 0) /\ Keeps(w, softAPdisconnect(w), 0)
  <1> SUFFICES ASSUME NEW on \in BOOLEAN PROVE Keeps(w, [w EXCEPT !.ap = on], 0)
    BY DEF softAP, softAPdisconnect, enableAP
  <1> DEFINE v == [w EXCEPT !.ap = on]
  <1>1. v = [sta |-> w.sta, ap |-> on, link |-> w.link, status |-> w.status, pend |-> w.pend]
    BY DEF Sound, Radio
  <1> HIDE DEF v
  <1>2. v \in Radio /\ v.sta = w.sta /\ v.link = w.link /\ v.pend = w.pend
    BY <1>1, SoundFields DEF Radio
  <1>3. Keeps(w, v, 0)
    BY <1>2, SoundFields DEF Keeps, Sound
  <1> QED
    BY <1>3 DEF v

(* The network_event task takes as much from the load of the driver's events as it may
   put there: 3 for an event on which it reconnects, 1 for any other. *)
LEMMA DeliveredKeeps ==
  ASSUME NEW w, Sound(w), w.pend # <<>>
  PROVE  Keeps(w, Delivered(w), -1)
  <1> DEFINE e == Head(w.pend)
             s == [w EXCEPT !.status = StatusAfter(e, @), !.pend = Tail(@)]
             p == Tail(w.pend)
             x == StatusAfter(e, w.status)
  <1>1. Delivered(w) = IF Reconnects(e) THEN disconnect(s) ELSE s
    BY DEF Delivered
  <1>2. /\ p \in Seq(NetEvent) /\ e \in NetEvent
        /\ Weight(p) = Weight(w.pend) - (IF Reconnects(e) THEN 3 ELSE 1)
    BY SoundFields, WeightTail
  <1>3. x \in WlStatus
    BY <1>2, SoundFields DEF StatusAfter, NetEvent, Reason, WlStatus
  <1>4. s = [sta |-> w.sta, ap |-> w.ap, link |-> w.link, status |-> x, pend |-> p]
    <2> DEFINE y == [w EXCEPT !.status = x]
    <2>1. y = [sta |-> w.sta, ap |-> w.ap, link |-> w.link, status |-> x, pend |-> w.pend]
      BY DEF Sound, Radio
    <2>2. s = [y EXCEPT !.pend = p]
      BY DEF Sound, Radio
    <2> HIDE DEF s, y, x, p
    <2> QED
      BY <2>1, <2>2
  <1> HIDE DEF s, x, p, e
  <1>5. s \in Radio /\ s.sta = w.sta /\ s.link = w.link /\ s.pend = p
    BY <1>2, <1>3, <1>4, SoundFields DEF Radio
  <1>6. Sound(s)
    BY <1>5, SoundFields DEF Sound
  <1>7. Weight(w.pend) \in Nat /\ Weight(p) \in Nat
    BY <1>2, SoundFields, WeightBounds
  <1>8. CASE Reconnects(e)
    <2> DEFINE d == disconnect(s)
    <2>1. Keeps(s, d, 2)
      BY <1>6, disconnectKeeps
    <2>2. Delivered(w) = d
      BY <1>1, <1>8
    <2> HIDE DEF d
    <2>3. Sound(d) /\ Weight(d.pend) <= Weight(p) + 2
      BY <1>5, <2>1 DEF Keeps
    <2>4. Weight(p) = Weight(w.pend) - 3
      BY <1>2, <1>8
    <2>5. Weight(d.pend) \in Nat
      BY <2>3, SoundFields
    <2> QED
      BY <1>7, <2>2, <2>3, <2>4, <2>5 DEF Keeps
  <1>9. CASE ~Reconnects(e)
    <2>1. Weight(p) = Weight(w.pend) - 1 /\ Delivered(w) = s
      BY <1>1, <1>2, <1>9
    <2> QED
      BY <1>5, <1>6, <1>7, <2>1 DEF Keeps
  <1> QED
    BY <1>8, <1>9

LEMMA ReportedKeeps ==
  ASSUME NEW w, Sound(w), w.link \in DOMAIN Reports, NEW e \in Reports[w.link]
  PROVE  Keeps(w, Reported(e, w), 3)
  <1>1. w.link \in {"trying", "joined", "up"}
    BY DEF Reports
  <1>2. e \in NetEvent
    BY <1>1 DEF Reports, NetEvent, Reason
  <1>3. LinkAfter(e) \in {"idle", "joined", "up"}
    BY DEF LinkAfter
  <1> DEFINE l == LinkAfter(e)
             v == [w EXCEPT !.link = l]
             x == [w EXCEPT !.sta = w.sta, !.link = l]
  <1>4. v = x
    <2>1. w = [w EXCEPT !.sta = w.sta]
      BY DEF Sound, Radio
    <2>2. x = [[w EXCEPT !.sta = w.sta] EXCEPT !.link = l]
      BY DEF Sound, Radio
    <2> QED
      BY <2>1, <2>2
  <1>5. Reported(e, w) = Posted(e, x)
    BY <1>4 DEF Reported
  <1>6. w.sta \in BOOLEAN /\ (w.sta <=> l # "off")
    BY <1>1, <1>3, SoundFields
  <1>7. Keeps(w, Posted(e, x), IF Reconnects(e) THEN 3 ELSE 1)
    BY <1>2, <1>3, <1>6, PostedKeeps
  <1> HIDE DEF x
  <1>8. Weight(w.pend) \in Nat /\ Sound(Posted(e, x)) /\ Weight(Posted(e, x).pend) \in Nat
    BY <1>7, SoundFields DEF Keeps
  <1>9. Keeps(w, Posted(e, x), 3)
    BY <1>7, <1>8 DEF Keeps
  <1> QED
    BY <1>5, <1>9

-----------------------------------------------------------------------------
(* The radio and the driver's events, under every step. *)

LEMMA RadioInit == Init => RadioInv
  <1> SUFFICES ASSUME Init PROVE RadioInv
    OBVIOUS
  <1>1. RadioOff \in Radio /\ RadioOff.pend = <<>> /\ RadioOff.sta = FALSE /\ RadioOff.link = "off"
    BY EmptySeq DEF RadioOff, Radio, WlStatus
  <1>2. Sound(RadioOff)
    BY <1>1 DEF Sound
  <1> DEFINE on == enableSTA(TRUE, RadioOff)
  <1>3. Keeps(RadioOff, on, 1) /\ Keeps(RadioOff, RadioOff, 0)
    BY <1>2, enableSTAKeeps, Kept
  <1>4. radio = RadioOff \/ radio = on
    BY DEF Init
  <1> HIDE DEF on
  <1>5. Sound(radio) /\ Weight(radio.pend) <= 0 + 1 /\ Weight(radio.pend) \in Nat
    <2>1. Sound(radio) /\ (Weight(radio.pend) <= 0 + 1 \/ Weight(radio.pend) <= 0 + 0)
      BY <1>1, <1>3, <1>4, WeightEmpty DEF Keeps
    <2>2. Weight(radio.pend) \in Nat
      BY <2>1, SoundFields
    <2> QED
      BY <2>1, <2>2
  <1>6. etask = "idle"
    BY DEF Init
  <1> QED
    BY <1>5, <1>6, ControllerAssumption DEF RadioInv

(* A step of the loop that posts, posts at most three events, into a queue with room. *)
LEMMA RadioMoves ==
  ASSUME RadioInv, NEW k \in 0 .. 3, Keeps(radio, radio', k), k = 0 \/ Room, etask' = etask
  PROVE  RadioInv'
  <1> DEFINE m == Weight(radio.pend)
             n == Weight(radio'.pend)
  <1>1. Sound(radio) /\ Sound(radio') /\ m \in Nat /\ n \in Nat /\ n <= m + k
    BY SoundFields DEF RadioInv, Keeps
  <1>2. m <= 3 * MaxNetEvents + (IF etask = "begin" THEN 0 ELSE 1)
    BY DEF RadioInv
  <1>3. Room => m <= 3 * (MaxNetEvents - 1)
    <2> SUFFICES ASSUME Room PROVE m <= 3 * (MaxNetEvents - 1)
      OBVIOUS
    <2>1. Len(radio.pend) \in Nat /\ m <= 3 * Len(radio.pend)
      BY <1>1, SoundFields, WeightBounds
    <2>2. Len(radio.pend) <= MaxNetEvents - 1
      BY <2>1, ControllerAssumption DEF Room
    <2> HIDE DEF m
    <2> QED
      BY <1>1, <2>1, <2>2, ControllerAssumption
  <1> HIDE DEF m, n
  <1>4. n <= 3 * MaxNetEvents + (IF etask = "begin" THEN 0 ELSE 1)
    <2>1. CASE k = 0
      BY <1>1, <1>2, <2>1, ControllerAssumption
    <2>2. CASE Room
      <3>1. n <= 3 * MaxNetEvents
        BY <1>1, <1>3, <2>2, ControllerAssumption
      <3> QED
        BY <1>1, <3>1, ControllerAssumption
    <2> QED
      BY <2>1, <2>2
  <1> QED
    BY <1>1, <1>4 DEF RadioInv, n

LEMMA RadioStep ==
  ASSUME RadioInv, [Next]_vars
  PROVE  RadioInv'
  <1>1. Sound(radio)
    BY DEF RadioInv
  <1>2. CASE UNCHANGED <<radio, etask>>
    BY <1>2 DEF RadioInv
  <1>3. CASE radio' = softAP(radio) /\ etask' = etask
    BY <1>1, <1>3, softAPKeeps, RadioMoves
  <1>4. CASE Connecting /\ etask' = etask
    <2>1. PICK same \in BOOLEAN : radio' = beginWith(same, softAPdisconnect(radio))
      BY <1>4 DEF Connecting
    <2> DEFINE w == softAPdisconnect(radio)
    <2>2. Keeps(radio, w, 0) /\ Sound(w)
      BY <1>1, softAPKeeps DEF Keeps
    <2> HIDE DEF w
    <2>3. Keeps(w, radio', 2)
      BY <2>1, <2>2, beginWithKeeps DEF w
    <2>4. Keeps(radio, radio', 2)
      BY <1>1, <2>2, <2>3, SoundFields DEF Keeps
    <2> QED
      BY <1>4, <2>4, RadioMoves DEF Connecting
  <1>5. CASE evtGetApList \/ evtApDisconnect \/ evtWifiStatus
    <2>1. Room /\ etask' = etask /\ radio' \in {enableSTA(TRUE, radio), disconnect(radio)}
      BY <1>5 DEF evtGetApList, evtApDisconnect, evtWifiStatus, Main
    <2>2. Keeps(radio, radio', 1) \/ Keeps(radio, radio', 2)
      BY <1>1, <2>1, enableSTAKeeps, disconnectKeeps
    <2> QED
      BY <2>1, <2>2, RadioMoves
  <1>6. CASE NetworkEvent
    <2>1. Keeps(radio, radio', -1)
      BY <1>1, <1>6, DeliveredKeeps DEF NetworkEvent
    <2>2. /\ Sound(radio') /\ Weight(radio'.pend) <= Weight(radio.pend) - 1
          /\ Weight(radio.pend) \in Nat /\ Weight(radio'.pend) \in Nat
      BY <1>1, <2>1, SoundFields DEF Keeps
    <2>3. Weight(radio.pend) <= 3 * MaxNetEvents + 1
      BY <1>6 DEF RadioInv, NetworkEvent
    <2>4. Weight(radio'.pend) <= 3 * MaxNetEvents
      BY <2>2, <2>3, ControllerAssumption
    <2>5. etask' \in {"begin", "idle"}
      BY <1>6 DEF NetworkEvent
    <2> QED
      BY <2>2, <2>4, <2>5, ControllerAssumption DEF RadioInv
  <1>7. CASE Reconnect
    <2>1. Keeps(radio, radio', 1)
      BY <1>1, <1>7, beginKeeps DEF Reconnect
    <2>2. /\ Sound(radio') /\ Weight(radio'.pend) <= Weight(radio.pend) + 1
          /\ Weight(radio.pend) \in Nat /\ Weight(radio'.pend) \in Nat
      BY <1>1, <2>1, SoundFields DEF Keeps
    <2>3. Weight(radio.pend) <= 3 * MaxNetEvents + 0
      BY <1>7 DEF RadioInv, Reconnect
    <2>4. Weight(radio'.pend) <= 3 * MaxNetEvents + 1
      BY <2>2, <2>3, ControllerAssumption
    <2>5. etask' = "idle"
      BY <1>7 DEF Reconnect
    <2> QED
      BY <2>2, <2>4, <2>5 DEF RadioInv
  <1>8. CASE Driver
    <2>1. Room /\ etask' = etask /\ Keeps(radio, radio', 3)
      BY <1>1, <1>8, ReportedKeeps DEF Driver
    <2> QED
      BY <2>1, RadioMoves
  <1>9. CASE Loop
    <2>1. CASE Events
      BY <1>2, <1>3, <1>4, <1>5, <2>1
         DEF Events, EventsDone, PlainEvent, evtDeviceMonitorStatus, evtApConnect, ApDisconnected,
             WifiStatusKept, FallBack, AlreadyInAp, Main
    <2> QED
      BY <1>2, <1>3, <1>4, <1>9, <2>1
         DEF Loop, SetupAp, SetupConnect, JoinPoll, Joined, JoinFailed, timerFwProcess, Receive, Main
  <1> QED
    BY <1>2, <1>6, <1>7, <1>8, <1>9 DEF Next, NetworkTask, vars

-----------------------------------------------------------------------------
(* Types. *)

LoopTypes ==
  /\ pc \in {"setup", "timers", "events", "join", "check", "forget", "receive"}
  /\ queue \in Seq(Event) /\ Len(queue) <= QueueSize
  /\ polls \in 0 .. MaxPolls
  /\ booting \in BOOLEAN
  /\ refused \in BOOLEAN

LEMMA QueuedTypes ==
  ASSUME NEW q \in Seq(Event), NEW r \in Seq(Event), eventGenerate(q, r), refused \in BOOLEAN
  PROVE  queue' \in Seq(Event) /\ Len(queue') <= QueueSize /\ refused' \in BOOLEAN
  <1> DEFINE s == q \o r
             n == IF Len(s) < QueueSize THEN Len(s) ELSE QueueSize
  <1>1. s \in Seq(Event) /\ Len(s) \in Nat
    BY ConcatProperties, LenProperties
  <1>2. queue' = SubSeq(s, 1, n) /\ refused' \in BOOLEAN
    BY DEF eventGenerate, Queued
  <1> HIDE DEF s
  <1>3. n \in Nat /\ n <= Len(s) /\ n <= QueueSize
    BY <1>1, ControllerAssumption
  <1>4. \A i \in 1 .. n : s[i] \in Event
    BY <1>1, <1>3, ElementOfSeq
  <1> HIDE DEF n
  <1>5. SubSeq(s, 1, n) \in Seq(Event) /\ Len(SubSeq(s, 1, n)) = IF 1 <= n THEN n - 1 + 1 ELSE 0
    BY <1>3, <1>4, SubSeqProperties
  <1>6. Len(SubSeq(s, 1, n)) = n
    BY <1>3, <1>5
  <1> QED
    BY <1>2, <1>3, <1>5, <1>6

LEMMA LoopTypesInit == Init => LoopTypes
  <1>1. <<>> \in Seq(Event) /\ Len(<<>>) = 0
    BY EmptySeq
  <1>2. 0 \in 0 .. MaxPolls /\ 0 <= QueueSize
    BY ControllerAssumption
  <1> QED
    BY <1>1, <1>2 DEF Init, LoopTypes

LEMMA LoopTypesStep ==
  ASSUME LoopTypes, [Next]_vars
  PROVE  LoopTypes'
  <1>1. polls \in 0 .. MaxPolls /\ MaxPolls \in Nat /\ queue \in Seq(Event) /\ refused \in BOOLEAN
    BY ControllerAssumption DEF LoopTypes
  <1>2. queue # <<>> => Tail(queue) \in Seq(Event) /\ Len(Tail(queue)) <= QueueSize
    <2>1. queue # <<>> => Tail(queue) \in Seq(Event) /\ Len(Tail(queue)) = Len(queue) - 1 /\ Len(queue) \in Nat
      BY <1>1, TailElements
    <2> QED
      BY <2>1, ControllerAssumption DEF LoopTypes
  <1>3. ASSUME NEW q \in Seq(Event), NEW r \in Seq(Event), eventGenerate(q, r)
        PROVE  queue' \in Seq(Event) /\ Len(queue') <= QueueSize /\ refused' \in BOOLEAN
    BY <1>1, <1>3, QueuedTypes
  <1>4. CASE SetupAp
    <2>1. eventGenerate(queue, InitServers \o Registration)
      BY <1>4 DEF SetupAp
    <2>2. InitServers \o Registration \in Seq(Event)
      BY HandlerEvents DEF Plain
    <2> QED
      BY <1>1, <1>3, <1>4, <2>1, <2>2 DEF SetupAp, Main, LoopTypes
  <1>5. CASE SetupConnect
    BY <1>1, <1>5 DEF SetupConnect, Connecting, Main, LoopTypes
  <1>6. CASE JoinPoll
    <2>1. polls + 1 \in 0 .. MaxPolls
      BY <1>1, <1>6 DEF JoinPoll, GivesUp
    <2> QED
      BY <1>1, <1>6, <2>1 DEF JoinPoll, Main, LoopTypes
  <1>7. CASE Joined
    <2>1. eventGenerate(queue, InitServers \o Registration \o AtEndOfSetup)
      BY <1>7 DEF Joined
    <2>2. InitServers \o Registration \o AtEndOfSetup \in Seq(Event)
      BY HandlerEvents DEF Plain
    <2>3. queue' \in Seq(Event) /\ Len(queue') <= QueueSize /\ refused' \in BOOLEAN
      BY <1>1, <1>3, <2>1, <2>2
    <2>4. pc' \in {"timers", "events"} /\ booting' = FALSE /\ polls' \in 0 .. MaxPolls
      BY <1>1, <1>7 DEF Joined, AfterJoin, Main
    <2> QED
      BY <1>1, <2>3, <2>4 DEF LoopTypes
  <1>8. CASE JoinFailed
    <2>1. eventGenerate(queue, InitServers \o AtEndOfSetup)
      BY <1>8 DEF JoinFailed
    <2>2. InitServers \o AtEndOfSetup \in Seq(Event)
      BY HandlerEvents DEF Plain
    <2>3. queue' \in Seq(Event) /\ Len(queue') <= QueueSize /\ refused' \in BOOLEAN
      BY <1>1, <1>3, <2>1, <2>2
    <2>4. pc' \in {"timers", "events"} /\ booting' = FALSE /\ polls' \in 0 .. MaxPolls
      BY <1>1, <1>8 DEF JoinFailed, AfterJoin, Main
    <2> QED
      BY <1>1, <2>3, <2>4 DEF LoopTypes
  <1>9. ASSUME NEW expired, timerFwProcess(expired) PROVE LoopTypes'
    <2>1. eventGenerate(queue, Callbacks(expired)) /\ Callbacks(expired) \in Seq(Event)
      BY <1>9, TimerEventsFit DEF timerFwProcess
    <2>2. queue' \in Seq(Event) /\ Len(queue') <= QueueSize /\ refused' \in BOOLEAN
      BY <1>1, <1>3, <2>1
    <2> QED
      BY <1>9, <2>2 DEF timerFwProcess, Main, LoopTypes
  <1>10. ASSUME NEW packet \in {<<>>, <<"EVT_PAR_UDP_MSG">>}, NEW message \in Message \cup {<<>>},
                Receive(packet, message)
         PROVE  LoopTypes'
    <2>1. message \in CommandEvents
      BY ControllerAssumption DEF CommandEvents
    <2>2. eventGenerate(queue, packet \o message) /\ packet \o message \in Seq(Event)
      BY <1>10, <2>1, ReceivedFits DEF Receive
    <2>3. queue' \in Seq(Event) /\ Len(queue') <= QueueSize /\ refused' \in BOOLEAN
      BY <1>1, <1>3, <2>2
    <2> QED
      BY <1>10, <2>3 DEF Receive, Main, LoopTypes
  <1>11. CASE EventsDone \/ AlreadyInAp
    BY <1>11 DEF EventsDone, AlreadyInAp, Main, LoopTypes
  <1>12. CASE PlainEvent \/ evtGetApList \/ evtApConnect \/ evtApDisconnect \/ WifiStatusKept \/ evtWifiStatus
    <2>1. /\ queue # <<>> /\ queue' = Tail(queue)
          /\ pc' \in {"events", "join", "forget", "check"}
          /\ polls' \in {polls, 0} /\ booting' = booting /\ refused' = refused
      BY <1>12 DEF PlainEvent, evtGetApList, evtApConnect, evtApDisconnect, WifiStatusKept,
                   evtWifiStatus, Taken, Main, Connecting
    <2> QED
      BY <1>1, <1>2, <2>1 DEF LoopTypes
  <1>13. ASSUME NEW alerts \in BOOLEAN, evtDeviceMonitorStatus(alerts) PROVE LoopTypes'
    <2> DEFINE r == IF alerts THEN <<"EVT_DEV_HANDLE_ALERT", "EVT_SEND_DEVICE_STATUS">> ELSE <<>>
    <2>1. queue # <<>> /\ eventGenerate(Tail(queue), r)
      BY <1>13 DEF evtDeviceMonitorStatus, Taken
    <2>2. r \in Seq(Event)
      BY NoEvents, TwoEvents DEF Plain, Event, Growing
    <2> HIDE DEF r
    <2>3. queue' \in Seq(Event) /\ Len(queue') <= QueueSize /\ refused' \in BOOLEAN
      BY <1>2, <1>3, <2>1, <2>2
    <2> QED
      BY <1>13, <2>3 DEF evtDeviceMonitorStatus, Main, LoopTypes
  <1>14. CASE ApDisconnected \/ FallBack
    <2>1. eventGenerate(queue, InitServers) /\ InitServers \in Seq(Event)
      BY <1>14, HandlerEvents DEF ApDisconnected, FallBack, Plain
    <2>2. queue' \in Seq(Event) /\ Len(queue') <= QueueSize /\ refused' \in BOOLEAN
      BY <1>1, <1>3, <2>1
    <2> QED
      BY <1>14, <2>2 DEF ApDisconnected, FallBack, Main, LoopTypes
  <1>15. CASE NetworkTask \/ Driver \/ UNCHANGED vars
    BY <1>15 DEF NetworkTask, NetworkEvent, Reconnect, Driver, vars, app, LoopTypes
  <1> QED
    BY <1>4, <1>5, <1>6, <1>7, <1>8, <1>9, <1>10, <1>11, <1>12, <1>13, <1>14, <1>15
       DEF Next, Loop, Events

LEMMA TypesHold ==
  ASSUME LoopTypes, RadioInv
  PROVE  TypeOK
  <1> DEFINE n == Len(radio.pend)
  <1>1. Sound(radio)
    BY DEF RadioInv
  <1>2. radio \in Radio /\ radio.sta \in BOOLEAN /\ (radio.sta <=> radio.link # "off")
    BY <1>1, SoundFields DEF Sound
  <1>3. n <= 3 * MaxNetEvents + 2
    <2>1. n \in Nat /\ n <= Weight(radio.pend) /\ Weight(radio.pend) \in Nat
      BY <1>1, SoundFields, WeightBounds
    <2>2. Weight(radio.pend) <= 3 * MaxNetEvents + 1
      BY <2>1, ControllerAssumption DEF RadioInv
    <2> QED
      BY <2>1, <2>2, ControllerAssumption
  <1> DEFINE off == radio.link # "off"
  <1>4. radio.sta = off
    <2>1. off \in BOOLEAN /\ (radio.sta <=> off)
      BY <1>2
    <2> HIDE DEF off
    <2> QED
      BY <1>2, <2>1
  <1> QED
    BY <1>2, <1>3, <1>4 DEF TypeOK, LoopTypes, RadioInv

(* Types, with the bound on the driver's queue: each event of a router that fails makes
   the library post three more at most, and none of them feeds on itself. *)
THEOREM ControllerTypes == Spec => []TypeOK
  <1>1. Init => LoopTypes /\ RadioInv
    BY LoopTypesInit, RadioInit
  <1>2. LoopTypes /\ RadioInv /\ [Next]_vars => LoopTypes' /\ RadioInv'
    BY LoopTypesStep, RadioStep
  <1>3. LoopTypes /\ RadioInv => TypeOK
    BY TypesHold
  <1> QED
    BY <1>1, <1>2, <1>3, PTL DEF Spec
=============================================================================
