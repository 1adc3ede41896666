---------------------------- MODULE LimitsProofs ----------------------------
(***************************************************************************)
(* Proofs about the two limits that are counted over windows of time: the  *)
(* quota of mails, for any number of mails, recipients and units of time   *)
(* and any allowances; and the creation of reminders, for any number of    *)
(* users and any limits, of which the lock makes the limits hold in every  *)
(* hour and every day.                                                     *)
(***************************************************************************)
EXTENDS EmailQuota, ReminderCreation, Integers, FiniteSetTheorems, TLAPS

-----------------------------------------------------------------------------
(* Places                                                                  *)

\* Every transaction takes its counters in the order of one list, a part of it
\* without gaps.
Order == <<"request-cooldown", "burst", "request-daily", "cooldown", "hourly",
           "channel-attempts", "global-attempts",
           "successful-daily", "channel-daily", "global-daily">>
Busy == {"requesting", "charging", "refunding"}
First(p) == IF p = "requesting" THEN 0 ELSE IF p = "charging" THEN 3 ELSE 7
Last(p) == IF p = "requesting" THEN 3 ELSE 10

Rules == RequestRules \cup DeliveryRules
JobType == [category : Categories, to : Recipients]

\* How many a counter lets through.
Most(k) ==
    IF k[1] \in PerRecipient THEN Allowance[ChannelOf(k[2])][k[1]]
    ELSE IF k[1] \in PerChannel THEN Allowance[k[2]][k[1]]
    ELSE Allowance["reminder"][k[1]]

\* The list names each rule once, those of requests before those of deliveries.
LEMMA OrderOfRules ==
    /\ \A i \in 1 .. 10 : /\ Order[i] \in Rules
                          /\ i > 3 => Order[i] \in DeliveryRules
                          /\ i <= 3 => Order[i] \in RequestRules
    /\ \A i, j \in 1 .. 10 : Order[i] = Order[j] => i = j
    /\ RequestRules \cap DeliveryRules = {}
    /\ \A r \in RefundRules : r \in DeliveryRules /\ \E i \in 8 .. 10 : r = Order[i]
    /\ \A i \in 8 .. 10 : Order[i] \in RefundRules
<1>1. \A i \in 1 .. 10 :
          \/ i = 1 \/ i = 2 \/ i = 3 \/ i = 4 \/ i = 5 \/ i = 6 \/ i = 7 \/ i = 8
          \/ i = 9 \/ i = 10
  OBVIOUS
<1>2. QED
  BY <1>1 DEF Order, Rules, RequestRules, DeliveryRules, RefundRules

\* A mail's counter is a key of its rule, with the rule's allowance.
LEMMA CounterIsKey ==
    ASSUME NEW m \in Mails, job[m] \in JobType, NEW r \in Rules
    PROVE  /\ Counter(r, m) \in Keys /\ Counter(r, m)[1] = r
           /\ Allowed(m, Counter(r, m)) = Most(Counter(r, m))
           /\ Most(Counter(r, m)) \in Nat \ {0}
<1>1. job[m].category \in Categories /\ job[m].to \in Recipients
  BY DEF JobType
<1>2. ChannelOf(job[m].category) \in Channels
  BY DEF ChannelOf, Channels
<1>3. r \in PerRecipient \/ r \in PerChannel \/ r \in Overall
  BY DEF Rules, RequestRules, DeliveryRules, PerRecipient, PerChannel, Overall
<1>4. PerRecipient \cap PerChannel = {} /\ PerRecipient \cap Overall = {}
      /\ PerChannel \cap Overall = {}
  BY DEF PerRecipient, PerChannel, Overall, RequestRules
<1>5. \A c \in Channels : Allowance[c][r] \in Nat \ {0}
  BY QuotaAssumption DEF Rules
<1>6. CASE r \in PerRecipient
  <2>1. Counter(r, m) = <<r, job[m].category, job[m].to>>
    BY <1>6 DEF Counter
  <2>2. QED
    BY <1>1, <1>2, <1>5, <1>6, <2>1 DEF Keys, Allowed, Most
<1>7. CASE r \in PerChannel
  <2>1. Counter(r, m) = <<r, ChannelOf(job[m].category), Everyone>>
    BY <1>4, <1>7 DEF Counter
  <2>2. QED
    BY <1>2, <1>4, <1>5, <1>7, <2>1 DEF Keys, Allowed, Most
<1>8. CASE r \in Overall
  <2>1. Counter(r, m) = <<r, "any", Everyone>>
    BY <1>4, <1>8 DEF Counter
  <2>2. "reminder" \in Channels
    BY DEF Channels
  <2>3. Allowance[ChannelOf(job[m].category)][r] = Allowance["reminder"][r]
    BY <1>2, <1>8, <2>2, QuotaAssumption DEF Overall
  <2>4. QED
    BY <1>4, <1>5, <1>8, <2>1, <2>2, <2>3 DEF Keys, Allowed, Most
<1>9. QED
  BY <1>3, <1>6, <1>7, <1>8

\* Where a transaction stands in the list.
LEMMA NextPlace ==
    ASSUME NEW m \in Mails, pc[m] \in Busy, step[m] \in Nat \ {0}
    PROVE  /\ Waiting(m) <=> First(pc[m]) + step[m] <= Last(pc[m])
           /\ Waiting(m) => NextKey(m) = Counter(Order[First(pc[m]) + step[m]], m)
           /\ Len(Charges(m)) = Last(pc[m]) - First(pc[m])
           /\ \A i \in 1 .. Len(Charges(m)) :
                  Charges(m)[i] = Counter(Order[First(pc[m]) + i], m)
<1> DEFINE order == CASE pc[m] = "requesting" -> RequestOrder
                      [] pc[m] = "charging"   -> DeliveryOrder
                      [] pc[m] = "refunding"  -> RefundOrder
                      [] OTHER -> << >>
           n == Last(pc[m]) - First(pc[m])
<1> HIDE DEF order
<1>1. n \in Nat /\ DOMAIN order = 1 .. n
      /\ \A i \in 1 .. n : order[i] = Order[First(pc[m]) + i]
  <2>1. CASE pc[m] = "requesting"
    <3>1. \A i \in 1 .. 3 : i = 1 \/ i = 2 \/ i = 3
      OBVIOUS
    <3>2. order = RequestOrder /\ n = 3 /\ First(pc[m]) = 0
      BY <2>1 DEF First, Last, order
    <3>3. DOMAIN RequestOrder = 1 .. 3 /\ \A i \in 1 .. 3 : RequestOrder[i] = Order[0 + i]
      BY <3>1 DEF RequestOrder, Order
    <3>4. QED
      BY <3>2, <3>3
  <2>2. CASE pc[m] = "charging"
    <3>1. \A i \in 1 .. 7 :
              i = 1 \/ i = 2 \/ i = 3 \/ i = 4 \/ i = 5 \/ i = 6 \/ i = 7
      OBVIOUS
    <3>2. order = DeliveryOrder /\ n = 7 /\ First(pc[m]) = 3
      BY <2>2 DEF First, Last, order
    <3>3. DOMAIN DeliveryOrder = 1 .. 7 /\ \A i \in 1 .. 7 : DeliveryOrder[i] = Order[3 + i]
      BY <3>1 DEF DeliveryOrder, Order
    <3>4. QED
      BY <3>2, <3>3
  <2>3. CASE pc[m] = "refunding"
    <3>1. \A i \in 1 .. 3 : i = 1 \/ i = 2 \/ i = 3
      OBVIOUS
    <3>2. order = RefundOrder /\ n = 3 /\ First(pc[m]) = 7
      BY <2>3 DEF First, Last, order
    <3>3. DOMAIN RefundOrder = 1 .. 3 /\ \A i \in 1 .. 3 : RefundOrder[i] = Order[7 + i]
      BY <3>1 DEF RefundOrder, Order
    <3>4. QED
      BY <3>2, <3>3
  <2>4. QED
    BY <2>1, <2>2, <2>3 DEF Busy
<1>2. Charges(m) = [i \in DOMAIN order |-> Counter(order[i], m)]
  BY DEF Charges, order
<1> HIDE DEF n
<1>3. Charges(m) = [i \in 1 .. n |-> Counter(Order[First(pc[m]) + i], m)]
  BY <1>1, <1>2
<1>4. Len(Charges(m)) = n
  BY <1>1, <1>3
<1>5. QED
  BY <1>1, <1>3, <1>4 DEF Waiting, NextKey, First, Last, n

-----------------------------------------------------------------------------
(* One counter                                                             *)

RowType == [count : Nat, last : Nat]
Units == [mail : Mails, at : Nat, over : BOOLEAN]
WriteType == [row : RowType, drawn : SUBSET Units]

\* The units a counter stands for, whether it has one of a mail, and a fresh unit.
Current(D) == {d \in D : ~d.over}
Of(m, D) == \E d \in D : d.mail = m
Unit(m, t) == [mail |-> m, at |-> t, over |-> FALSE]

\* A counter at time t stands for its units that are not over, which are not more
\* than it lets through; the others are past its window.
Good(k, row, D, t) ==
    /\ row \in RowType /\ row.last <= t
    /\ D \subseteq Units /\ IsFiniteSet(Current(D))
    /\ row.count = Cardinality(Current(D)) /\ row.count <= Most(k)
    /\ \A d \in D : /\ d.at <= t
                    /\ d.over => d.at + Window(k[1]) <= t
                    /\ ~d.over => d.at <= row.last
    /\ \A d, e \in D : d.mail = e.mail => d = e

\* Windows are numbers up to a day; those of the counters that are given back are a day.
LEMMA WindowLength ==
    /\ Day \in Nat /\ SendingTime \in Nat /\ SendingTime < Day
    /\ \A r \in Rules : Window(r) \in Nat /\ Window(r) > 0 /\ Window(r) <= Day
    /\ \A r \in RefundRules : Window(r) = Day
<1>1. /\ Cooldown \in Nat /\ Hour \in Nat /\ Day \in Nat /\ SendingTime \in Nat
      /\ Cooldown > 0 /\ Hour > 0 /\ Day > 0
      /\ Cooldown <= Hour /\ Hour <= Day /\ SendingTime < Day
  BY QuotaAssumption
<1>2. \A r \in Rules : Window(r) = Cooldown \/ Window(r) = Hour \/ Window(r) = Day
  BY DEF Window
<1>3. \A r \in RefundRules : Window(r) = Day
  BY DEF Window, RefundRules
<1>4. QED
  BY <1>1, <1>2, <1>3

\* The rule of a key.
LEMMA RuleOfKey ==
    ASSUME NEW k \in Keys
    PROVE  k[1] \in Rules
BY DEF Keys, Rules, PerRecipient, PerChannel, Overall, RequestRules, DeliveryRules

\* A missing row counts as a row of nothing.
LEMMA RowTyped ==
    /\ NoRow \in RowType /\ NoRow.count = 0 /\ NoRow.last = 0
    /\ \A k : k \notin DOMAIN rows => Row(k) = NoRow
    /\ \A k \in DOMAIN rows : Row(k) = rows[k]
BY DEF NoRow, RowType, Row

\* A counter without a row has nothing that is not over.
LEMMA NothingCurrent ==
    ASSUME NEW k, NEW D, Good(k, NoRow, D, clock)
    PROVE  Current(D) = {}
<1>1. IsFiniteSet(Current(D)) /\ Cardinality(Current(D)) = 0
  BY RowTyped DEF Good
<1>2. QED
  BY <1>1, FS_EmptySet

\* A charge that is let through leaves a good counter, with a unit of the mail, the
\* others within the window as they were.
LEMMA ChargedIsGood ==
    ASSUME clock \in Nat, NEW k \in Keys, NEW m \in Mails, Most(k) \in Nat \ {0},
           Good(k, Row(k), drawn[k], clock), ~Of(m, drawn[k]), Free(k, Most(k)),
           NEW w, w = Charged(k, m)
    PROVE  /\ Good(k, w.row, w.drawn, clock) /\ w \in WriteType
           /\ Unit(m, clock) \in w.drawn
           /\ \A n : Of(n, w.drawn) => n = m \/ Of(n, drawn[k])
           /\ \A d \in drawn[k] : clock < d.at + Window(k[1]) => d \in w.drawn
<1> DEFINE D == drawn[k]
           unit == Unit(m, clock)
           E == {[d EXCEPT !.over = TRUE] : d \in D}
<1>1. Window(k[1]) \in Nat /\ Window(k[1]) > 0
  BY RuleOfKey, WindowLength
<1>2. unit \in Units /\ unit.mail = m /\ unit.at = clock /\ ~unit.over
  BY DEF Unit, Units
<1>3. D \subseteq Units
  BY DEF Good
<1>4. CASE Quiet(k, Row(k))
  <2> DEFINE row == [count |-> 1, last |-> clock]
  <2>1. w.row = row /\ w.drawn = E \cup {unit}
    BY <1>4 DEF Charged, Unit
  <2>2. row \in RowType /\ row.count = 1 /\ row.last = clock
    BY DEF RowType
  <2>3. \A d \in D : ~d.over => d.at + Window(k[1]) <= clock
    <3>1. CASE k \notin DOMAIN rows
      <4>1. Current(D) = {}
        BY <3>1, RowTyped, NothingCurrent
      <4>2. QED
        BY <4>1 DEF Current
    <3>2. CASE k \in DOMAIN rows
      <4>1. Row(k).last + Window(k[1]) <= clock /\ Row(k).last \in Nat
        BY <1>4, <3>2 DEF Quiet, Good, RowType
      <4>2. \A d \in D : d.at \in Nat /\ (~d.over => d.at <= Row(k).last)
        BY <1>3 DEF Good, Units
      <4>3. QED
        BY <1>1, <4>1, <4>2
    <3>3. QED
      BY <3>1, <3>2
  <2>4. \A d \in D : d.at + Window(k[1]) <= clock
    BY <2>3 DEF Good
  <2>5. \A e \in E : \E d \in D : e \in Units /\ e.mail = d.mail /\ e.at = d.at /\ e.over
                                 /\ e = [d EXCEPT !.over = TRUE]
    BY <1>3 DEF Units
  <2> DEFINE N == E \cup {unit}
  <2>6. Current(N) = {unit}
    BY <1>2, <2>5 DEF Current
  <2>7. IsFiniteSet(Current(N)) /\ Cardinality(Current(N)) = 1
    <3> HIDE DEF unit, N
    <3>1. IsFiniteSet({unit}) /\ Cardinality({unit}) = 1
      BY FS_Singleton
    <3>2. QED
      BY <2>6, <3>1
  <2>8. N \subseteq Units
    BY <1>2, <2>5
  <2>9. \A d \in N : /\ d.at <= clock
                     /\ d.over => d.at + Window(k[1]) <= clock
                     /\ ~d.over => d.at <= clock
    BY <1>2, <2>4, <2>5 DEF Good
  <2>10. \A e \in E : e.mail # m
    BY <2>5 DEF Of
  <2>11. \A d, e \in N : d.mail = e.mail => d = e
    <3>1. ASSUME NEW d \in E, NEW e \in E, d.mail = e.mail PROVE d = e
      <4>1. PICK x \in D : d.mail = x.mail /\ d = [x EXCEPT !.over = TRUE]
        BY <2>5
      <4>2. PICK y \in D : e.mail = y.mail /\ e = [y EXCEPT !.over = TRUE]
        BY <2>5
      <4>3. x = y
        BY <3>1, <4>1, <4>2 DEF Good
      <4>4. QED
        BY <4>1, <4>2, <4>3
    <3>2. QED
      BY <1>2, <2>10, <3>1
  <2> HIDE DEF row, N, E
  <2>12. Good(k, row, N, clock)
    BY <2>2, <2>7, <2>8, <2>9, <2>11 DEF Good
  <2>13. N = E \cup {unit}
    BY DEF N
  <2>14. \A n : Of(n, N) => n = m \/ Of(n, D)
    BY <1>2, <2>5, <2>13 DEF Of
  <2>15. \A d \in D : ~(clock < d.at + Window(k[1]))
    BY <1>1, <1>3, <2>4 DEF Units
  <2>16. w \in WriteType
    BY <2>2, <2>8, <2>1, <2>13, <1>4 DEF Charged, WriteType, Unit, row, E
  <2>17. QED
    BY <2>1, <2>12, <2>13, <2>14, <2>15, <2>16
<1>5. CASE ~Quiet(k, Row(k))
  <2>1. Row(k) \in RowType /\ Row(k).count \in Nat /\ Row(k).count + 1 <= Most(k)
    BY <1>5 DEF Good, RowType, Free
  <2> DEFINE row == [count |-> Row(k).count + 1, last |-> clock]
             N == D \cup {unit}
  <2>2. w.row = row /\ w.drawn = N
    BY <1>5 DEF Charged, Unit
  <2>3. row \in RowType /\ row.count = Row(k).count + 1 /\ row.last = clock
    BY <2>1 DEF RowType
  <2>4. unit \notin D
    BY <1>2 DEF Of
  <2>5. Current(N) = Current(D) \cup {unit} /\ unit \notin Current(D)
    BY <1>2, <2>4 DEF Current
  <2>6. IsFiniteSet(Current(N)) /\ Cardinality(Current(N)) = Row(k).count + 1
    <3> DEFINE C == Current(D)
    <3>1. IsFiniteSet(C) /\ Cardinality(C) = Row(k).count
      BY DEF Good
    <3> HIDE DEF C
    <3>2. IsFiniteSet(C \cup {unit}) /\ Cardinality(C \cup {unit}) =
              IF unit \in C THEN Cardinality(C) ELSE Cardinality(C) + 1
      BY <3>1, FS_AddElement
    <3>3. QED
      BY <2>5, <3>1, <3>2 DEF C
  <2>7. N \subseteq Units
    BY <1>2, <1>3
  <2>8. \A d \in N : /\ d.at <= clock
                     /\ d.over => d.at + Window(k[1]) <= clock
                     /\ ~d.over => d.at <= clock
    BY <1>2 DEF Good
  <2>9. \A d, e \in N : d.mail = e.mail => d = e
    BY <1>2 DEF Of, Good
  <2> HIDE DEF row, N
  <2>10. Good(k, row, N, clock)
    BY <2>1, <2>3, <2>6, <2>7, <2>8, <2>9 DEF Good
  <2>11. N = D \cup {unit}
    BY DEF N
  <2>12. \A n : Of(n, N) => n = m \/ Of(n, D)
    BY <1>2, <2>11 DEF Of
  <2>13. w \in WriteType
    BY <1>5, <2>3, <2>7, <2>11 DEF Charged, WriteType, Unit, row
  <2>14. QED
    BY <2>2, <2>10, <2>11, <2>12, <2>13
<1>6. QED
  BY <1>4, <1>5

\* A refund takes back the mail's own unit, and what was counted for it.
LEMMA RefundedIsGood ==
    ASSUME clock \in Nat, NEW k \in Keys, NEW m \in Mails, Most(k) \in Nat,
           Good(k, Row(k), drawn[k], clock),
           NEW u \in drawn[k], u.mail = m, ~u.over,
           NEW w, w = Refunded(k, m)
    PROVE  /\ Good(k, w.row, w.drawn, clock) /\ w \in WriteType
           /\ \A n : Of(n, w.drawn) => Of(n, drawn[k])
           /\ \A d \in drawn[k] : d.mail # m => d \in w.drawn
<1> DEFINE D == drawn[k]
           N == {d \in D : d.mail # m}
           C == Current(D)
<1>1. N = D \ {u} /\ Current(N) = C \ {u} /\ u \in C
  BY DEF Good, Current
<1>2. /\ IsFiniteSet(C) /\ Cardinality(C) = Row(k).count /\ Row(k) \in RowType
      /\ Row(k).count <= Most(k) /\ D \subseteq Units
  BY DEF Good
<1> HIDE DEF C
<1>3. IsFiniteSet(C \ {u}) /\ Cardinality(C \ {u}) = Row(k).count - 1
  <2>1. IsFiniteSet(C)
    BY <1>2
  <2>2. /\ IsFiniteSet(C \ {u})
        /\ Cardinality(C \ {u}) =
               IF u \in C THEN Cardinality(C) - 1 ELSE Cardinality(C)
    BY <2>1, FS_RemoveElement
  <2>3. Cardinality(C \ {u}) = Cardinality(C) - 1
    BY <1>1, <2>2
  <2>4. QED
    BY <1>2, <2>2, <2>3
<1>4. Cardinality(C \ {u}) \in Nat
  BY <1>3, FS_CardinalityType
<1> DEFINE row == [Row(k) EXCEPT !.count = IF @ = 0 THEN 0 ELSE @ - 1]
<1>5. w.row = row /\ w.drawn = N /\ w = [row |-> row, drawn |-> N]
  BY DEF Refunded
<1> HIDE DEF N
<1>6. Row(k).count \in Nat /\ Row(k).count # 0 /\ Row(k).count - 1 \in Nat
  BY <1>2, <1>3, <1>4 DEF RowType
<1>7. row \in RowType /\ row.count = Row(k).count - 1 /\ row.last = Row(k).last
  <2>1. PICK n \in Nat : n = Row(k).count - 1
    BY <1>6
  <2>2. row = [Row(k) EXCEPT !.count = n]
    BY <1>6, <2>1
  <2> HIDE DEF row
  <2>3. QED
    BY <1>2, <2>1, <2>2 DEF RowType
<1> HIDE DEF row
<1>8. row.count <= Most(k)
  BY <1>2, <1>6, <1>7
<1>9. N \subseteq D /\ N \subseteq Units
  BY <1>1, <1>2
<1>10. Good(k, row, N, clock)
  <2>1. row.last <= clock
    BY <1>7 DEF Good
  <2>2. IsFiniteSet(Current(N)) /\ row.count = Cardinality(Current(N))
    BY <1>1, <1>3, <1>7
  <2>3. \A d \in N : /\ d.at <= clock
                     /\ d.over => d.at + Window(k[1]) <= clock
                     /\ ~d.over => d.at <= row.last
    BY <1>7, <1>9 DEF Good
  <2>4. \A d, e \in N : d.mail = e.mail => d = e
    BY <1>9 DEF Good
  <2>5. QED
    BY <1>7, <1>8, <1>9, <2>1, <2>2, <2>3, <2>4 DEF Good
<1>11. w \in WriteType
  BY <1>5, <1>7, <1>9 DEF WriteType
<1>12. \A n : Of(n, N) => Of(n, D)
  BY <1>9 DEF Of
<1>13. \A d \in D : d.mail # m => d \in N
  BY <1>1
<1>14. QED
  BY <1>5, <1>10, <1>11, <1>12, <1>13

\* Time leaves a good counter good.
LEMMA LaterIsGood ==
    ASSUME NEW k \in Keys, NEW row, NEW D, NEW t \in Nat, Good(k, row, D, t)
    PROVE  Good(k, row, D, t + 1)
<1>1. Window(k[1]) \in Nat
  BY RuleOfKey, WindowLength
<1>2. row \in RowType /\ D \subseteq Units
  BY DEF Good
<1>3. row.last \in Nat /\ \A d \in D : d.at \in Nat
  BY <1>2 DEF RowType, Units
<1>4. row.last <= t + 1
  BY <1>3 DEF Good
<1>5. \A d \in D : d.at <= t + 1 /\ (d.over => d.at + Window(k[1]) <= t + 1)
  BY <1>1, <1>3 DEF Good
<1>6. QED
  BY <1>4, <1>5 DEF Good

\* So does the removal of a row that was not used for two days.
LEMMA PrunedIsGood ==
    ASSUME clock \in Nat, NEW k \in Keys, Most(k) \in Nat, NEW row, NEW D,
           Good(k, row, D, clock), row.last + PruneAge < clock,
           NEW E, E = {[d EXCEPT !.over = TRUE] : d \in D}
    PROVE  /\ Good(k, NoRow, E, clock)
           /\ \A n : Of(n, E) => Of(n, D)
<1>1. Window(k[1]) \in Nat /\ Window(k[1]) <= Day /\ Day \in Nat
  BY RuleOfKey, WindowLength
<1>2. row \in RowType /\ D \subseteq Units
  BY DEF Good
<1>3. \A d \in D : d.at \in Nat /\ d.at <= clock /\ d.at + Window(k[1]) <= clock
  <2>1. row.last \in Nat /\ row.last + 2 * Day < clock
    BY <1>2 DEF RowType, PruneAge
  <2>2. ASSUME NEW d \in D PROVE d.at \in Nat /\ d.at <= clock /\ d.at + Window(k[1]) <= clock
    <3>1. d.at \in Nat /\ d.at <= clock
      BY <1>2 DEF Good, Units
    <3>2. d.over => d.at + Window(k[1]) <= clock
      BY DEF Good
    <3>3. ~d.over => d.at <= row.last
      BY DEF Good
    <3>4. QED
      BY <1>1, <2>1, <3>1, <3>2, <3>3
  <2>3. QED
    BY <2>2
<1>4. \A e \in E : \E d \in D : e \in Units /\ e.mail = d.mail /\ e.at = d.at /\ e.over
                               /\ e = [d EXCEPT !.over = TRUE]
  BY <1>2 DEF Units
<1>5. \A d, e \in E : d.mail = e.mail => d = e
  <2>1. ASSUME NEW d \in E, NEW e \in E, d.mail = e.mail PROVE d = e
    <3>1. PICK x \in D : d.mail = x.mail /\ d = [x EXCEPT !.over = TRUE]
      BY <1>4
    <3>2. PICK y \in D : e.mail = y.mail /\ e = [y EXCEPT !.over = TRUE]
      BY <1>4
    <3>3. x = y
      BY <2>1, <3>1, <3>2 DEF Good
    <3>4. QED
      BY <3>1, <3>2, <3>3
  <2>2. QED
    BY <2>1
<1>6. Current(E) = {}
  BY <1>4 DEF Current
<1>7. IsFiniteSet(Current(E)) /\ Cardinality(Current(E)) = 0
  BY <1>6, FS_EmptySet
<1>8. E \subseteq Units
  BY <1>4
<1>9. \A e \in E : /\ e.at <= clock
                   /\ e.over => e.at + Window(k[1]) <= clock
                   /\ e.over
  BY <1>3, <1>4
<1>10. NoRow.last <= clock /\ NoRow.count <= Most(k) /\ NoRow.count = 0 /\ NoRow \in RowType
  BY RowTyped
<1>11. Good(k, NoRow, E, clock)
  BY <1>5, <1>7, <1>8, <1>9, <1>10 DEF Good
<1>12. \A n : Of(n, E) => Of(n, D)
  BY <1>4 DEF Of
<1>13. QED
  BY <1>11, <1>12

\* What a counter lets through is at least one mail.
LEMMA MostIsPositive ==
    ASSUME NEW k \in Keys
    PROVE  Most(k) \in Nat \ {0}
<1>1. \A c \in Channels, r \in Rules : Allowance[c][r] \in Nat \ {0}
  BY QuotaAssumption DEF Rules
<1>2. \A c \in Categories : ChannelOf(c) \in Channels
  BY DEF ChannelOf, Channels
<1>3. "reminder" \in Channels
  BY DEF Channels
<1>4. PerRecipient \cap PerChannel = {} /\ PerRecipient \cap Overall = {}
      /\ PerChannel \cap Overall = {}
  BY DEF PerRecipient, PerChannel, Overall, RequestRules
<1>5. k[1] \in Rules
  BY RuleOfKey
<1>6. CASE k \in PerRecipient \X Categories \X Recipients
  BY <1>1, <1>2, <1>5, <1>6 DEF Most
<1>7. CASE k \in PerChannel \X Channels \X {Everyone}
  BY <1>1, <1>4, <1>5, <1>7 DEF Most
<1>8. CASE k \in Overall \X {"any"} \X {Everyone}
  BY <1>1, <1>3, <1>4, <1>5, <1>8 DEF Most
<1>9. QED
  BY <1>6, <1>7, <1>8 DEF Keys

-----------------------------------------------------------------------------
(* The inductive invariant                                                 *)

States == {"new", "requesting", "charging", "sending", "refunding",
           "sent", "refused", "doubtful", "suppressed", "failed"}
Place(m) == First(pc[m]) + step[m]

Typed ==
    /\ clock \in Nat /\ DOMAIN rows \subseteq Keys
    /\ drawn \in [Keys -> SUBSET Units]
    /\ pc \in [Mails -> States] /\ job \in [Mails -> JobType]
    /\ step \in [Mails -> Nat \ {0}]
    /\ writes = [m \in Mails |-> writes[m]]

\* An open transaction has written the counters before its place, a charge all of them.
Placed(m) ==
    IF pc[m] \in Busy
    THEN /\ Place(m) <= Last(pc[m]) + 1
         /\ \A k \in DOMAIN writes[m] :
                \E i \in First(pc[m]) + 1 .. Place(m) - 1 : k = Counter(Order[i], m)
         /\ pc[m] # "refunding" =>
                \A i \in First(pc[m]) + 1 .. Place(m) - 1 :
                    Counter(Order[i], m) \in DOMAIN writes[m]
    ELSE step[m] = 1 /\ DOMAIN writes[m] = {}
AllPlaced == \A m \in Mails : Placed(m)

Committed == \A k \in Keys : Good(k, Row(k), drawn[k], clock)
LocksAreOwn ==
    \A m, n \in Mails : \A k \in Keys : LockedBy(k, m) /\ LockedBy(k, n) => m = n

\* What is written is a good counter, which differs from the committed one in units of
\* its mail and in units past the window.
Follows(m, k, w) ==
    /\ Good(k, w.row, w.drawn, clock) /\ w \in WriteType
    /\ \A n : Of(n, w.drawn) => n = m \/ Of(n, drawn[k])
    /\ \A d \in drawn[k] : d.mail # m /\ clock < d.at + Window(k[1]) => d \in w.drawn
WritesAreGood ==
    \A m \in Mails : \A k \in DOMAIN writes[m] : Follows(m, k, writes[m][k])

\* A mail has units only with its own counters, and only with those it was charged to.
OwnCounters ==
    \A k \in Keys, m \in Mails : Of(m, drawn[k]) => k = Counter(k[1], m)
NotYet ==
    \A k \in Keys, m \in Mails :
        /\ pc[m] \in {"new", "requesting"} => ~Of(m, drawn[k])
        /\ pc[m] \in {"charging", "suppressed"} /\ k[1] \in DeliveryRules
               => ~Of(m, drawn[k])

\* What may be given back was charged at one time, not long ago.
ChargedAt(m, t) ==
    /\ t \in Nat /\ t <= clock /\ clock <= t + SendingTime
    /\ \A r \in RefundRules : Unit(m, t) \in drawn[Counter(r, m)]
OnTheWay == \A m \in Mails : OnItsWay(m) => \E t : ChargedAt(m, t)
ChargedSoFar ==
    \A m \in Mails : pc[m] = "charging" =>
        \A i \in 4 .. Place(m) - 1 : Unit(m, clock) \in writes[m][Counter(Order[i], m)].drawn

QuotaInv ==
    /\ Typed /\ AllPlaced /\ Committed /\ LocksAreOwn /\ WritesAreGood
    /\ OwnCounters /\ NotYet /\ OnTheWay /\ ChargedSoFar

\* The invariant holds of the beginning.
LEMMA InitQuota == QuotaInit => QuotaInv
<1> SUFFICES ASSUME QuotaInit PROVE QuotaInv
  OBVIOUS
<1>1. \A m \in Mails : pc[m] = "new" /\ step[m] = 1 /\ DOMAIN writes[m] = {}
  BY DEF QuotaInit
<1>2. \A k \in Keys : drawn[k] = {} /\ Row(k) = NoRow
  BY RowTyped DEF QuotaInit
<1>3. Typed
  <2>1. DOMAIN rows = {}
    BY DEF QuotaInit
  <2>2. writes = [m \in Mails |-> writes[m]] /\ clock \in Nat
        /\ drawn \in [Keys -> SUBSET Units] /\ pc \in [Mails -> States]
        /\ step \in [Mails -> Nat \ {0}]
    BY DEF QuotaInit, States
  <2>3. job \in [Mails -> JobType]
    BY QuotaAssumption DEF QuotaInit, JobType
  <2>4. QED
    BY <2>1, <2>2, <2>3 DEF Typed
<1>4. AllPlaced
  BY <1>1 DEF AllPlaced, Placed, Busy
<1>5. Committed
  <2>1. ASSUME NEW k \in Keys PROVE Good(k, NoRow, {}, 0)
    <3>1. Current({}) = {}
      BY DEF Current
    <3>2. IsFiniteSet(Current({})) /\ Cardinality(Current({})) = 0
      BY <3>1, FS_EmptySet
    <3>3. QED
      BY <3>2, RowTyped, MostIsPositive DEF Good
  <2>2. clock = 0
    BY DEF QuotaInit
  <2>3. QED
    BY <1>2, <2>1, <2>2 DEF Committed
<1>6. LocksAreOwn /\ WritesAreGood
  BY <1>1 DEF LocksAreOwn, WritesAreGood, LockedBy
<1>7. OwnCounters /\ NotYet
  BY <1>2 DEF OwnCounters, NotYet, Of
<1>8. OnTheWay /\ ChargedSoFar
  BY <1>1 DEF OnTheWay, ChargedSoFar, OnItsWay
<1>9. QED
  BY <1>3, <1>4, <1>5, <1>6, <1>7, <1>8 DEF QuotaInv

-----------------------------------------------------------------------------
(* Steps                                                                   *)

\* What is written follows a counter as long as time and the counter stay.
LEMMA FollowsStays ==
    ASSUME UNCHANGED clock,
           \A m \in Mails : \A k \in DOMAIN writes'[m] :
               Follows(m, k, writes'[m][k]) /\ drawn'[k] = drawn[k]
    PROVE  WritesAreGood'
BY DEF WritesAreGood, Follows

\* The next key of a transaction is a key it has not written yet.
LEMMA NextIsNew ==
    ASSUME QuotaInv, NEW m \in Mails, pc[m] \in Busy, Waiting(m),
           NEW k, k = NextKey(m)
    PROVE  /\ Place(m) \in First(pc[m]) + 1 .. Last(pc[m]) /\ Place(m) \in 1 .. 10
           /\ k = Counter(Order[Place(m)], m) /\ k[1] = Order[Place(m)]
           /\ k \in Keys /\ k \notin DOMAIN writes[m]
           /\ Allowed(m, k) = Most(k)
<1>1. step[m] \in Nat \ {0} /\ job[m] \in JobType /\ pc[m] \in States
  BY DEF QuotaInv, Typed
<1>2. /\ First(pc[m]) + step[m] <= Last(pc[m])
      /\ k = Counter(Order[First(pc[m]) + step[m]], m)
  BY <1>1, NextPlace
<1>3. First(pc[m]) \in 0 .. 7 /\ Last(pc[m]) \in 0 .. 10
  BY DEF First, Last
<1>4. Place(m) \in First(pc[m]) + 1 .. Last(pc[m]) /\ Place(m) \in 1 .. 10
  BY <1>1, <1>2, <1>3 DEF Place
<1>5. k = Counter(Order[Place(m)], m)
  BY <1>2 DEF Place
<1>6. k \in Keys /\ k[1] = Order[Place(m)] /\ Allowed(m, k) = Most(k)
  BY <1>1, <1>4, <1>5, OrderOfRules, CounterIsKey
<1>7. ASSUME k \in DOMAIN writes[m] PROVE FALSE
  <2>1. Placed(m)
    BY DEF QuotaInv, AllPlaced
  <2>2. PICK i \in First(pc[m]) + 1 .. Place(m) - 1 : k = Counter(Order[i], m)
    BY <1>7, <2>1 DEF Placed
  <2>3. i \in 1 .. 10 /\ i # Place(m)
    BY <1>3, <1>4, <2>2
  <2>4. k[1] = Order[i]
    BY <1>1, <2>2, <2>3, OrderOfRules, CounterIsKey
  <2>5. QED
    BY <1>4, <1>6, <2>3, <2>4, OrderOfRules
<1>8. QED
  BY <1>4, <1>5, <1>6, <1>7

\* The transaction writes its next counter.
LEMMA WriteKeeps ==
    ASSUME QuotaInv, NEW m \in Mails, pc[m] \in Busy, Waiting(m),
           NEW k, k = NextKey(m), ~Locked(k, m),
           NEW w, Follows(m, k, w), pc[m] = "charging" => Unit(m, clock) \in w.drawn,
           Write(m, k, w)
    PROVE  QuotaInv'
<1> DEFINE table == [l \in DOMAIN writes[m] \cup {k} |->
                        IF l = k THEN w ELSE writes[m][l]]
<1>1. UNCHANGED clock /\ UNCHANGED rows /\ UNCHANGED drawn /\ UNCHANGED pc /\ UNCHANGED job
  BY DEF Write
<1>2. Typed
  BY DEF QuotaInv
<1>3. step' = [step EXCEPT ![m] = @ + 1] /\ writes' = [writes EXCEPT ![m] = table]
  BY DEF Write
<1> HIDE DEF table
<1>4. /\ DOMAIN table = DOMAIN writes[m] \cup {k} /\ table[k] = w
      /\ \A l \in DOMAIN writes[m] : l # k => table[l] = writes[m][l]
  BY DEF table
<1>5. /\ step'[m] = step[m] + 1 /\ step' \in [Mails -> Nat \ {0}]
      /\ \A n \in Mails : n # m => step'[n] = step[n]
  BY <1>2, <1>3 DEF Typed
<1>6. /\ writes' = [n \in Mails |-> writes'[n]] /\ writes'[m] = table
      /\ \A n \in Mails : n # m => writes'[n] = writes[n]
  BY <1>2, <1>3 DEF Typed
<1>7. /\ Place(m) \in First(pc[m]) + 1 .. Last(pc[m]) /\ Place(m) \in 1 .. 10
      /\ k = Counter(Order[Place(m)], m) /\ k \in Keys /\ k \notin DOMAIN writes[m]
  BY NextIsNew
<1>8. Place(m)' = Place(m) + 1 /\ \A n \in Mails : n # m => Place(n)' = Place(n)
  BY <1>1, <1>2, <1>5 DEF Place, Typed, First
<1>9. Typed'
  BY <1>1, <1>2, <1>5, <1>6 DEF Typed
<1>10. AllPlaced'
  <2>1. ASSUME NEW n \in Mails PROVE Placed(n)'
    <3>1. Placed(n)
      BY DEF QuotaInv, AllPlaced
    <3>2. CASE n # m
      BY <1>1, <1>5, <1>6, <1>8, <3>1, <3>2 DEF Placed, Counter
    <3>3. CASE n = m
      <4>1. First(pc[m]) \in Nat /\ Last(pc[m]) \in Nat
        BY DEF First, Last
      <4>2. Place(m)' <= Last(pc[m]) + 1
        BY <1>7, <1>8, <4>1
      <4>3. \A l \in DOMAIN table :
                \E i \in First(pc[m]) + 1 .. Place(m) : l = Counter(Order[i], m)
        <5>1. ASSUME NEW l \in DOMAIN table
              PROVE  \E i \in First(pc[m]) + 1 .. Place(m) : l = Counter(Order[i], m)
          <6>1. CASE l = k
            BY <1>7, <4>1, <6>1
          <6>2. CASE l # k
            <7>1. l \in DOMAIN writes[m]
              BY <1>4, <6>2
            <7>2. PICK i \in First(pc[m]) + 1 .. Place(m) - 1 : l = Counter(Order[i], m)
              BY <3>1, <3>3, <7>1 DEF Placed
            <7>3. i \in First(pc[m]) + 1 .. Place(m)
              BY <1>7, <4>1, <7>2
            <7>4. QED
              BY <7>2, <7>3
          <6>3. QED
            BY <6>1, <6>2
        <5>2. QED
          BY <5>1
      <4>4. pc[m] # "refunding" =>
                \A i \in First(pc[m]) + 1 .. Place(m) : Counter(Order[i], m) \in DOMAIN table
        <5>1. ASSUME pc[m] # "refunding", NEW i \in First(pc[m]) + 1 .. Place(m)
              PROVE  Counter(Order[i], m) \in DOMAIN table
          <6>1. CASE i = Place(m)
            BY <1>4, <1>7, <6>1
          <6>2. CASE i # Place(m)
            <7>1. i \in First(pc[m]) + 1 .. Place(m) - 1
              BY <1>7, <4>1, <6>2
            <7>2. QED
              BY <1>4, <3>1, <3>3, <5>1, <7>1 DEF Placed
          <6>3. QED
            BY <6>1, <6>2
        <5>2. QED
          BY <5>1
      <4>5. Place(m)' - 1 = Place(m)
        BY <1>7, <1>8
      <4>6. QED
        BY <1>1, <1>6, <3>3, <4>2, <4>3, <4>4, <4>5 DEF Placed, Counter
    <3>4. QED
      BY <3>2, <3>3
  <2>2. QED
    BY <2>1 DEF AllPlaced
<1>11. Committed'
  BY <1>1 DEF QuotaInv, Committed, Row
<1>12. LocksAreOwn'
  <2>1. \A n \in Mails : n # m => k \notin DOMAIN writes[n]
    BY DEF Locked, LockedBy
  <2>2. \A n \in Mails : \A l \in Keys :
            l \in DOMAIN writes'[n] => l \in DOMAIN writes[n] \/ (n = m /\ l = k)
    BY <1>4, <1>6
  <2>3. QED
    BY <2>1, <2>2 DEF QuotaInv, LocksAreOwn, LockedBy
<1>13. WritesAreGood'
  <2>1. \A n \in Mails : \A l \in DOMAIN writes'[n] : Follows(n, l, writes'[n][l])
    BY <1>4, <1>6 DEF QuotaInv, WritesAreGood
  <2>2. QED
    BY <1>1, <2>1, FollowsStays
<1>14. OwnCounters' /\ NotYet'
  BY <1>1 DEF QuotaInv, OwnCounters, NotYet, Counter
<1>15. OnTheWay'
  BY <1>1 DEF QuotaInv, OnTheWay, OnItsWay, ChargedAt, Counter
<1>16. ChargedSoFar'
  <2>1. ASSUME NEW n \in Mails, pc[n] = "charging", NEW i \in 4 .. Place(n)' - 1
        PROVE  Unit(n, clock) \in writes'[n][Counter(Order[i], n)].drawn
    <3>1. CASE n # m
      BY <1>6, <1>8, <2>1, <3>1 DEF QuotaInv, ChargedSoFar
    <3>2. CASE n = m /\ i = Place(m)
      BY <1>4, <1>6, <1>7, <2>1, <3>2
    <3>3. CASE n = m /\ i # Place(m)
      <4>1. i \in 4 .. Place(m) - 1 /\ First(pc[m]) = 3
        BY <1>7, <1>8, <2>1, <3>3 DEF First
      <4>2. Counter(Order[i], m) \in DOMAIN writes[m]
        <5>1. Placed(m)
          BY DEF QuotaInv, AllPlaced
        <5>2. QED
          BY <2>1, <3>3, <4>1, <5>1 DEF Placed
      <4>3. Unit(m, clock) \in writes[m][Counter(Order[i], m)].drawn
        BY <2>1, <3>3, <4>1 DEF QuotaInv, ChargedSoFar
      <4>4. QED
        BY <1>4, <1>6, <1>7, <3>3, <4>2, <4>3
    <3>4. QED
      BY <3>1, <3>2, <3>3
  <2>2. QED
    BY <1>1, <2>1 DEF ChargedSoFar, Counter, Unit
<1>17. QED
  BY <1>9, <1>10, <1>11, <1>12, <1>13, <1>14, <1>15, <1>16 DEF QuotaInv

\* A transaction that ends without effect, or a mail that goes on without one.
LEMMA MoveKeeps ==
    ASSUME QuotaInv, NEW m \in Mails, NEW to \in States,
           to \notin {"requesting", "charging", "refunding"} \/ pc[m] \notin Busy,
           to \in {"sending", "refunding"} => OnItsWay(m),
           to = "new" => pc[m] = "new", to = "requesting" => pc[m] = "new",
           to = "charging" => pc[m] = "new",
           to = "suppressed" => pc[m] \in {"requesting", "charging"},
           pc' = [pc EXCEPT ![m] = to], step' = [step EXCEPT ![m] = 1],
           NEW none, DOMAIN none = {}, writes' = [writes EXCEPT ![m] = none],
           UNCHANGED clock, UNCHANGED rows, UNCHANGED drawn, UNCHANGED job
    PROVE  QuotaInv'
<1>1. UNCHANGED clock /\ UNCHANGED rows /\ UNCHANGED drawn /\ UNCHANGED job
  OBVIOUS
<1>2. Typed
  BY DEF QuotaInv
<1>3. /\ pc'[m] = to /\ step'[m] = 1 /\ DOMAIN writes'[m] = {}
      /\ \A n \in Mails : n # m => pc'[n] = pc[n] /\ step'[n] = step[n]
                                   /\ writes'[n] = writes[n]
      /\ pc' \in [Mails -> States] /\ step' \in [Mails -> Nat \ {0}]
      /\ writes' = [n \in Mails |-> writes'[n]]
  <2>1. /\ pc'[m] = to /\ pc' \in [Mails -> States]
        /\ \A n \in Mails : n # m => pc'[n] = pc[n]
    BY <1>2 DEF Typed
  <2>2. /\ step'[m] = 1 /\ step' \in [Mails -> Nat \ {0}]
        /\ \A n \in Mails : n # m => step'[n] = step[n]
    BY <1>2 DEF Typed
  <2>3. DOMAIN none = {}
    OBVIOUS
  <2>4. /\ writes'[m] = none /\ writes' = [n \in Mails |-> writes'[n]]
        /\ \A n \in Mails : n # m => writes'[n] = writes[n]
    BY <1>2 DEF Typed
  <2>5. QED
    BY <2>1, <2>2, <2>3, <2>4
<1>4. \A n \in Mails : n # m => Place(n)' = Place(n)
  BY <1>3 DEF Place, First
<1>5. Typed'
  BY <1>1, <1>2, <1>3 DEF Typed
<1>6. AllPlaced'
  <2>1. ASSUME NEW n \in Mails, n # m PROVE Placed(n)'
    <3>1. Placed(n)
      BY DEF QuotaInv, AllPlaced
    <3>2. pc'[n] = pc[n] /\ step'[n] = step[n] /\ writes'[n] = writes[n]
      BY <1>3, <2>1
    <3>3. First(pc[n])' = First(pc[n]) /\ Last(pc[n])' = Last(pc[n])
      BY <3>2 DEF First, Last
    <3>4. QED
      BY <1>1, <1>4, <2>1, <3>1, <3>2, <3>3 DEF Placed, Counter
  <2>2. Placed(m)'
    <3>1. Place(m)' = First(to) + 1 /\ First(to) \in Nat /\ First(to) <= Last(to)
      BY <1>3 DEF Place, First, Last
    <3>2. Place(m)' - 1 = First(to)
      BY <3>1
    <3>3. First(to) + 1 .. First(to) = {} /\ First(to) + 1 <= Last(to) + 1
      BY <3>1 DEF First, Last
    <3>4. QED
      BY <1>3, <3>1, <3>2, <3>3 DEF Placed
  <2>3. QED
    BY <2>1, <2>2 DEF AllPlaced
<1>7. Committed'
  BY <1>1 DEF QuotaInv, Committed, Row
<1>8. LocksAreOwn'
  BY <1>3 DEF QuotaInv, LocksAreOwn, LockedBy
<1>9. WritesAreGood'
  <2>1. \A n \in Mails : \A l \in DOMAIN writes'[n] : Follows(n, l, writes'[n][l])
    BY <1>3 DEF QuotaInv, WritesAreGood
  <2>2. QED
    BY <1>1, <2>1, FollowsStays
<1>10. OwnCounters'
  BY <1>1 DEF QuotaInv, OwnCounters, Counter
<1>11. NotYet'
  BY <1>1, <1>3 DEF QuotaInv, NotYet
<1>12. OnTheWay'
  <2>1. \A n \in Mails : OnItsWay(n)' => OnItsWay(n)
    BY <1>3 DEF OnItsWay
  <2>2. \A n \in Mails : \A t : ChargedAt(n, t) => ChargedAt(n, t)'
    BY <1>1 DEF ChargedAt, Counter
  <2>3. QED
    BY <2>1, <2>2 DEF QuotaInv, OnTheWay
<1>13. ChargedSoFar'
  <2>1. ASSUME NEW n \in Mails, pc'[n] = "charging", NEW i \in 4 .. Place(n)' - 1
        PROVE  Unit(n, clock) \in writes'[n][Counter(Order[i], n)].drawn
    <3>1. CASE n # m
      BY <1>3, <1>4, <2>1, <3>1 DEF QuotaInv, ChargedSoFar
    <3>2. CASE n = m
      BY <1>3, <2>1, <3>2 DEF Place, First
    <3>3. QED
      BY <3>1, <3>2
  <2>2. QED
    BY <1>1, <2>1 DEF ChargedSoFar, Counter, Unit
<1>14. QED
  BY <1>5, <1>6, <1>7, <1>8, <1>9, <1>10, <1>11, <1>12, <1>13 DEF QuotaInv

\* What a transaction has written are counters.
LEMMA WrittenKeys ==
    ASSUME QuotaInv, NEW m \in Mails, NEW k \in DOMAIN writes[m]
    PROVE  k \in Keys
<1>1. Placed(m) /\ job[m] \in JobType /\ step[m] \in Nat \ {0}
  BY DEF QuotaInv, AllPlaced, Typed
<1>2. PICK i \in First(pc[m]) + 1 .. Place(m) - 1 : k = Counter(Order[i], m)
  BY <1>1 DEF Placed
<1>3. First(pc[m]) \in Nat /\ Place(m) - 1 <= 10
  BY <1>1 DEF Placed, First, Last, Place
<1>4. i \in 1 .. 10
  BY <1>1, <1>2, <1>3 DEF Place
<1>5. QED
  BY <1>1, <1>2, <1>4, OrderOfRules, CounterIsKey

\* A transaction commits.
LEMMA CommitKeeps ==
    ASSUME QuotaInv, NEW m \in Mails, pc[m] \in Busy, ~Waiting(m),
           NEW to, to = IF pc[m] = "requesting" THEN "charging"
                        ELSE IF pc[m] = "charging" THEN "sending" ELSE "refused",
           Commit(m, to)
    PROVE  QuotaInv'
<1> DEFINE new == writes[m]
           none == << >>
<1>1. UNCHANGED clock /\ UNCHANGED job
  BY DEF Commit, End
<1>2. Typed
  BY DEF QuotaInv
<1>3. to \in States /\ to \in {"charging", "sending", "refused"}
  BY DEF States
<1>4. pc' = [pc EXCEPT ![m] = to] /\ step' = [step EXCEPT ![m] = 1]
      /\ writes' = [writes EXCEPT ![m] = none]
  BY DEF Commit, End
<1>5. DOMAIN none = {}
  OBVIOUS
<1>6. /\ DOMAIN rows' = DOMAIN rows \cup DOMAIN new
      /\ \A k \in DOMAIN rows' : rows'[k] = IF k \in DOMAIN new THEN new[k].row ELSE rows[k]
      /\ drawn' = [k \in Keys |-> IF k \in DOMAIN new THEN new[k].drawn ELSE drawn[k]]
  BY DEF Commit
<1> HIDE DEF none
<1>7. /\ pc'[m] = to /\ pc' \in [Mails -> States]
      /\ \A n \in Mails : n # m => pc'[n] = pc[n]
  BY <1>2, <1>3, <1>4 DEF Typed
<1>8. /\ step'[m] = 1 /\ step' \in [Mails -> Nat \ {0}]
      /\ \A n \in Mails : n # m => step'[n] = step[n]
  BY <1>2, <1>4 DEF Typed
<1>9. /\ writes'[m] = none /\ writes' = [n \in Mails |-> writes'[n]]
      /\ \A n \in Mails : n # m => writes'[n] = writes[n]
  BY <1>2, <1>4 DEF Typed
<1>10. Placed(m) /\ job[m] \in JobType /\ step[m] \in Nat \ {0}
  BY <1>2 DEF QuotaInv, AllPlaced, Typed
<1>11. Place(m) = Last(pc[m]) + 1 /\ First(pc[m]) \in Nat /\ Last(pc[m]) \in 0 .. 10
  <2>1. First(pc[m]) \in Nat /\ Last(pc[m]) \in 0 .. 10
    BY DEF First, Last
  <2>2. ~(Place(m) <= Last(pc[m])) /\ Place(m) <= Last(pc[m]) + 1
    BY <1>10, NextPlace DEF Placed, Place
  <2>3. Place(m) \in Nat
    BY <1>10, <2>1 DEF Place
  <2>4. QED
    BY <2>1, <2>2, <2>3
<1>12. \A k \in DOMAIN new : \E i \in First(pc[m]) + 1 .. Last(pc[m]) :
           i \in 1 .. 10 /\ k = Counter(Order[i], m) /\ k \in Keys /\ k[1] = Order[i]
  <2>1. ASSUME NEW k \in DOMAIN new
        PROVE  \E i \in First(pc[m]) + 1 .. Last(pc[m]) :
                   i \in 1 .. 10 /\ k = Counter(Order[i], m) /\ k \in Keys /\ k[1] = Order[i]
    <3>1. PICK i \in First(pc[m]) + 1 .. Place(m) - 1 : k = Counter(Order[i], m)
      BY <1>10, <2>1 DEF Placed
    <3>2. i \in First(pc[m]) + 1 .. Last(pc[m]) /\ i \in 1 .. 10
      BY <1>11, <3>1
    <3>3. k \in Keys /\ k[1] = Order[i]
      BY <1>10, <3>1, <3>2, OrderOfRules, CounterIsKey
    <3>4. QED
      BY <3>1, <3>2, <3>3
  <2>2. QED
    BY <2>1
<1>13. \A k \in DOMAIN new : k \in Keys /\ Follows(m, k, new[k])
  BY <1>12 DEF QuotaInv, WritesAreGood
<1>14. \A k \in Keys :
           /\ drawn'[k] = IF k \in DOMAIN new THEN new[k].drawn ELSE drawn[k]
           /\ Row(k)' = IF k \in DOMAIN new THEN new[k].row ELSE Row(k)
  BY <1>6 DEF Row
<1>15. \A k \in Keys : \A n : Of(n, drawn'[k]) => Of(n, drawn[k]) \/ (n = m /\ k \in DOMAIN new)
  BY <1>13, <1>14 DEF Follows
<1>16. \A n \in Mails : n # m => Place(n)' = Place(n) /\ First(pc[n])' = First(pc[n])
                                 /\ Last(pc[n])' = Last(pc[n])
  BY <1>7, <1>8 DEF Place, First, Last
<1>17. Typed'
  <2>1. DOMAIN rows' \subseteq Keys
    BY <1>2, <1>6, <1>13 DEF Typed
  <2>2. drawn' \in [Keys -> SUBSET Units]
    <3>1. \A k \in Keys : drawn'[k] \in SUBSET Units
      BY <1>2, <1>13, <1>14 DEF Follows, WriteType, Typed
    <3>2. QED
      BY <1>6, <3>1
  <2>3. QED
    BY <1>1, <1>2, <1>7, <1>8, <1>9, <2>1, <2>2 DEF Typed
<1>18. AllPlaced'
  <2>1. ASSUME NEW n \in Mails, n # m PROVE Placed(n)'
    <3>1. Placed(n)
      BY DEF QuotaInv, AllPlaced
    <3>2. pc'[n] = pc[n] /\ step'[n] = step[n] /\ writes'[n] = writes[n]
      BY <1>7, <1>8, <1>9, <2>1
    <3>3. QED
      BY <1>1, <1>16, <2>1, <3>1, <3>2 DEF Placed, Counter
  <2>2. Placed(m)'
    <3>1. Place(m)' = First(to) + 1 /\ First(to) \in Nat /\ First(to) <= Last(to)
      BY <1>7, <1>8 DEF Place, First, Last
    <3>2. Place(m)' - 1 = First(to)
      BY <3>1
    <3>3. First(to) + 1 .. First(to) = {} /\ First(to) + 1 <= Last(to) + 1
      BY <3>1 DEF First, Last
    <3>4. QED
      BY <1>5, <1>7, <1>8, <1>9, <3>1, <3>2, <3>3 DEF Placed
  <2>3. QED
    BY <2>1, <2>2 DEF AllPlaced
<1>19. Committed'
  <2>1. \A k \in Keys : Good(k, Row(k)', drawn'[k], clock)
    BY <1>13, <1>14 DEF QuotaInv, Committed, Follows
  <2>2. QED
    BY <1>1, <2>1 DEF Committed
<1>20. LocksAreOwn'
  BY <1>5, <1>9 DEF QuotaInv, LocksAreOwn, LockedBy
<1>21. WritesAreGood'
  <2>1. ASSUME NEW n \in Mails, NEW k \in DOMAIN writes'[n]
        PROVE  Follows(n, k, writes'[n][k]) /\ drawn'[k] = drawn[k]
    <3>1. n # m /\ writes'[n] = writes[n]
      BY <1>5, <1>9, <2>1
    <3>2. Follows(n, k, writes[n][k])
      BY <2>1, <3>1 DEF QuotaInv, WritesAreGood
    <3>3. k \in Keys
      BY <2>1, <3>1, WrittenKeys
    <3>4. k \notin DOMAIN new
      BY <2>1, <3>1, <3>3 DEF QuotaInv, LocksAreOwn, LockedBy
    <3>5. drawn'[k] = drawn[k]
      BY <1>14, <3>3, <3>4
    <3>6. QED
      BY <3>1, <3>2, <3>5
  <2>2. QED
    BY <1>1, <2>1, FollowsStays
<1>22. OwnCounters'
  <2>1. ASSUME NEW k \in Keys, NEW n \in Mails, Of(n, drawn'[k]) PROVE k = Counter(k[1], n)
    <3>1. CASE Of(n, drawn[k])
      BY <3>1 DEF QuotaInv, OwnCounters
    <3>2. CASE n = m /\ k \in DOMAIN new
      BY <1>12, <3>2
    <3>3. QED
      BY <1>15, <2>1, <3>1, <3>2
  <2>2. QED
    BY <1>1, <2>1 DEF OwnCounters, Counter
<1>23. NotYet'
  <2>1. ASSUME NEW k \in Keys, NEW n \in Mails, n # m
        PROVE  /\ pc'[n] \in {"new", "requesting"} => ~Of(n, drawn'[k])
               /\ pc'[n] \in {"charging", "suppressed"} /\ k[1] \in DeliveryRules
                      => ~Of(n, drawn'[k])
    BY <1>7, <1>15, <2>1 DEF QuotaInv, NotYet
  <2>2. ASSUME NEW k \in Keys, to = "charging", k[1] \in DeliveryRules
        PROVE  ~Of(m, drawn'[k])
    <3>1. pc[m] = "requesting"
      BY <2>2
    <3>2. k \notin DOMAIN new
      <4>1. ASSUME k \in DOMAIN new PROVE FALSE
        <5>1. PICK i \in First(pc[m]) + 1 .. Last(pc[m]) : i \in 1 .. 10 /\ k[1] = Order[i]
          BY <1>12, <4>1
        <5>2. i <= 3
          BY <3>1, <5>1 DEF First, Last
        <5>3. QED
          BY <2>2, <5>1, <5>2, OrderOfRules
      <4>2. QED
        BY <4>1
    <3>3. ~Of(m, drawn[k])
      BY <3>1 DEF QuotaInv, NotYet
    <3>4. QED
      BY <1>15, <3>2, <3>3
  <2>3. QED
    BY <1>3, <1>7, <2>1, <2>2 DEF NotYet
<1>24. OnTheWay'
  <2>1. ASSUME NEW n \in Mails, n # m, OnItsWay(n) PROVE \E t : ChargedAt(n, t)'
    <3>1. PICK t : ChargedAt(n, t)
      BY <2>1 DEF QuotaInv, OnTheWay
    <3>2. ASSUME NEW r \in RefundRules PROVE Unit(n, t) \in drawn'[Counter(r, n)]
      <4>1. Counter(r, n) \in Keys /\ Counter(r, n)[1] = r
        BY <1>2, CounterIsKey DEF Typed, RefundRules, Rules, DeliveryRules
      <4>2. Unit(n, t) \in drawn[Counter(r, n)] /\ t \in Nat /\ clock <= t + SendingTime
        BY <3>1 DEF ChargedAt
      <4>3. Unit(n, t).mail = n /\ Unit(n, t).at = t
        BY DEF Unit
      <4>4. clock < Unit(n, t).at + Window(Counter(r, n)[1])
        BY <1>2, <4>1, <4>2, <4>3, WindowLength DEF Typed
      <4>5. QED
        BY <1>13, <1>14, <2>1, <4>1, <4>2, <4>3, <4>4 DEF Follows
    <3>3. QED
      BY <1>1, <3>1, <3>2 DEF ChargedAt, Counter
  <2>2. ASSUME to = "sending" PROVE ChargedAt(m, clock)'
    <3>1. pc[m] = "charging"
      BY <2>2
    <3>2. ASSUME NEW r \in RefundRules PROVE Unit(m, clock) \in drawn'[Counter(r, m)]
      <4>1. PICK i \in 8 .. 10 : r = Order[i]
        BY OrderOfRules
      <4>2. i \in 4 .. Place(m) - 1 /\ i \in First(pc[m]) + 1 .. Place(m) - 1
        BY <1>11, <3>1 DEF First, Last
      <4>3. Counter(r, m) \in DOMAIN new
        BY <1>10, <3>1, <4>1, <4>2 DEF Placed
      <4>4. Unit(m, clock) \in new[Counter(r, m)].drawn
        BY <3>1, <4>1, <4>2 DEF QuotaInv, ChargedSoFar
      <4>5. QED
        BY <1>13, <1>14, <4>3, <4>4
    <3>3. clock \in Nat /\ clock <= clock /\ clock <= clock + SendingTime
      BY <1>2, WindowLength DEF Typed
    <3>4. QED
      BY <1>1, <3>2, <3>3 DEF ChargedAt, Counter, Unit
  <2>3. ASSUME NEW n \in Mails, OnItsWay(n)' PROVE \E t : ChargedAt(n, t)'
    <3>1. CASE n = m
      BY <1>3, <1>7, <2>2, <2>3, <3>1 DEF OnItsWay
    <3>2. CASE n # m
      BY <1>7, <2>1, <2>3, <3>2 DEF OnItsWay
    <3>3. QED
      BY <3>1, <3>2
  <2>4. QED
    BY <2>3 DEF OnTheWay
<1>25. ChargedSoFar'
  <2>1. ASSUME NEW n \in Mails, pc'[n] = "charging", NEW i \in 4 .. Place(n)' - 1
        PROVE  Unit(n, clock) \in writes'[n][Counter(Order[i], n)].drawn
    <3>1. CASE n # m
      BY <1>7, <1>9, <1>16, <2>1, <3>1 DEF QuotaInv, ChargedSoFar
    <3>2. CASE n = m
      BY <1>7, <1>8, <2>1, <3>2 DEF Place, First
    <3>3. QED
      BY <3>1, <3>2
  <2>2. QED
    BY <1>1, <2>1 DEF ChargedSoFar, Counter, Unit
<1>26. QED
  BY <1>17, <1>18, <1>19, <1>20, <1>21, <1>22, <1>23, <1>24, <1>25 DEF QuotaInv

\* Rows of long ago are removed.
LEMMA PruneKeeps == QuotaInv /\ Prune => QuotaInv'
<1> SUFFICES ASSUME QuotaInv, Prune PROVE QuotaInv'
  OBVIOUS
<1>1. /\ UNCHANGED clock /\ UNCHANGED pc /\ UNCHANGED job /\ UNCHANGED step
      /\ UNCHANGED writes
  BY DEF Prune
<1>2. Typed
  BY DEF QuotaInv
<1>3. /\ DOMAIN rows' = DOMAIN rows \ Old
      /\ \A k \in DOMAIN rows' : rows'[k] = rows[k]
      /\ drawn' = [k \in Keys |-> IF k \in Old
                                  THEN {[d EXCEPT !.over = TRUE] : d \in drawn[k]}
                                  ELSE drawn[k]]
  BY DEF Prune
<1>4. \A k \in Old : /\ k \in DOMAIN rows /\ k \in Keys /\ Row(k).last + PruneAge < clock
                     /\ \A n \in Mails : k \notin DOMAIN writes[n]
  BY <1>2 DEF Old, LockedBy, Row, Typed
<1>5. \A k \in Keys :
          /\ Row(k)' = IF k \in Old THEN NoRow ELSE Row(k)
          /\ k \notin Old => drawn'[k] = drawn[k]
          /\ k \in Old => drawn'[k] = {[d EXCEPT !.over = TRUE] : d \in drawn[k]}
  BY <1>3 DEF Row
<1>6. \A k \in Keys : /\ Good(k, Row(k)', drawn'[k], clock)
                      /\ \A n : Of(n, drawn'[k]) => Of(n, drawn[k])
  <2>1. ASSUME NEW k \in Keys
        PROVE  /\ Good(k, Row(k)', drawn'[k], clock)
               /\ \A n : Of(n, drawn'[k]) => Of(n, drawn[k])
    <3>1. Good(k, Row(k), drawn[k], clock) /\ clock \in Nat /\ Most(k) \in Nat
      BY <1>2, MostIsPositive DEF QuotaInv, Committed, Typed
    <3>2. CASE k \in Old
      <4>1. Row(k).last + PruneAge < clock
        BY <1>4, <3>2
      <4> DEFINE E == drawn'[k]
      <4>2. E = {[d EXCEPT !.over = TRUE] : d \in drawn[k]}
        BY <1>5, <3>2
      <4> HIDE DEF E
      <4>3. Good(k, NoRow, E, clock) /\ \A n : Of(n, E) => Of(n, drawn[k])
        BY <3>1, <4>1, <4>2, PrunedIsGood
      <4>4. QED
        BY <1>5, <3>2, <4>3 DEF E
    <3>3. CASE k \notin Old
      BY <1>5, <3>1, <3>3
    <3>4. QED
      BY <3>2, <3>3
  <2>2. QED
    BY <2>1
<1>7. Typed'
  <2>1. drawn' \in [Keys -> SUBSET Units]
    BY <1>3, <1>6 DEF Good
  <2>2. QED
    BY <1>1, <1>2, <1>3, <2>1 DEF Typed
<1>8. AllPlaced'
  BY <1>1 DEF QuotaInv, AllPlaced, Placed, Place, First, Last, Counter
<1>9. Committed'
  BY <1>1, <1>6 DEF Committed
<1>10. LocksAreOwn'
  BY <1>1 DEF QuotaInv, LocksAreOwn, LockedBy
<1>11. WritesAreGood'
  <2>1. \A n \in Mails : \A k \in DOMAIN writes'[n] :
            Follows(n, k, writes'[n][k]) /\ drawn'[k] = drawn[k]
    BY <1>1, <1>4, <1>5, WrittenKeys DEF QuotaInv, WritesAreGood
  <2>2. QED
    BY <1>1, <2>1, FollowsStays
<1>12. OwnCounters' /\ NotYet'
  BY <1>1, <1>6 DEF QuotaInv, OwnCounters, NotYet, Counter
<1>13. OnTheWay'
  <2>1. ASSUME NEW n \in Mails, NEW t, ChargedAt(n, t), NEW r \in RefundRules
        PROVE  Unit(n, t) \in drawn'[Counter(r, n)]
    <3> DEFINE k == Counter(r, n)
    <3>1. k \in Keys
      BY <1>2, CounterIsKey DEF Typed, RefundRules, Rules, DeliveryRules
    <3>2. Unit(n, t) \in drawn[k] /\ t \in Nat /\ clock <= t + SendingTime
      BY <2>1 DEF ChargedAt
    <3>3. Unit(n, t).at = t /\ ~Unit(n, t).over
      BY DEF Unit
    <3> HIDE DEF k
    <3>4. t <= Row(k).last /\ Row(k).last \in Nat
      BY <3>1, <3>2, <3>3 DEF QuotaInv, Committed, Good, RowType
    <3>5. k \notin Old
      <4>1. ASSUME k \in Old PROVE FALSE
        <5>1. Row(k).last + 2 * Day < clock
          BY <1>4, <4>1 DEF PruneAge
        <5>2. clock \in Nat /\ Day \in Nat /\ SendingTime \in Nat /\ SendingTime < Day
          BY <1>2, WindowLength DEF Typed
        <5>3. QED
          BY <3>2, <3>4, <5>1, <5>2
      <4>2. QED
        BY <4>1
    <3>6. QED
      BY <1>5, <3>1, <3>2, <3>5 DEF k
  <2>2. \A n \in Mails : \A t : ChargedAt(n, t) => ChargedAt(n, t)'
    BY <1>1, <2>1 DEF ChargedAt, Counter
  <2>3. QED
    BY <1>1, <2>2 DEF QuotaInv, OnTheWay, OnItsWay
<1>14. ChargedSoFar'
  BY <1>1 DEF QuotaInv, ChargedSoFar, Place, First, Counter, Unit
<1>15. QED
  BY <1>7, <1>8, <1>9, <1>10, <1>11, <1>12, <1>13, <1>14 DEF QuotaInv

\* Time passes.
LEMMA TickKeeps == QuotaInv /\ Tick => QuotaInv'
<1> SUFFICES ASSUME QuotaInv, Tick PROVE QuotaInv'
  OBVIOUS
<1>1. /\ UNCHANGED rows /\ UNCHANGED drawn /\ UNCHANGED pc /\ UNCHANGED job
      /\ UNCHANGED step /\ UNCHANGED writes /\ clock' = clock + 1
  BY DEF Tick
<1>2. Typed
  BY DEF QuotaInv
<1>3. \A m \in Mails : DOMAIN writes[m] = {}
  BY DEF Tick
<1>4. Typed'
  BY <1>1, <1>2 DEF Typed
<1>5. AllPlaced'
  BY <1>1 DEF QuotaInv, AllPlaced, Placed, Place, First, Last, Counter
<1>6. Committed'
  <2>1. \A k \in Keys : Good(k, Row(k), drawn[k], clock + 1)
    BY <1>2, LaterIsGood DEF QuotaInv, Committed, Typed
  <2>2. QED
    BY <1>1, <2>1 DEF Committed, Row
<1>7. LocksAreOwn' /\ WritesAreGood'
  BY <1>1, <1>3 DEF LocksAreOwn, WritesAreGood, LockedBy
<1>8. OwnCounters' /\ NotYet'
  BY <1>1 DEF QuotaInv, OwnCounters, NotYet, Counter
<1>9. OnTheWay'
  <2>1. ASSUME NEW m \in Mails, OnItsWay(m), NEW t, ChargedAt(m, t)
        PROVE  t <= clock + 1 /\ clock + 1 <= t + SendingTime
    <3> DEFINE k == Counter("global-daily", m)
    <3>1. "global-daily" \in RefundRules /\ "global-daily" \in Rules
      BY DEF RefundRules, Rules, DeliveryRules
    <3>2. k \in Keys /\ k[1] = "global-daily" /\ Unit(m, t) \in drawn[k]
      BY <1>2, <2>1, <3>1, CounterIsKey DEF Typed, ChargedAt
    <3>3. Unit(m, t).mail = m /\ Unit(m, t).at = t
      BY DEF Unit
    <3> HIDE DEF k
    <3>4. clock < t + SendingTime
      BY <2>1, <3>2, <3>3 DEF Tick
    <3>5. t \in Nat /\ t <= clock /\ clock \in Nat /\ SendingTime \in Nat
      BY <1>2, <2>1, WindowLength DEF ChargedAt, Typed
    <3>6. QED
      BY <3>4, <3>5
  <2>2. \A m \in Mails : \A t : OnItsWay(m) /\ ChargedAt(m, t) => ChargedAt(m, t)'
    BY <1>1, <2>1 DEF ChargedAt, Counter
  <2>3. QED
    BY <1>1, <2>2 DEF QuotaInv, OnTheWay, OnItsWay
<1>10. ChargedSoFar'
  <2>1. ASSUME NEW m \in Mails, pc[m] = "charging", NEW i \in 4 .. Place(m) - 1
        PROVE  FALSE
    <3>1. Placed(m) /\ First(pc[m]) = 3
      BY <2>1 DEF QuotaInv, AllPlaced, First
    <3>2. Counter(Order[i], m) \in DOMAIN writes[m]
      BY <2>1, <3>1 DEF Placed, Busy
    <3>3. QED
      BY <1>3, <3>2
  <2>2. QED
    BY <1>1, <2>1 DEF ChargedSoFar, Place, First
<1>11. QED
  BY <1>4, <1>5, <1>6, <1>7, <1>8, <1>9, <1>10 DEF QuotaInv

\* A charge that is let through.
LEMMA ChargeKeeps ==
    ASSUME QuotaInv, NEW m \in Mails, Charge(m)
    PROVE  QuotaInv'
<1> DEFINE k == NextKey(m)
<1>1. pc[m] \in {"requesting", "charging"} /\ Waiting(m) /\ ~Locked(k, m)
  BY DEF Charge
<1>2. pc[m] \in Busy
  BY <1>1 DEF Busy
<1>3. CASE Free(k, Allowed(m, k)) /\ Write(m, k, Charged(k, m))
  <2> DEFINE w == Charged(k, m)
  <2>1. Write(m, k, w) /\ Free(k, Allowed(m, k))
    BY <1>3
  <2> HIDE DEF k
  <2>2. k = NextKey(m)
    BY DEF k
  <2>3. /\ Place(m) \in First(pc[m]) + 1 .. Last(pc[m]) /\ Place(m) \in 1 .. 10
        /\ k[1] = Order[Place(m)] /\ k \in Keys /\ Allowed(m, k) = Most(k)
    BY <1>1, <1>2, <2>2, NextIsNew
  <2>4. Good(k, Row(k), drawn[k], clock) /\ Most(k) \in Nat \ {0} /\ clock \in Nat
    BY <2>3, MostIsPositive DEF QuotaInv, Committed, Typed
  <2>5. ~Of(m, drawn[k])
    <3>1. CASE pc[m] = "requesting"
      BY <2>3, <3>1 DEF QuotaInv, NotYet
    <3>2. CASE pc[m] = "charging"
      <4>1. Place(m) > 3
        BY <2>3, <3>2 DEF First
      <4>2. k[1] \in DeliveryRules
        BY <2>3, <4>1, OrderOfRules
      <4>3. QED
        BY <2>3, <3>2, <4>2 DEF QuotaInv, NotYet
    <3>3. QED
      BY <1>1, <3>1, <3>2
  <2>6. Free(k, Most(k))
    BY <2>1, <2>3
  <2> HIDE DEF w
  <2>7. w = Charged(k, m)
    BY DEF w
  <2>8. /\ Good(k, w.row, w.drawn, clock) /\ w \in WriteType /\ Unit(m, clock) \in w.drawn
        /\ \A n : Of(n, w.drawn) => n = m \/ Of(n, drawn[k])
        /\ \A d \in drawn[k] : clock < d.at + Window(k[1]) => d \in w.drawn
    BY <2>3, <2>4, <2>5, <2>6, <2>7, ChargedIsGood
  <2>9. Follows(m, k, w)
    BY <2>8 DEF Follows
  <2>10. ~Locked(k, m)
    BY <1>1, <2>2
  <2>11. QED
    BY <1>1, <1>2, <2>1, <2>2, <2>8, <2>9, <2>10, WriteKeeps
<1>4. CASE Rollback(m, "suppressed")
  <2>1. "suppressed" \in States
    BY DEF States
  <2> DEFINE none == << >>
  <2>2. /\ pc' = [pc EXCEPT ![m] = "suppressed"] /\ step' = [step EXCEPT ![m] = 1]
        /\ writes' = [writes EXCEPT ![m] = none]
        /\ UNCHANGED clock /\ UNCHANGED rows /\ UNCHANGED drawn /\ UNCHANGED job
    BY <1>4 DEF Rollback, End
  <2>3. DOMAIN none = {}
    OBVIOUS
  <2> HIDE DEF none
  <2>4. QED
    BY <1>1, <2>1, <2>2, <2>3, MoveKeeps
<1>5. QED
  BY <1>3, <1>4 DEF Charge

\* A transaction fails, or the process dies.
LEMMA FailKeeps ==
    ASSUME QuotaInv, NEW m \in Mails, Fail(m)
    PROVE  QuotaInv'
<1> DEFINE to == IF pc[m] = "sending" THEN "doubtful" ELSE "failed"
           none == << >>
<1>1. to \in States /\ to \in {"doubtful", "failed"}
  BY DEF States
<1>2. /\ pc' = [pc EXCEPT ![m] = to] /\ step' = [step EXCEPT ![m] = 1]
      /\ writes' = [writes EXCEPT ![m] = none]
      /\ UNCHANGED clock /\ UNCHANGED rows /\ UNCHANGED drawn /\ UNCHANGED job
  BY DEF Fail, Rollback, End
<1>3. DOMAIN none = {}
  OBVIOUS
<1> HIDE DEF none, to
<1>4. QED
  BY <1>1, <1>2, <1>3, MoveKeeps

\* A mail without an open transaction goes on.
LEMMA GoOnKeeps ==
    ASSUME QuotaInv, NEW m \in Mails, pc[m] \notin Busy, NEW to \in States,
           to \in {"sending", "refunding"} => OnItsWay(m),
           to \in {"new", "requesting", "charging"} => pc[m] = "new",
           to # "suppressed", pc' = [pc EXCEPT ![m] = to],
           UNCHANGED <<clock, rows, drawn, job, step, writes>>
    PROVE  QuotaInv'
<1> DEFINE none == writes[m]
<1>1. step[m] = 1 /\ DOMAIN none = {}
  BY DEF QuotaInv, AllPlaced, Placed
<1>2. step' = [step EXCEPT ![m] = 1] /\ writes' = [writes EXCEPT ![m] = none]
  BY <1>1 DEF QuotaInv, Typed
<1>3. UNCHANGED clock /\ UNCHANGED rows /\ UNCHANGED drawn /\ UNCHANGED job
  OBVIOUS
<1> HIDE DEF none
<1>4. QED
  BY <1>1, <1>2, <1>3, MoveKeeps

\* A mail is asked for.
LEMMA StartKeeps ==
    ASSUME QuotaInv, NEW m \in Mails, Start(m)
    PROVE  QuotaInv'
<1> DEFINE to == IF ChannelOf(job[m].category) = "authentication"
                 THEN "requesting" ELSE "charging"
<1>1. to \in States /\ to \in {"requesting", "charging"}
  BY DEF States
<1>2. pc[m] = "new" /\ pc[m] \notin Busy
  BY DEF Start, Busy
<1>3. /\ pc' = [pc EXCEPT ![m] = to]
      /\ UNCHANGED <<clock, rows, drawn, job, step, writes>>
  BY DEF Start
<1> HIDE DEF to
<1>4. QED
  BY <1>1, <1>2, <1>3, GoOnKeeps

\* The server answers, or does not.
LEMMA SendKeeps ==
    ASSUME QuotaInv, NEW m \in Mails, Send(m)
    PROVE  QuotaInv'
<1>1. PICK to \in {"sent", "refunding", "doubtful"} : pc' = [pc EXCEPT ![m] = to]
  BY DEF Send
<1>2. pc[m] \notin Busy /\ OnItsWay(m) /\ to \in States
  BY DEF Send, Busy, OnItsWay, States
<1>3. UNCHANGED <<clock, rows, drawn, job, step, writes>>
  BY DEF Send
<1>4. QED
  BY <1>1, <1>2, <1>3, GoOnKeeps

\* A charge or a refund is complete.
LEMMA CloseKeeps ==
    ASSUME QuotaInv, NEW m \in Mails, CloseCharge(m) \/ CloseRefund(m)
    PROVE  QuotaInv'
<1> DEFINE to == IF pc[m] = "requesting" THEN "charging"
                 ELSE IF pc[m] = "charging" THEN "sending" ELSE "refused"
<1>1. pc[m] \in Busy /\ ~Waiting(m)
  BY DEF CloseCharge, CloseRefund, Busy
<1>2. Commit(m, to)
  <2>1. CASE CloseCharge(m)
    <3>1. /\ Commit(m, IF pc[m] = "requesting" THEN "charging" ELSE "sending")
          /\ pc[m] \in {"requesting", "charging"}
      BY <2>1 DEF CloseCharge
    <3>2. to = IF pc[m] = "requesting" THEN "charging" ELSE "sending"
      BY <3>1
    <3>3. QED
      BY <3>1, <3>2
  <2>2. CASE CloseRefund(m)
    <3>1. Commit(m, "refused") /\ pc[m] = "refunding"
      BY <2>2 DEF CloseRefund
    <3>2. to = "refused"
      BY <3>1
    <3>3. QED
      BY <3>1, <3>2
  <2>3. QED
    BY <2>1, <2>2
<1>3. to = IF pc[m] = "requesting" THEN "charging"
           ELSE IF pc[m] = "charging" THEN "sending" ELSE "refused"
  OBVIOUS
<1> HIDE DEF to
<1>4. QED
  BY <1>1, <1>2, <1>3, CommitKeeps

\* A unit to be given back is still there, and its row with it, since nothing that
\* old is removed and nobody else takes it.
LEMMA UnitIsThere ==
    ASSUME QuotaInv, NEW m \in Mails, pc[m] = "refunding", Waiting(m),
           NEW k, k = NextKey(m)
    PROVE  /\ k \in Keys /\ k \in DOMAIN rows
           /\ \E u \in drawn[k] : u.mail = m /\ ~u.over
<1>1. pc[m] \in Busy /\ OnItsWay(m)
  BY DEF Busy, OnItsWay
<1>2. /\ Place(m) \in First(pc[m]) + 1 .. Last(pc[m]) /\ Place(m) \in 1 .. 10
      /\ k = Counter(Order[Place(m)], m) /\ k \in Keys
  BY <1>1, NextIsNew
<1>3. Order[Place(m)] \in RefundRules
  <2>1. Place(m) \in 8 .. 10
    BY <1>2 DEF First
  <2>2. QED
    BY <2>1, OrderOfRules
<1>4. PICK t : ChargedAt(m, t)
  BY <1>1 DEF QuotaInv, OnTheWay
<1> DEFINE u == Unit(m, t)
<1>5. u \in drawn[k] /\ u.mail = m /\ ~u.over
  BY <1>2, <1>3, <1>4 DEF ChargedAt, Unit
<1> HIDE DEF u
<1>6. Good(k, Row(k), drawn[k], clock)
  BY <1>2 DEF QuotaInv, Committed
<1>7. ASSUME k \notin DOMAIN rows PROVE FALSE
  <2>1. Current(drawn[k]) = {}
    BY <1>6, <1>7, RowTyped, NothingCurrent
  <2>2. QED
    BY <1>5, <2>1 DEF Current
<1>8. QED
  BY <1>2, <1>5, <1>7

\* A unit is given back.
LEMMA RefundKeeps ==
    ASSUME QuotaInv, NEW m \in Mails, Refund(m)
    PROVE  QuotaInv'
<1> DEFINE k == NextKey(m)
<1>1. pc[m] = "refunding" /\ Waiting(m) /\ ~Locked(k, m)
  BY DEF Refund
<1>2. pc[m] \in Busy
  BY <1>1 DEF Busy
<1>3. k \in DOMAIN rows => Write(m, k, Refunded(k, m))
  BY DEF Refund
<1> HIDE DEF k
<1>4. k = NextKey(m)
  BY DEF k
<1>5. /\ k \in Keys /\ k \in DOMAIN rows
      /\ \E u \in drawn[k] : u.mail = m /\ ~u.over
  BY <1>1, <1>4, UnitIsThere
<1>6. /\ Good(k, Row(k), drawn[k], clock) /\ Most(k) \in Nat /\ clock \in Nat
  BY <1>5, MostIsPositive DEF QuotaInv, Committed, Typed
<1> DEFINE w == Refunded(k, m)
<1>7. w = Refunded(k, m) /\ Write(m, k, w)
  BY <1>3, <1>5
<1> HIDE DEF w
<1>8. /\ Good(k, w.row, w.drawn, clock) /\ w \in WriteType
      /\ \A n : Of(n, w.drawn) => Of(n, drawn[k])
      /\ \A d \in drawn[k] : d.mail # m => d \in w.drawn
  BY <1>5, <1>6, <1>7, RefundedIsGood
<1>9. Follows(m, k, w)
  BY <1>8 DEF Follows
<1>10. QED
  BY <1>1, <1>2, <1>4, <1>7, <1>9, WriteKeeps

\* Every step keeps the invariant.
LEMMA StepKeeps == QuotaInv /\ [QuotaNext]_vars => QuotaInv'
<1> SUFFICES ASSUME QuotaInv, [QuotaNext]_vars PROVE QuotaInv'
  OBVIOUS
<1>1. CASE Prune
  BY <1>1, PruneKeeps
<1>2. CASE Tick
  BY <1>2, TickKeeps
<1>3. ASSUME NEW m \in Mails, QuotaStep(m) \/ Fail(m) PROVE QuotaInv'
  <2>1. CASE Start(m)
    BY <2>1, StartKeeps
  <2>2. CASE Charge(m)
    BY <2>2, ChargeKeeps
  <2>3. CASE CloseCharge(m) \/ CloseRefund(m)
    BY <2>3, CloseKeeps
  <2>4. CASE Send(m)
    BY <2>4, SendKeeps
  <2>5. CASE Refund(m)
    BY <2>5, RefundKeeps
  <2>6. CASE Fail(m)
    BY <2>6, FailKeeps
  <2>7. QED
    BY <1>3, <2>1, <2>2, <2>3, <2>4, <2>5, <2>6 DEF QuotaStep
<1>4. CASE UNCHANGED vars
  BY <1>4 DEF vars, QuotaInv, Typed, AllPlaced, Placed, Place, First, Last, Counter,
              Committed, Row, LocksAreOwn, LockedBy, WritesAreGood, Follows, OwnCounters,
              NotYet, OnTheWay, OnItsWay, ChargedAt, ChargedSoFar
<1>5. QED
  BY <1>1, <1>2, <1>3, <1>4 DEF QuotaNext

\* The invariant holds of every state.
THEOREM QuotaInvariant == QuotaSpec => []QuotaInv
<1>1. QuotaInit => QuotaInv
  BY InitQuota
<1>2. QuotaInv /\ [QuotaNext]_vars => QuotaInv'
  BY StepKeeps
<1>3. QED
  BY <1>1, <1>2, PTL DEF QuotaSpec

-----------------------------------------------------------------------------
(* What the invariant says of the properties                               *)

\* States of the invariant are well typed.
LEMMA TypesFollow == QuotaInv => QuotaTypeOK
<1> SUFFICES ASSUME QuotaInv PROVE QuotaTypeOK
  OBVIOUS
<1>1. Typed
  BY DEF QuotaInv
<1>2. \A k \in DOMAIN rows : rows[k] \in [count : Nat, last : Nat]
  <2>1. \A k \in DOMAIN rows : k \in Keys /\ rows[k] \in RowType
    BY <1>1, RowTyped DEF QuotaInv, Committed, Good, Typed
  <2>2. QED
    BY <2>1 DEF RowType
<1>3. ASSUME NEW m \in Mails
      PROVE  /\ step[m] \in 1 .. Len(Charges(m)) + 1
             /\ DOMAIN writes[m] \subseteq {Charges(m)[i] : i \in 1 .. step[m] - 1}
  <2>1. Placed(m) /\ step[m] \in Nat \ {0}
    BY <1>1 DEF QuotaInv, AllPlaced, Typed
  <2>2. CASE pc[m] \in Busy
    <3>1. First(pc[m]) \in Nat /\ Last(pc[m]) \in Nat
      BY DEF First, Last
    <3>2. /\ Len(Charges(m)) = Last(pc[m]) - First(pc[m])
          /\ \A i \in 1 .. Len(Charges(m)) :
                 Charges(m)[i] = Counter(Order[First(pc[m]) + i], m)
      BY <2>1, <2>2, NextPlace
    <3>3. Place(m) <= Last(pc[m]) + 1 /\ Place(m) = First(pc[m]) + step[m]
      BY <2>1, <2>2 DEF Placed, Place
    <3>4. step[m] \in 1 .. Len(Charges(m)) + 1
      BY <2>1, <3>1, <3>2, <3>3
    <3>5. ASSUME NEW k \in DOMAIN writes[m]
          PROVE  \E i \in 1 .. step[m] - 1 : k = Charges(m)[i]
      <4>1. PICK i \in First(pc[m]) + 1 .. Place(m) - 1 : k = Counter(Order[i], m)
        BY <2>1, <2>2 DEF Placed
      <4> DEFINE j == i - First(pc[m])
      <4>2. j \in 1 .. step[m] - 1 /\ j \in 1 .. Len(Charges(m)) /\ First(pc[m]) + j = i
        BY <2>1, <3>1, <3>2, <3>3, <4>1
      <4> HIDE DEF j
      <4>3. k = Charges(m)[j]
        BY <3>2, <4>1, <4>2
      <4>4. QED
        BY <4>2, <4>3
    <3>6. QED
      BY <3>4, <3>5
  <2>3. CASE pc[m] \notin Busy
    <3> DEFINE order == CASE pc[m] = "requesting" -> RequestOrder
                          [] pc[m] = "charging"   -> DeliveryOrder
                          [] pc[m] = "refunding"  -> RefundOrder
                          [] OTHER -> << >>
    <3>1. order = << >>
      BY <2>3 DEF Busy
    <3> HIDE DEF order
    <3>2. Charges(m) = [i \in DOMAIN order |-> Counter(order[i], m)]
      BY DEF Charges, order
    <3>3. DOMAIN order = 1 .. 0
      BY <3>1
    <3>4. Charges(m) = [i \in 1 .. 0 |-> Counter(order[i], m)]
      BY <3>2, <3>3
    <3>5. Len(Charges(m)) = 0
      BY <3>4
    <3>6. QED
      BY <2>1, <2>3, <3>5 DEF Placed
  <2>4. QED
    BY <2>2, <2>3
<1>4. QED
  BY <1>1, <1>2, <1>3 DEF QuotaTypeOK, Typed, Units, States, JobType

\* consumeRule and releaseRule keep rows of numbers under the keys they build, and a
\* transaction writes only the counters before its place.
THEOREM QuotaTypes == QuotaSpec => []QuotaTypeOK
BY QuotaInvariant, TypesFollow, PTL

\* What lies in the window of a counter is not over, so that its row counts it.
LEMMA AllowanceFollows == QuotaInv => WithinAllowance
<1> SUFFICES ASSUME QuotaInv, NEW k \in Keys,
                    NEW d \in {x \in drawn[k] : x.at + Window(k[1]) > clock}
             PROVE  Cardinality({x \in drawn[k] : x.at + Window(k[1]) > clock})
                        <= Allowed(d.mail, k)
  BY DEF WithinAllowance
<1> DEFINE inWindow == {x \in drawn[k] : x.at + Window(k[1]) > clock}
           C == Current(drawn[k])
<1>1. Typed /\ Good(k, Row(k), drawn[k], clock)
  BY DEF QuotaInv, Committed
<1>2. Window(k[1]) \in Nat /\ k[1] \in Rules /\ clock \in Nat
  BY <1>1, RuleOfKey, WindowLength DEF Typed
<1>3. inWindow \subseteq C
  BY <1>1, <1>2 DEF Good, Current, Units
<1>4. IsFiniteSet(C) /\ Cardinality(C) <= Most(k) /\ Most(k) \in Nat
  BY <1>1, MostIsPositive DEF Good
<1>5. Allowed(d.mail, k) = Most(k)
  <2>1. d \in drawn[k] /\ d.mail \in Mails
    BY <1>1 DEF Good, Units
  <2>2. k = Counter(k[1], d.mail)
    BY <2>1 DEF QuotaInv, OwnCounters, Of
  <2>3. job[d.mail] \in JobType
    BY <1>1, <2>1 DEF Typed
  <2>4. QED
    BY <1>2, <2>1, <2>2, <2>3, CounterIsKey
<1> HIDE DEF inWindow, C
<1>6. IsFiniteSet(inWindow) /\ Cardinality(inWindow) <= Cardinality(C)
  BY <1>3, <1>4, FS_Subset
<1>7. Cardinality(C) \in Nat /\ Cardinality(inWindow) \in Nat
  BY <1>4, <1>6, FS_CardinalityType
<1>8. Cardinality(inWindow) <= Most(k)
  BY <1>4, <1>6, <1>7
<1>9. QED
  BY <1>5, <1>8 DEF inWindow

\* reserveTransactionalEmail and consumeAuthEmailRequest let no more mails through a
\* counter in any of its windows than its rule allows, however many charge it at once.
THEOREM MailsWithinAllowance == QuotaSpec => []WithinAllowance
BY QuotaInvariant, AllowanceFollows, PTL

\* A row counts what is not over; a suppressed mail has no units with deliveries' counters.
LEMMA CountsFollow == QuotaInv => CountIsBacked
<1> SUFFICES ASSUME QuotaInv PROVE CountIsBacked
  OBVIOUS
<1>1. Typed
  BY DEF QuotaInv
<1>2. ASSUME NEW k \in DOMAIN rows
      PROVE  rows[k].count = Cardinality({d \in drawn[k] : ~d.over})
  <2>1. k \in Keys /\ Row(k) = rows[k]
    BY <1>1, RowTyped DEF Typed
  <2>2. QED
    BY <2>1 DEF QuotaInv, Committed, Good, Current
<1>3. ASSUME NEW k \in Keys, NEW d \in drawn[k], pc[d.mail] = "suppressed"
      PROVE  k[1] \in RequestRules
  <2>1. d.mail \in Mails
    BY <1>1 DEF Typed, Units
  <2>2. k[1] \notin DeliveryRules
    BY <1>3, <2>1 DEF QuotaInv, NotYet, Of
  <2>3. QED
    BY <2>2, RuleOfKey DEF Rules
<1>4. QED
  BY <1>2, <1>3 DEF CountIsBacked

\* A refund takes back its own unit and a delivery refused at one counter leaves nothing
\* in those before it: what a row counts are mails charged to it (releaseRule, and the
\* transaction around the rules of a delivery).
THEOREM CountsAreBacked == QuotaSpec => []CountIsBacked
BY QuotaInvariant, CountsFollow, PTL

\* Who waits stands before whoever holds the row it waits for.
LEMMA WaitsForLater ==
    ASSUME QuotaInv, NEW m \in Mails, Waiting(m), NEW n \in Mails,
           LockedBy(NextKey(m), n)
    PROVE  Place(m) \in 1 .. 10 /\ Place(n) \in Nat /\ Place(m) < Place(n)
<1> DEFINE k == NextKey(m)
<1>1. \A q \in Mails : /\ Placed(q) /\ step[q] \in Nat \ {0} /\ job[q] \in JobType
                       /\ First(pc[q]) \in 0 .. 7 /\ Last(pc[q]) \in 0 .. 10
  BY DEF QuotaInv, AllPlaced, Typed, First, Last
<1>2. pc[m] \in Busy
  <2>1. ASSUME pc[m] \notin Busy PROVE FALSE
    <3>1. step[m] = 1 /\ QuotaTypeOK
      BY <1>1, <2>1, TypesFollow DEF Placed
    <3> DEFINE order == CASE pc[m] = "requesting" -> RequestOrder
                          [] pc[m] = "charging"   -> DeliveryOrder
                          [] pc[m] = "refunding"  -> RefundOrder
                          [] OTHER -> << >>
    <3>2. order = << >>
      BY <2>1 DEF Busy
    <3> HIDE DEF order
    <3>3. Charges(m) = [i \in DOMAIN order |-> Counter(order[i], m)]
      BY DEF Charges, order
    <3>4. DOMAIN order = 1 .. 0
      BY <3>2
    <3>5. Charges(m) = [i \in 1 .. 0 |-> Counter(order[i], m)]
      BY <3>3, <3>4
    <3>6. Len(Charges(m)) = 0
      BY <3>5
    <3>7. QED
      BY <3>1, <3>6 DEF Waiting
  <2>2. QED
    BY <2>1
<1>3. /\ Place(m) \in 1 .. 10 /\ k = Counter(Order[Place(m)], m)
      /\ k[1] = Order[Place(m)]
  BY <1>2, NextIsNew
<1>4. k \in DOMAIN writes[n]
  BY DEF LockedBy
<1>5. PICK j \in First(pc[n]) + 1 .. Place(n) - 1 : k = Counter(Order[j], n)
  BY <1>1, <1>4 DEF Placed
<1>6. Place(n) \in Nat /\ Place(n) <= 11 /\ j \in 1 .. 10 /\ j < Place(n)
  BY <1>1, <1>4, <1>5 DEF Placed, Place
<1>7. k[1] = Order[j]
  BY <1>1, <1>5, <1>6, OrderOfRules, CounterIsKey
<1>8. j = Place(m)
  BY <1>3, <1>6, <1>7, OrderOfRules
<1>9. QED
  BY <1>3, <1>6, <1>8

\* Ten places do not suffice to stand before somebody forever.
LEMMA NoEndlessClimb ==
    ASSUME NEW S, S # {}, NEW place, \A m \in S : place[m] \in 1 .. 10,
           \A m \in S : \E n \in S : place[m] < place[n]
    PROVE  FALSE
<1> DEFINE Beyond(i) == \E m \in S : place[m] > i
<1>1. Beyond(0)
  OBVIOUS
<1>2. ASSUME NEW i \in 0 .. 9, Beyond(i) PROVE Beyond(i + 1)
  <2>1. PICK m \in S : place[m] > i
    BY <1>2
  <2>2. PICK n \in S : place[m] < place[n]
    OBVIOUS
  <2>3. place[m] \in Nat /\ place[n] \in Nat /\ place[n] > i + 1
    BY <2>1, <2>2
  <2>4. QED
    BY <2>3
<1>3. ASSUME Beyond(10) PROVE FALSE
  <2>1. PICK m \in S : place[m] > 10
    BY <1>3
  <2>2. QED
    BY <2>1
<1> HIDE DEF Beyond
<1>4. Beyond(1) /\ Beyond(2) /\ Beyond(3) /\ Beyond(4) /\ Beyond(5)
  BY <1>1, <1>2
<1>5. Beyond(6) /\ Beyond(7) /\ Beyond(8) /\ Beyond(9) /\ Beyond(10)
  BY <1>2, <1>4
<1>6. QED
  BY <1>3, <1>5

\* So no set of mails waits for itself.
LEMMA CyclesFollow == QuotaInv => NoLockCycle
<1> SUFFICES ASSUME QuotaInv, NEW S \in (SUBSET Mails) \ {{}},
                    \A m \in S : /\ Waiting(m)
                                 /\ \E n \in S \ {m} : LockedBy(NextKey(m), n)
             PROVE  FALSE
  BY DEF NoLockCycle
<1>1. \A m \in S : /\ Place(m) \in 1 .. 10
                   /\ \E n \in S : Place(m) < Place(n)
  <2>1. ASSUME NEW m \in S
        PROVE  Place(m) \in 1 .. 10 /\ \E n \in S : Place(m) < Place(n)
    <3>1. PICK n \in S : LockedBy(NextKey(m), n)
      OBVIOUS
    <3>2. m \in Mails /\ n \in Mails /\ Waiting(m)
      OBVIOUS
    <3>3. QED
      BY <3>1, <3>2, WaitsForLater
  <2>2. QED
    BY <2>1
<1> DEFINE place == [m \in S |-> Place(m)]
<1>2. /\ S # {} /\ \A m \in S : place[m] \in 1 .. 10
      /\ \A m \in S : \E n \in S : place[m] < place[n]
  BY <1>1
<1> HIDE DEF place
<1>3. QED
  BY <1>2, NoEndlessClimb

\* Charges and refunds lock the counters they share in the same order, so that they never
\* wait for each other in a circle, whichever mails are under way.
THEOREM NoDeadlock == QuotaSpec => []NoLockCycle
BY QuotaInvariant, CyclesFollow, PTL

-----------------------------------------------------------------------------
(* The quota implements the allowance: what a transaction wrote            *)

\* What a transaction wrote is what it would write now, and is let through now: its
\* counters stay as it found them.  A refund has written all counters before its place.
Exact(m) ==
    /\ \A k \in DOMAIN writes[m] :
           IF pc[m] = "refunding" THEN writes[m][k] = Refunded(k, m)
           ELSE Free(k, Most(k)) /\ writes[m][k] = Charged(k, m)
    /\ pc[m] = "refunding" =>
           \A i \in 8 .. Place(m) - 1 : Counter(Order[i], m) \in DOMAIN writes[m]
WritesAreExact == \A m \in Mails : Exact(m)

\* It stays so as long as the time, the mail and the counters it wrote stay.
LEMMA ExactStays ==
    ASSUME NEW m \in Mails, Exact(m), UNCHANGED clock,
           UNCHANGED pc[m], UNCHANGED job[m], UNCHANGED step[m], UNCHANGED writes[m],
           \A k \in DOMAIN writes[m] :
               /\ UNCHANGED drawn[k] /\ UNCHANGED Row(k)
               /\ k \in DOMAIN rows' <=> k \in DOMAIN rows
    PROVE  Exact(m)'
<1>1. \A k \in DOMAIN writes[m] :
          /\ Free(k, Most(k))' = Free(k, Most(k))
          /\ Charged(k, m)' = Charged(k, m) /\ Refunded(k, m)' = Refunded(k, m)
  BY DEF Free, Most, Charged, Refunded, Quiet
<1>2. Place(m)' = Place(m) /\ \A i : Counter(Order[i], m)' = Counter(Order[i], m)
  BY DEF Place, First, Counter
<1>3. QED
  BY <1>1, <1>2 DEF Exact

\* A mail without an open transaction wrote nothing.
LEMMA ExactWithout ==
    ASSUME NEW m \in Mails, DOMAIN writes'[m] = {}, step'[m] = 1
    PROVE  Exact(m)'
<1>1. pc'[m] = "refunding" => Place(m)' = 8
  BY DEF Place, First
<1>2. QED
  BY <1>1 DEF Exact

\* A mail moves on and leaves its transaction, without effect on the counters that
\* others wrote.
LEMMA ExactMove ==
    ASSUME QuotaInv, WritesAreExact, NEW m \in Mails, UNCHANGED clock, UNCHANGED job,
           NEW to, pc' = [pc EXCEPT ![m] = to], step' = [step EXCEPT ![m] = 1],
           NEW none, DOMAIN none = {}, writes' = [writes EXCEPT ![m] = none],
           \A n \in Mails \ {m} : \A k \in DOMAIN writes[n] :
               /\ UNCHANGED drawn[k] /\ UNCHANGED Row(k)
               /\ k \in DOMAIN rows' <=> k \in DOMAIN rows
    PROVE  WritesAreExact'
<1>1. Typed
  BY DEF QuotaInv
<1>2. /\ step'[m] = 1 /\ DOMAIN writes'[m] = {}
      /\ \A n \in Mails \ {m} : /\ UNCHANGED pc[n] /\ UNCHANGED step[n]
                                /\ UNCHANGED writes[n] /\ UNCHANGED job[n]
  BY <1>1 DEF Typed
<1>3. Exact(m)'
  BY <1>2, ExactWithout
<1>4. ASSUME NEW n \in Mails \ {m} PROVE Exact(n)'
  <2>1. Exact(n)
    BY <1>4 DEF WritesAreExact
  <2>2. /\ UNCHANGED pc[n] /\ UNCHANGED step[n] /\ UNCHANGED writes[n]
        /\ UNCHANGED job[n]
    BY <1>2, <1>4
  <2>3. QED
    BY <1>4, <2>1, <2>2, ExactStays
<1>5. QED
  BY <1>3, <1>4 DEF WritesAreExact

\* A transaction writes what it is to write at its next counter.
LEMMA ExactWrite ==
    ASSUME QuotaInv, WritesAreExact, NEW m \in Mails, pc[m] \in Busy, Waiting(m),
           NEW k, k = NextKey(m), NEW w, Write(m, k, w),
           IF pc[m] = "refunding" THEN w = Refunded(k, m)
           ELSE Free(k, Most(k)) /\ w = Charged(k, m)
    PROVE  WritesAreExact'
<1> DEFINE table == [l \in DOMAIN writes[m] \cup {k} |->
                        IF l = k THEN w ELSE writes[m][l]]
<1>1. UNCHANGED clock /\ UNCHANGED rows /\ UNCHANGED drawn /\ UNCHANGED pc /\ UNCHANGED job
  BY DEF Write
<1>2. Typed /\ Exact(m)
  BY DEF QuotaInv, WritesAreExact
<1>3. step' = [step EXCEPT ![m] = @ + 1] /\ writes' = [writes EXCEPT ![m] = table]
  BY DEF Write
<1>4. k = Counter(Order[Place(m)], m) /\ k \notin DOMAIN writes[m]
      /\ Place(m) \in 1 .. 10
  BY NextIsNew
<1>5. /\ DOMAIN table = DOMAIN writes[m] \cup {k} /\ table[k] = w
      /\ \A l \in DOMAIN writes[m] : table[l] = writes[m][l]
  BY <1>4
<1> HIDE DEF table
<1>6. /\ step'[m] = step[m] + 1 /\ writes'[m] = table
      /\ \A n \in Mails \ {m} : UNCHANGED step[n] /\ UNCHANGED writes[n]
  BY <1>2, <1>3 DEF Typed
<1>7. Place(m)' = Place(m) + 1
  <2>1. step[m] \in Nat /\ First(pc[m]) \in Nat
    BY <1>2 DEF Typed, First
  <2>2. QED
    BY <1>1, <1>6, <2>1 DEF Place
<1>8. Exact(m)'
  <2>1. \A l : /\ Free(l, Most(l))' = Free(l, Most(l))
               /\ Charged(l, m)' = Charged(l, m) /\ Refunded(l, m)' = Refunded(l, m)
    BY <1>1 DEF Free, Most, Charged, Refunded, Quiet, Row
  <2>2. \A l \in DOMAIN writes'[m] :
            IF pc[m] = "refunding" THEN writes'[m][l] = Refunded(l, m)
            ELSE Free(l, Most(l)) /\ writes'[m][l] = Charged(l, m)
    BY <1>2, <1>5, <1>6 DEF Exact
  <2>3. ASSUME pc[m] = "refunding", NEW i \in 8 .. Place(m)
        PROVE  Counter(Order[i], m) \in DOMAIN writes'[m]
    <3>1. CASE i = Place(m)
      BY <1>4, <1>5, <1>6, <3>1
    <3>2. CASE i # Place(m)
      BY <1>2, <1>4, <1>5, <1>6, <2>3, <3>2 DEF Exact
    <3>3. QED
      BY <3>1, <3>2
  <2>4. \A i : Counter(Order[i], m)' = Counter(Order[i], m)
    BY <1>1 DEF Counter
  <2>5. Place(m)' - 1 = Place(m)
    BY <1>4, <1>7
  <2>6. QED
    BY <1>1, <2>1, <2>2, <2>3, <2>4, <2>5 DEF Exact
<1>9. ASSUME NEW n \in Mails \ {m} PROVE Exact(n)'
  <2>1. Exact(n) /\ UNCHANGED pc[n] /\ UNCHANGED step[n] /\ UNCHANGED writes[n]
        /\ UNCHANGED job[n]
    BY <1>1, <1>6, <1>9 DEF WritesAreExact
  <2>2. \A l \in DOMAIN writes[n] :
            /\ UNCHANGED drawn[l] /\ UNCHANGED Row(l)
            /\ l \in DOMAIN rows' <=> l \in DOMAIN rows
    BY <1>1 DEF Row
  <2>3. QED
    BY <1>1, <1>9, <2>1, <2>2, ExactStays
<1>10. QED
  BY <1>8, <1>9 DEF WritesAreExact

\* Counters that another transaction wrote are not written by this one.
LEMMA NotWritten ==
    ASSUME QuotaInv, NEW m \in Mails, NEW n \in Mails \ {m}, NEW k \in DOMAIN writes[n]
    PROVE  k \in Keys /\ k \notin DOMAIN writes[m]
<1>1. k \in Keys
  BY WrittenKeys
<1>2. QED
  BY <1>1 DEF QuotaInv, LocksAreOwn, LockedBy

\* A transaction ends, with effect or without.
LEMMA ExactCommit ==
    ASSUME QuotaInv, WritesAreExact, NEW m \in Mails, NEW to, Commit(m, to)
    PROVE  WritesAreExact'
<1> DEFINE none == << >>
           new == writes[m]
<1>1. /\ pc' = [pc EXCEPT ![m] = to] /\ step' = [step EXCEPT ![m] = 1]
      /\ writes' = [writes EXCEPT ![m] = none] /\ UNCHANGED clock /\ UNCHANGED job
  BY DEF Commit, End
<1>2. /\ DOMAIN rows' = DOMAIN rows \cup DOMAIN new
      /\ \A k \in DOMAIN rows' : rows'[k] = IF k \in DOMAIN new THEN new[k].row ELSE rows[k]
      /\ drawn' = [k \in Keys |-> IF k \in DOMAIN new THEN new[k].drawn ELSE drawn[k]]
  BY DEF Commit
<1>3. DOMAIN none = {}
  OBVIOUS
<1> HIDE DEF none
<1>4. ASSUME NEW n \in Mails \ {m}, NEW k \in DOMAIN writes[n]
      PROVE  /\ UNCHANGED drawn[k] /\ UNCHANGED Row(k)
             /\ k \in DOMAIN rows' <=> k \in DOMAIN rows
  <2>1. k \in Keys /\ k \notin DOMAIN new
    BY <1>4, NotWritten
  <2>2. k \in DOMAIN rows' <=> k \in DOMAIN rows
    BY <1>2, <2>1
  <2>3. k \in DOMAIN rows => rows'[k] = rows[k]
    BY <1>2, <2>1
  <2>4. drawn'[k] = drawn[k]
    BY <1>2, <2>1
  <2>5. Row(k)' = Row(k)
    BY <2>2, <2>3 DEF Row
  <2>6. QED
    BY <2>2, <2>4, <2>5
<1>5. QED
  BY <1>1, <1>3, <1>4, ExactMove

\* What a mail does that changes no counter.
LEMMA ExactQuiet ==
    ASSUME QuotaInv, WritesAreExact, NEW m \in Mails, UNCHANGED <<clock, rows, drawn, job>>,
           NEW to, pc' = [pc EXCEPT ![m] = to], step' = [step EXCEPT ![m] = 1],
           NEW none, DOMAIN none = {}, writes' = [writes EXCEPT ![m] = none]
    PROVE  WritesAreExact'
<1>1. \A k : /\ UNCHANGED drawn[k] /\ UNCHANGED Row(k)
             /\ k \in DOMAIN rows' <=> k \in DOMAIN rows
  BY DEF Row
<1>2. \A n \in Mails \ {m} : \A k \in DOMAIN writes[n] :
          /\ UNCHANGED drawn[k] /\ UNCHANGED Row(k)
          /\ k \in DOMAIN rows' <=> k \in DOMAIN rows
  BY <1>1
<1>3. UNCHANGED clock /\ UNCHANGED job
  OBVIOUS
<1>4. QED
  BY <1>2, <1>3, ExactMove

\* Every step keeps what is written exact.
LEMMA ExactStep ==
    QuotaInv /\ WritesAreExact /\ [QuotaNext]_vars => WritesAreExact'
<1> SUFFICES ASSUME QuotaInv, WritesAreExact, [QuotaNext]_vars PROVE WritesAreExact'
  OBVIOUS
<1> DEFINE none == << >>
<1>1. DOMAIN none = {}
  OBVIOUS
<1>2. \A m \in Mails : pc[m] \notin Busy =>
          /\ DOMAIN writes[m] = {} /\ step = [step EXCEPT ![m] = 1]
          /\ writes = [writes EXCEPT ![m] = writes[m]]
  BY DEF QuotaInv, AllPlaced, Placed, Typed
<1>3. ASSUME NEW m \in Mails, NEW to, Rollback(m, to) PROVE WritesAreExact'
  <2>1. /\ UNCHANGED <<clock, rows, drawn, job>> /\ pc' = [pc EXCEPT ![m] = to]
        /\ step' = [step EXCEPT ![m] = 1] /\ writes' = [writes EXCEPT ![m] = none]
    BY <1>3 DEF Rollback, End
  <2> HIDE DEF none
  <2>2. QED
    BY <1>1, <2>1, ExactQuiet
<1>4. ASSUME NEW m \in Mails, NEW to, pc[m] \notin Busy, pc' = [pc EXCEPT ![m] = to],
             UNCHANGED <<clock, rows, drawn, job, step, writes>>
      PROVE  WritesAreExact'
  <2> DEFINE own == writes[m]
  <2>1. /\ DOMAIN own = {} /\ step' = [step EXCEPT ![m] = 1]
        /\ writes' = [writes EXCEPT ![m] = own]
    BY <1>2, <1>4
  <2>2. UNCHANGED <<clock, rows, drawn, job>>
    BY <1>4
  <2> HIDE DEF own
  <2>3. QED
    BY <1>4, <2>1, <2>2, ExactQuiet
<1>5. ASSUME NEW m \in Mails, Start(m) PROVE WritesAreExact'
  BY <1>4, <1>5 DEF Start, Busy
<1>6. ASSUME NEW m \in Mails, Send(m) PROVE WritesAreExact'
  <2>1. PICK to \in {"sent", "refunding", "doubtful"} : pc' = [pc EXCEPT ![m] = to]
    BY <1>6 DEF Send
  <2>2. pc[m] \notin Busy /\ UNCHANGED <<clock, rows, drawn, job, step, writes>>
    BY <1>6 DEF Send, Busy
  <2>3. QED
    BY <1>4, <2>1, <2>2
<1>7. ASSUME NEW m \in Mails, Charge(m) PROVE WritesAreExact'
  <2> DEFINE k == NextKey(m)
             w == Charged(k, m)
  <2>1. pc[m] \in Busy /\ pc[m] # "refunding" /\ Waiting(m)
    BY <1>7 DEF Charge, Busy
  <2>2. Allowed(m, k) = Most(k)
    BY <2>1, NextIsNew
  <2>3. CASE Free(k, Most(k)) /\ Write(m, k, w)
    <3>1. k = NextKey(m) /\ w = Charged(k, m) /\ Free(k, Most(k)) /\ Write(m, k, w)
      BY <2>3
    <3> HIDE DEF k, w
    <3>2. QED
      BY <2>1, <3>1, ExactWrite
  <2>4. CASE Rollback(m, "suppressed")
    BY <1>3, <2>4
  <2>5. QED
    BY <1>7, <2>2, <2>3, <2>4 DEF Charge
<1>8. ASSUME NEW m \in Mails, Refund(m) PROVE WritesAreExact'
  <2> DEFINE k == NextKey(m)
             w == Refunded(k, m)
  <2>1. pc[m] \in Busy /\ pc[m] = "refunding" /\ Waiting(m)
    BY <1>8 DEF Refund, Busy
  <2>2. k \in DOMAIN rows
    BY <2>1, UnitIsThere
  <2>3. k = NextKey(m) /\ w = Refunded(k, m) /\ Write(m, k, w)
    BY <1>8, <2>2 DEF Refund
  <2> HIDE DEF k, w
  <2>4. QED
    BY <2>1, <2>3, ExactWrite
<1>9. ASSUME NEW m \in Mails, CloseCharge(m) \/ CloseRefund(m) PROVE WritesAreExact'
  <2>1. PICK to : Commit(m, to)
    BY <1>9 DEF CloseCharge, CloseRefund
  <2>2. QED
    BY <2>1, ExactCommit
<1>10. ASSUME NEW m \in Mails, Fail(m) PROVE WritesAreExact'
  BY <1>3, <1>10 DEF Fail
<1>11. CASE Prune
  <2>1. /\ UNCHANGED clock /\ UNCHANGED pc /\ UNCHANGED job /\ UNCHANGED step
        /\ UNCHANGED writes
    BY <1>11 DEF Prune
  <2>2. /\ DOMAIN rows' = DOMAIN rows \ Old
        /\ \A k \in DOMAIN rows' : rows'[k] = rows[k]
        /\ \A k \in Keys \ Old : drawn'[k] = drawn[k]
    BY <1>11 DEF Prune
  <2>3. ASSUME NEW m \in Mails PROVE Exact(m)'
    <3>1. ASSUME NEW k \in DOMAIN writes[m]
          PROVE  /\ UNCHANGED drawn[k] /\ UNCHANGED Row(k)
                 /\ k \in DOMAIN rows' <=> k \in DOMAIN rows
      <4>1. k \in Keys /\ k \notin Old
        BY <3>1, WrittenKeys DEF Old, LockedBy
      <4>2. QED
        BY <2>2, <4>1 DEF Row
    <3>2. Exact(m) /\ UNCHANGED pc[m] /\ UNCHANGED step[m] /\ UNCHANGED writes[m]
          /\ UNCHANGED job[m]
      BY <2>1 DEF WritesAreExact
    <3>3. QED
      BY <2>1, <3>1, <3>2, ExactStays
  <2>4. QED
    BY <2>3 DEF WritesAreExact
<1>12. CASE Tick
  <2>1. /\ UNCHANGED pc /\ UNCHANGED job /\ UNCHANGED step /\ UNCHANGED writes
        /\ \A m \in Mails : DOMAIN writes[m] = {}
    BY <1>12 DEF Tick
  <2>2. QED
    BY <2>1 DEF WritesAreExact, Exact, Place, First, Counter
<1>13. CASE UNCHANGED vars
  BY <1>13 DEF vars, WritesAreExact, Exact, Place, First, Counter, Free, Most, Charged,
               Refunded, Quiet, Row
<1>14. QED
  BY <1>5, <1>6, <1>7, <1>8, <1>9, <1>10, <1>11, <1>12, <1>13 DEF QuotaNext, QuotaStep

-----------------------------------------------------------------------------
(* The quota implements the allowance: step by step                        *)

\* What the allowance sees of the units of a counter.
Seen(D) == {[mail |-> d.mail, at |-> d.at] : d \in D}
Claim(m, t) == [mail |-> m, at |-> t]
HeldNow == [k \in Keys |-> Seen(drawn[k])]
PhaseNow == [m \in Mails |-> Phase(m)]
OrderNow == [m \in Mails |-> [request |-> RequestLimits(m),
                              delivery |-> Limits(m, DeliveryRules),
                              daily |-> {Counter(r, m) : r \in RefundRules}]]

\* That a window began anew is not seen.
LEMMA OverIsNotSeen ==
    ASSUME NEW D, D \subseteq Units
    PROVE  Seen({[d EXCEPT !.over = TRUE] : d \in D}) = Seen(D)
<1> DEFINE E == {[d EXCEPT !.over = TRUE] : d \in D}
<1>1. \A d \in D : [d EXCEPT !.over = TRUE].mail = d.mail
                   /\ [d EXCEPT !.over = TRUE].at = d.at
  BY DEF Units
<1>2. Seen(E) \subseteq Seen(D)
  BY <1>1 DEF Seen
<1>3. Seen(D) \subseteq Seen(E)
  <2>1. ASSUME NEW d \in D
        PROVE  [mail |-> d.mail, at |-> d.at] \in Seen(E)
    <3>1. [d EXCEPT !.over = TRUE] \in E
      OBVIOUS
    <3>2. [mail |-> [d EXCEPT !.over = TRUE].mail, at |-> [d EXCEPT !.over = TRUE].at]
              \in Seen(E)
      BY <3>1 DEF Seen
    <3>3. QED
      BY <1>1, <3>2
  <2>2. QED
    BY <2>1 DEF Seen
<1>4. QED
  BY <1>2, <1>3

\* A charge adds a claim of the mail.
LEMMA ChargedIsSeen ==
    ASSUME NEW k \in Keys, NEW m \in Mails, drawn[k] \subseteq Units
    PROVE  Seen(Charged(k, m).drawn) = Seen(drawn[k]) \cup {Claim(m, clock)}
<1> DEFINE unit == [mail |-> m, at |-> clock, over |-> FALSE]
           E == {[d EXCEPT !.over = TRUE] : d \in drawn[k]}
<1>1. \A D : Seen(D \cup {unit}) = Seen(D) \cup {Claim(m, clock)}
  <2>1. \A D, x : Seen(D \cup {x}) = Seen(D) \cup {[mail |-> x.mail, at |-> x.at]}
    BY DEF Seen
  <2>2. [mail |-> unit.mail, at |-> unit.at] = Claim(m, clock)
    BY DEF Claim
  <2> HIDE DEF unit
  <2>3. QED
    BY <2>1, <2>2
<1>2. Seen(E) = Seen(drawn[k])
  BY OverIsNotSeen
<1>3. Charged(k, m).drawn = E \cup {unit} \/ Charged(k, m).drawn = drawn[k] \cup {unit}
  BY DEF Charged
<1> HIDE DEF unit, E
<1>4. QED
  BY <1>1, <1>2, <1>3

\* A refund removes the claims of the mail.
LEMMA RefundedIsSeen ==
    ASSUME NEW k \in Keys, NEW m \in Mails
    PROVE  Seen(Refunded(k, m).drawn) = {u \in Seen(drawn[k]) : u.mail # m}
BY DEF Refunded, Seen

\* A mail has at most one unit in a good counter, so that what is seen of some units
\* is as many.
LEMMA SeenIsCounted ==
    ASSUME NEW k \in Keys, NEW row, NEW D, NEW t, Good(k, row, D, t), NEW C \in SUBSET D
    PROVE  /\ IsFiniteSet(C) /\ IsFiniteSet(Seen(C))
           /\ Cardinality(Seen(C)) = Cardinality(C)
<1>1. C \subseteq Units /\ \A d, e \in C : d.mail = e.mail => d = e
  BY DEF Good
<1>2. IsFiniteSet(C)
  <2> DEFINE f == [d \in C |-> d.mail]
  <2>1. f \in Injection(C, Mails)
    <3>1. f \in [C -> Mails]
      BY <1>1 DEF Units
    <3>2. \A d, e \in C : f[d] = f[e] => d = e
      BY <1>1
    <3>3. QED
      BY <3>1, <3>2 DEF Injection, IsInjective
  <2> HIDE DEF f
  <2>2. QED
    BY <2>1, FS_Injection, QuotaAssumption
<1>3. ExistsBijection(C, Seen(C))
  <2> DEFINE g == [d \in C |-> [mail |-> d.mail, at |-> d.at]]
  <2>1. g \in [C -> Seen(C)]
    BY DEF Seen
  <2>2. \A d, e \in C : g[d] = g[e] => d = e
    <3>1. ASSUME NEW d \in C, NEW e \in C, g[d] = g[e] PROVE d.mail = e.mail
      <4>1. g[d].mail = d.mail /\ g[e].mail = e.mail
        OBVIOUS
      <4>2. QED
        BY <3>1, <4>1
    <3>2. QED
      BY <1>1, <3>1
  <2>3. \A u \in Seen(C) : \E d \in C : g[d] = u
    BY DEF Seen
  <2> HIDE DEF g
  <2>4. g \in Bijection(C, Seen(C))
    BY <2>1, <2>2, <2>3 DEF Bijection, Injection, Surjection, IsInjective
  <2>5. QED
    BY <2>4 DEF ExistsBijection
<1>4. QED
  BY <1>2, <1>3, FS_Bijection

\* What is let through at a counter has room in its window.
LEMMA FreeIsRoom ==
    ASSUME NEW k \in Keys, Good(k, Row(k), drawn[k], clock), Free(k, Most(k)), clock \in Nat
    PROVE  Cardinality({u \in Seen(drawn[k]) : clock < u.at + Window(k[1])}) < Most(k)
<1> DEFINE D == drawn[k]
           W == {d \in D : clock < d.at + Window(k[1])}
           C == Current(D)
<1>1. Window(k[1]) \in Nat /\ D \subseteq Units /\ Most(k) \in Nat /\ Most(k) > 0
  BY RuleOfKey, WindowLength, MostIsPositive DEF Good
<1>2. {u \in Seen(D) : clock < u.at + Window(k[1])} = Seen(W)
  BY DEF Seen
<1>3. W \subseteq C
  BY <1>1 DEF Good, Current, Units
<1>4. /\ IsFiniteSet(C) /\ Row(k).count = Cardinality(C) /\ Row(k) \in RowType
      /\ \A d \in C : d.at <= Row(k).last /\ d.at \in Nat
  BY <1>1 DEF Good, Current, Units
<1>5. W \in SUBSET D
  OBVIOUS
<1>6. Cardinality(Seen(W)) = Cardinality(W)
  BY <1>5, SeenIsCounted
<1>7. IsFiniteSet(W) /\ Cardinality(W) <= Cardinality(C) /\ Cardinality(W) \in Nat
      /\ Cardinality(C) \in Nat
  BY <1>3, <1>4, FS_Subset, FS_CardinalityType
<1>8. CASE k \in DOMAIN rows /\ Row(k).count < Most(k)
  <2> HIDE DEF W, C
  <2>1. Cardinality(C) < Most(k)
    BY <1>4, <1>8
  <2>2. Cardinality(W) < Most(k)
    BY <1>1, <1>7, <2>1
  <2>3. QED
    BY <1>2, <1>6, <2>2
<1>9. CASE Quiet(k, Row(k))
  <2>1. W = {}
    <3>1. CASE k \notin DOMAIN rows
      BY <1>3, <3>1, RowTyped, NothingCurrent
    <3>2. CASE k \in DOMAIN rows
      <4>1. Row(k).last + Window(k[1]) <= clock /\ Row(k).last \in Nat
        BY <1>4, <1>9, <3>2 DEF Quiet, RowType
      <4>2. \A d \in W : d \in C /\ clock < d.at + Window(k[1])
        BY <1>3
      <4> HIDE DEF W, C
      <4>3. QED
        BY <1>1, <1>4, <4>1, <4>2
    <3>3. QED
      BY <3>1, <3>2
  <2>2. Cardinality(W) = 0
    BY <2>1, FS_EmptySet
  <2>3. QED
    BY <1>1, <1>2, <1>6, <2>2
<1>10. QED
  BY <1>8, <1>9 DEF Free, Quiet

\* What is not let through finds the counter used up.
LEMMA NotFreeIsUsedUp ==
    ASSUME NEW k \in Keys, Good(k, Row(k), drawn[k], clock), ~Free(k, Most(k))
    PROVE  Most(k) <= Cardinality(Seen(drawn[k]))
<1> DEFINE D == drawn[k]
           C == Current(D)
<1>1. /\ IsFiniteSet(C) /\ Row(k).count = Cardinality(C) /\ Most(k) \in Nat
      /\ ~(Row(k).count < Most(k))
  BY MostIsPositive DEF Good, Free
<1>2. C \in SUBSET D /\ D \in SUBSET D
  BY DEF Current
<1>3. /\ IsFiniteSet(D) /\ Cardinality(Seen(D)) = Cardinality(D)
  BY <1>2, SeenIsCounted
<1> HIDE DEF C
<1>4. Cardinality(C) <= Cardinality(D) /\ Cardinality(C) \in Nat /\ Cardinality(D) \in Nat
  BY <1>2, <1>3, FS_Subset, FS_CardinalityType
<1>5. QED
  BY <1>1, <1>3, <1>4

\* The rules of a transaction, which are those of a part of the list.
RulesOf(p) ==
    IF p = "requesting" THEN RequestRules
    ELSE IF p = "charging" THEN DeliveryRules ELSE RefundRules

LEMMA RulesInOrder ==
    ASSUME NEW p \in Busy
    PROVE  /\ RulesOf(p) \subseteq Rules
           /\ \A i \in First(p) + 1 .. Last(p) : i \in 1 .. 10 /\ Order[i] \in RulesOf(p)
           /\ \A r \in RulesOf(p) : \E i \in First(p) + 1 .. Last(p) : r = Order[i]
<1>1. CASE p = "requesting"
  <2>1. First(p) = 0 /\ Last(p) = 3 /\ RulesOf(p) = {Order[1], Order[2], Order[3]}
    BY <1>1 DEF First, Last, RulesOf, Order, RequestRules
  <2>2. \A i \in 1 .. 3 : i = 1 \/ i = 2 \/ i = 3
    OBVIOUS
  <2>3. RulesOf(p) \subseteq Rules
    BY <1>1 DEF RulesOf, Rules
  <2>4. QED
    BY <2>1, <2>2, <2>3
<1>2. CASE p = "charging"
  <2>1. /\ First(p) = 3 /\ Last(p) = 10
        /\ RulesOf(p) = {Order[4], Order[5], Order[6], Order[7], Order[8], Order[9],
                         Order[10]}
    BY <1>2 DEF First, Last, RulesOf, Order, DeliveryRules
  <2>2. \A i \in 4 .. 10 : i = 4 \/ i = 5 \/ i = 6 \/ i = 7 \/ i = 8 \/ i = 9 \/ i = 10
    OBVIOUS
  <2>3. RulesOf(p) \subseteq Rules
    BY <1>2 DEF RulesOf, Rules
  <2>4. QED
    BY <2>1, <2>2, <2>3
<1>3. CASE p = "refunding"
  <2>1. First(p) = 7 /\ Last(p) = 10 /\ RulesOf(p) = {Order[8], Order[9], Order[10]}
    BY <1>3 DEF First, Last, RulesOf, Order, RefundRules
  <2>2. \A i \in 8 .. 10 : i = 8 \/ i = 9 \/ i = 10
    OBVIOUS
  <2>3. RulesOf(p) \subseteq Rules
    BY <1>3 DEF RulesOf, Rules, RefundRules, DeliveryRules
  <2>4. QED
    BY <2>1, <2>2, <2>3
<1>4. QED
  BY <1>1, <1>2, <1>3 DEF Busy

\* A transaction that is complete has written all its counters and no others.
LEMMA AllIsWritten ==
    ASSUME QuotaInv, WritesAreExact, NEW m \in Mails, pc[m] \in Busy, ~Waiting(m)
    PROVE  DOMAIN writes[m] = {Counter(r, m) : r \in RulesOf(pc[m])}
<1>1. Placed(m) /\ Exact(m) /\ step[m] \in Nat \ {0}
  BY DEF QuotaInv, AllPlaced, WritesAreExact, Typed
<1>2. Place(m) = Last(pc[m]) + 1
  <2>1. First(pc[m]) \in Nat /\ Last(pc[m]) \in Nat
    BY DEF First, Last
  <2>2. ~(Place(m) <= Last(pc[m])) /\ Place(m) <= Last(pc[m]) + 1 /\ Place(m) \in Nat
    BY <1>1, <2>1, NextPlace DEF Placed, Place
  <2>3. QED
    BY <2>1, <2>2
<1>3. First(pc[m]) + 1 .. Place(m) - 1 = First(pc[m]) + 1 .. Last(pc[m])
  BY <1>2 DEF First, Last
<1>4. \A k \in DOMAIN writes[m] :
          \E i \in First(pc[m]) + 1 .. Last(pc[m]) : k = Counter(Order[i], m)
  BY <1>1, <1>3 DEF Placed
<1>5. \A i \in First(pc[m]) + 1 .. Last(pc[m]) : Counter(Order[i], m) \in DOMAIN writes[m]
  <2>1. CASE pc[m] # "refunding"
    BY <1>1, <1>3, <2>1 DEF Placed
  <2>2. CASE pc[m] = "refunding"
    <3>1. First(pc[m]) + 1 = 8
      BY <2>2 DEF First
    <3>2. QED
      BY <1>1, <1>3, <2>2, <3>1 DEF Exact
  <2>3. QED
    BY <2>1, <2>2
<1>6. QED
  BY <1>4, <1>5, RulesInOrder

\* The limits of a mail at some of its counters.
LEMMA LimitsAreMost ==
    ASSUME QuotaInv, NEW m \in Mails, NEW S \in SUBSET Rules
    PROVE  /\ DOMAIN Limits(m, S) = {Counter(r, m) : r \in S}
           /\ \A k \in DOMAIN Limits(m, S) : k \in Keys /\ Limits(m, S)[k] = Most(k)
<1>1. job[m] \in JobType
  BY DEF QuotaInv, Typed
<1>2. \A r \in S : Counter(r, m) \in Keys /\ Allowed(m, Counter(r, m)) = Most(Counter(r, m))
  BY <1>1, CounterIsKey
<1>3. QED
  BY <1>2 DEF Limits

\* A charge with effect is made at once, with room at every counter.
LEMMA ChargeAtOnce ==
    ASSUME QuotaInv, WritesAreExact, NEW m \in Mails, pc[m] \in {"requesting", "charging"},
           ~Waiting(m), NEW to, Commit(m, to)
    PROVE  Promise!Charge(m, Limits(m, RulesOf(pc[m])))
<1> DEFINE limits == Limits(m, RulesOf(pc[m]))
           new == writes[m]
<1>1. pc[m] \in Busy /\ pc[m] # "refunding" /\ RulesOf(pc[m]) \in SUBSET Rules
  BY RulesInOrder DEF Busy
<1>2. DOMAIN limits = DOMAIN new
  BY <1>1, AllIsWritten, LimitsAreMost
<1>3. \A k \in DOMAIN limits : k \in Keys /\ limits[k] = Most(k)
  BY <1>1, LimitsAreMost
<1>4. \A k \in DOMAIN new : Free(k, Most(k)) /\ new[k] = Charged(k, m)
  BY <1>1 DEF WritesAreExact, Exact
<1>5. /\ clock \in Nat
      /\ \A k \in Keys : Good(k, Row(k), drawn[k], clock) /\ drawn[k] \subseteq Units
  BY DEF QuotaInv, Committed, Typed, Good
<1> HIDE DEF limits
<1>6. ASSUME NEW k \in DOMAIN limits
      PROVE  Cardinality(Promise!InWindow(k)) < limits[k]
  <2>1. k \in Keys /\ limits[k] = Most(k) /\ Free(k, Most(k))
    BY <1>2, <1>3, <1>4
  <2>2. Promise!InWindow(k) = {u \in Seen(drawn[k]) : clock < u.at + Window(k[1])}
    BY <2>1 DEF Promise!InWindow, Seen
  <2>3. Cardinality({u \in Seen(drawn[k]) : clock < u.at + Window(k[1])}) < Most(k)
    BY <1>5, <2>1, FreeIsRoom
  <2>4. QED
    BY <2>1, <2>2, <2>3
<1>7. Promise!Room(limits)
  <2>1. \A S : Promise!Cardinality(S) = Cardinality(S)
    BY DEF Promise!Cardinality, Cardinality
  <2>2. QED
    BY <1>6, <2>1 DEF Promise!Room
<1>8. ASSUME NEW k \in Keys
      PROVE  Seen(drawn'[k]) = IF k \in DOMAIN limits
                               THEN Seen(drawn[k]) \cup {Claim(m, clock)} ELSE Seen(drawn[k])
  <2>1. drawn'[k] = IF k \in DOMAIN new THEN new[k].drawn ELSE drawn[k]
    BY DEF Commit
  <2>2. CASE k \in DOMAIN new
    <3>1. drawn'[k] = Charged(k, m).drawn
      BY <1>4, <2>1, <2>2
    <3>2. Seen(Charged(k, m).drawn) = Seen(drawn[k]) \cup {Claim(m, clock)}
      BY <1>5, ChargedIsSeen
    <3>3. QED
      BY <1>2, <2>2, <3>1, <3>2
  <2>3. QED
    BY <1>2, <2>1, <2>2
<1>9. HeldNow' = [k \in Keys |-> IF k \in DOMAIN limits
                                 THEN HeldNow[k] \cup {Claim(m, clock)} ELSE HeldNow[k]]
  BY <1>8 DEF HeldNow
<1>10. Promise!Charge(m, limits)
  BY <1>7, <1>9 DEF Promise!Charge, HeldNow, Seen, Claim
<1>11. QED
  BY <1>10 DEF limits

\* Only the mails of authentication are counted before they are reserved.
RequestsAreCounted ==
    \A m \in Mails : pc[m] = "requesting" =>
        ChannelOf(job[m].category) = "authentication"

LEMMA RequestsStayCounted ==
    QuotaInv /\ RequestsAreCounted /\ [QuotaNext]_vars => RequestsAreCounted'
<1> SUFFICES ASSUME QuotaInv, RequestsAreCounted, [QuotaNext]_vars
             PROVE  RequestsAreCounted'
  OBVIOUS
<1>1. pc \in [Mails -> States]
  BY DEF QuotaInv, Typed
<1>2. ASSUME NEW m \in Mails, NEW to, pc' = [pc EXCEPT ![m] = to], UNCHANGED job,
             to = "requesting" => ChannelOf(job[m].category) = "authentication"
      PROVE  RequestsAreCounted'
  BY <1>1, <1>2 DEF RequestsAreCounted
<1>3. ASSUME NEW m \in Mails, Start(m) PROVE RequestsAreCounted'
  BY <1>2, <1>3 DEF Start
<1>4. ASSUME NEW m \in Mails, NEW to, to # "requesting", Commit(m, to) \/ Rollback(m, to)
      PROVE  RequestsAreCounted'
  BY <1>2, <1>4 DEF Commit, Rollback, End
<1>5. ASSUME UNCHANGED pc, UNCHANGED job PROVE RequestsAreCounted'
  BY <1>5 DEF RequestsAreCounted
<1>6. ASSUME NEW m \in Mails, Charge(m) PROVE RequestsAreCounted'
  BY <1>4, <1>5, <1>6 DEF Charge, Write
<1>7. ASSUME NEW m \in Mails, CloseCharge(m) \/ CloseRefund(m) \/ Fail(m)
      PROVE  RequestsAreCounted'
  BY <1>4, <1>7 DEF CloseCharge, CloseRefund, Fail
<1>8. ASSUME NEW m \in Mails, Send(m) PROVE RequestsAreCounted'
  BY <1>2, <1>8 DEF Send
<1>9. ASSUME NEW m \in Mails, Refund(m) PROVE RequestsAreCounted'
  BY <1>5, <1>9 DEF Refund, Write
<1>10. CASE Prune \/ Tick \/ UNCHANGED vars
  BY <1>5, <1>10 DEF Prune, Tick, vars
<1>11. QED
  BY <1>3, <1>6, <1>7, <1>8, <1>9, <1>10 DEF QuotaNext, QuotaStep

\* The state of a mail, as the allowance sees it, when the mail goes on.
LEMMA PhaseMoves ==
    ASSUME QuotaInv, NEW m \in Mails, NEW to, pc' = [pc EXCEPT ![m] = to],
           UNCHANGED clock, UNCHANGED job, NEW from, from = Phase(m),
           NEW into, into = Phase(m)'
    PROVE  Promise!Becomes(m, from, into)
<1>1. pc \in [Mails -> States]
  BY DEF QuotaInv, Typed
<1>2. \A n \in Mails : n # m => Phase(n)' = Phase(n)
  BY <1>1 DEF Phase
<1>3. PhaseNow' = [PhaseNow EXCEPT ![m] = into]
  BY <1>2 DEF PhaseNow
<1>4. OrderNow' = OrderNow
  BY DEF OrderNow, RequestLimits, Limits, Counter, Allowed
<1>5. PhaseNow[m] = from
  BY DEF PhaseNow
<1>6. QED
  BY <1>3, <1>4, <1>5 DEF Promise!Becomes, PhaseNow, OrderNow

\* Steps that the allowance does not see.
LEMMA NothingSeen ==
    ASSUME QuotaInv, UNCHANGED clock, UNCHANGED job, UNCHANGED drawn,
           \A m \in Mails : Phase(m)' = Phase(m)
    PROVE  UNCHANGED <<clock, HeldNow, PhaseNow, OrderNow>>
BY DEF HeldNow, PhaseNow, OrderNow, RequestLimits, Limits, Counter, Allowed

\* A mail is asked for: a reminder has no counters of requests.
LEMMA StartIsSeen ==
    ASSUME QuotaInv, NEW m \in Mails, Start(m)
    PROVE  Promise!AllowanceNext \/ UNCHANGED <<clock, HeldNow, PhaseNow, OrderNow>>
<1>1. /\ pc[m] = "new" /\ pc \in [Mails -> States]
      /\ UNCHANGED clock /\ UNCHANGED job /\ UNCHANGED drawn
  BY DEF Start, QuotaInv, Typed
<1>2. CASE ChannelOf(job[m].category) = "authentication"
  <2>1. pc' = [pc EXCEPT ![m] = "requesting"]
    BY <1>2 DEF Start
  <2>2. \A n \in Mails : Phase(n)' = Phase(n)
    BY <1>1, <2>1 DEF Phase
  <2>3. QED
    BY <1>1, <2>2, NothingSeen
<1>3. CASE ChannelOf(job[m].category) # "authentication"
  <2>1. pc' = [pc EXCEPT ![m] = "charging"]
    BY <1>3 DEF Start
  <2>2. Phase(m) = "wanted" /\ Phase(m)' = "requested"
    BY <1>1, <2>1 DEF Phase
  <2>3. Promise!Becomes(m, "wanted", "requested")
    BY <1>1, <2>1, <2>2, PhaseMoves
  <2> DEFINE limits == OrderNow[m].request
  <2>4. DOMAIN limits = {}
    BY <1>3 DEF OrderNow, RequestLimits, Limits
  <2>5. HeldNow' = [k \in Keys |-> IF k \in DOMAIN limits
                                   THEN HeldNow[k] \cup {Claim(m, clock)} ELSE HeldNow[k]]
    BY <1>1, <2>4 DEF HeldNow
  <2> HIDE DEF limits
  <2>6. Promise!Charge(m, limits)
    BY <2>4, <2>5 DEF Promise!Charge, Promise!Room, HeldNow, Seen, Claim
  <2>7. Promise!Request(m)
    BY <2>3, <2>6 DEF Promise!Request, limits, OrderNow
  <2>8. QED
    BY <2>7 DEF Promise!AllowanceNext
<1>4. QED
  BY <1>2, <1>3

\* A charge that is complete takes effect.
LEMMA CloseChargeIsSeen ==
    ASSUME QuotaInv, WritesAreExact, RequestsAreCounted, NEW m \in Mails, CloseCharge(m)
    PROVE  Promise!AllowanceNext
<1>1. pc[m] \in {"requesting", "charging"} /\ ~Waiting(m) /\ pc \in [Mails -> States]
  BY DEF CloseCharge, QuotaInv, Typed
<1>2. CASE pc[m] = "requesting"
  <2>1. Commit(m, "charging")
    BY <1>2 DEF CloseCharge
  <2>2. pc' = [pc EXCEPT ![m] = "charging"] /\ UNCHANGED clock /\ UNCHANGED job
    BY <2>1 DEF Commit, End
  <2>3. Phase(m) = "wanted" /\ Phase(m)' = "requested"
    BY <1>1, <1>2, <2>2 DEF Phase
  <2>4. Promise!Becomes(m, "wanted", "requested")
    BY <2>2, <2>3, PhaseMoves
  <2>5. Promise!Charge(m, Limits(m, RulesOf(pc[m])))
    BY <1>1, <2>1, ChargeAtOnce
  <2>6. Limits(m, RulesOf(pc[m])) = RequestLimits(m)
    BY <1>2 DEF RulesOf, RequestLimits, RequestsAreCounted
  <2>7. Promise!Request(m)
    BY <2>4, <2>5, <2>6 DEF Promise!Request, Promise!Charge, Promise!Room
  <2>8. QED
    BY <2>7 DEF Promise!AllowanceNext
<1>3. CASE pc[m] = "charging"
  <2>1. Commit(m, "sending")
    BY <1>3 DEF CloseCharge
  <2>2. pc' = [pc EXCEPT ![m] = "sending"] /\ UNCHANGED clock /\ UNCHANGED job
    BY <2>1 DEF Commit, End
  <2>3. Phase(m) = "requested" /\ Phase(m)' = "reserved"
    BY <1>1, <1>3, <2>2 DEF Phase
  <2>4. Promise!Becomes(m, "requested", "reserved")
    BY <2>2, <2>3, PhaseMoves
  <2>5. Promise!Charge(m, Limits(m, RulesOf(pc[m])))
    BY <1>1, <2>1, ChargeAtOnce
  <2>6. RulesOf(pc[m]) = DeliveryRules
    BY <1>3 DEF RulesOf
  <2>7. Promise!Reserve(m)
    BY <2>4, <2>5, <2>6 DEF Promise!Reserve, Promise!Charge, Promise!Room
  <2>8. QED
    BY <2>7 DEF Promise!AllowanceNext
<1>4. QED
  BY <1>1, <1>2, <1>3

\* A charge is refused at a counter that is used up, or goes on to the next.
LEMMA ChargeIsSeen ==
    ASSUME QuotaInv, RequestsAreCounted, NEW m \in Mails, Charge(m)
    PROVE  Promise!AllowanceNext \/ UNCHANGED <<clock, HeldNow, PhaseNow, OrderNow>>
<1> DEFINE k == NextKey(m)
           S == RulesOf(pc[m])
           limits == Limits(m, S)
<1>1. /\ pc[m] \in {"requesting", "charging"} /\ Waiting(m) /\ pc[m] \in Busy
      /\ pc \in [Mails -> States]
  BY DEF Charge, Busy, QuotaInv, Typed
<1>2. CASE Write(m, k, Charged(k, m))
  <2>1. UNCHANGED clock /\ UNCHANGED job /\ UNCHANGED drawn /\ UNCHANGED pc
    BY <1>2 DEF Write
  <2>2. \A n \in Mails : Phase(n)' = Phase(n)
    BY <2>1 DEF Phase
  <2>3. QED
    BY <2>1, <2>2, NothingSeen
<1>3. CASE ~Free(k, Allowed(m, k)) /\ Rollback(m, "suppressed")
  <2>1. /\ pc' = [pc EXCEPT ![m] = "suppressed"]
        /\ UNCHANGED clock /\ UNCHANGED job /\ UNCHANGED drawn
    BY <1>3 DEF Rollback, End
  <2>2. Phase(m)' = "suppressed"
    BY <1>1, <2>1 DEF Phase
  <2>3. /\ Place(m) \in First(pc[m]) + 1 .. Last(pc[m])
        /\ k = Counter(Order[Place(m)], m) /\ k \in Keys /\ Allowed(m, k) = Most(k)
    BY <1>1, NextIsNew
  <2>4. S \in SUBSET Rules /\ Order[Place(m)] \in S
    BY <1>1, <2>3, RulesInOrder
  <2>5. k \in DOMAIN limits /\ limits[k] = Most(k)
    <3>1. k \in {Counter(r, m) : r \in S}
      BY <2>3, <2>4
    <3>2. QED
      BY <2>4, <3>1, LimitsAreMost
  <2> HIDE DEF k
  <2>6. Good(k, Row(k), drawn[k], clock)
    BY <2>3 DEF QuotaInv, Committed
  <2>7. Most(k) <= Cardinality(Seen(drawn[k]))
    BY <1>3, <2>3, <2>6, NotFreeIsUsedUp
  <2>8. HeldNow[k] = Seen(drawn[k])
    BY <2>3 DEF HeldNow
  <2> HIDE DEF limits
  <2>9. Promise!UsedUp(limits)
    <3>1. \A T : Promise!Cardinality(T) = Cardinality(T)
      BY DEF Promise!Cardinality, Cardinality
    <3>2. limits[k] <= Promise!Cardinality(HeldNow[k])
      BY <2>5, <2>7, <2>8, <3>1
    <3>3. QED
      BY <2>5, <3>2 DEF Promise!UsedUp, HeldNow, Seen
  <2>10. UNCHANGED HeldNow
    BY <2>1 DEF HeldNow
  <2>11. CASE pc[m] = "requesting"
    <3>1. Phase(m) = "wanted"
      BY <2>11 DEF Phase
    <3>2. Promise!Becomes(m, "wanted", "suppressed")
      BY <2>1, <2>2, <3>1, PhaseMoves
    <3>3. limits = RequestLimits(m)
      BY <2>11 DEF limits, RulesOf, RequestLimits, RequestsAreCounted
    <3>4. Promise!Suppress(m)
      BY <2>9, <2>10, <3>2, <3>3 DEF Promise!Suppress, HeldNow, Seen
    <3>5. QED
      BY <3>4 DEF Promise!AllowanceNext
  <2>12. CASE pc[m] = "charging"
    <3>1. Phase(m) = "requested"
      BY <2>12 DEF Phase
    <3>2. Promise!Becomes(m, "requested", "suppressed")
      BY <2>1, <2>2, <3>1, PhaseMoves
    <3>3. limits = Limits(m, DeliveryRules)
      BY <2>12 DEF limits, RulesOf
    <3>4. Promise!Suppress(m)
      BY <2>9, <2>10, <3>2, <3>3 DEF Promise!Suppress, HeldNow, Seen
    <3>5. QED
      BY <3>4 DEF Promise!AllowanceNext
  <2>13. QED
    BY <1>1, <2>11, <2>12
<1>4. QED
  BY <1>2, <1>3 DEF Charge

\* A refund that is complete takes effect.
LEMMA CloseRefundIsSeen ==
    ASSUME QuotaInv, WritesAreExact, NEW m \in Mails, CloseRefund(m)
    PROVE  Promise!AllowanceNext
<1> DEFINE new == writes[m]
           daily == OrderNow[m].daily
<1>1. /\ pc[m] = "refunding" /\ pc[m] \in Busy /\ ~Waiting(m) /\ Commit(m, "refused")
      /\ pc \in [Mails -> States]
  BY DEF CloseRefund, Busy, QuotaInv, Typed
<1>2. pc' = [pc EXCEPT ![m] = "refused"] /\ UNCHANGED clock /\ UNCHANGED job
  BY <1>1 DEF Commit, End
<1>3. Phase(m) = "rejected" /\ Phase(m)' = "refused"
  BY <1>1, <1>2 DEF Phase
<1>4. Promise!Becomes(m, "rejected", "refused")
  BY <1>2, <1>3, PhaseMoves
<1>5. DOMAIN new = daily
  <2>1. RulesOf(pc[m]) = RefundRules
    BY <1>1 DEF RulesOf
  <2>2. QED
    BY <1>1, <2>1, AllIsWritten DEF OrderNow
<1>6. \A k \in DOMAIN new : new[k] = Refunded(k, m)
  BY <1>1 DEF WritesAreExact, Exact
<1>7. ASSUME NEW k \in Keys
      PROVE  Seen(drawn'[k]) = IF k \in daily THEN {u \in Seen(drawn[k]) : u.mail # m}
                               ELSE Seen(drawn[k])
  <2>1. drawn'[k] = IF k \in DOMAIN new THEN new[k].drawn ELSE drawn[k]
    BY <1>1 DEF Commit
  <2>2. CASE k \in DOMAIN new
    <3>1. drawn'[k] = Refunded(k, m).drawn
      BY <1>6, <2>1, <2>2
    <3>2. QED
      BY <1>5, <2>2, <3>1, RefundedIsSeen
  <2>3. QED
    BY <1>5, <2>1, <2>2
<1>8. HeldNow' = [k \in Keys |-> IF k \in daily
                                 THEN {u \in HeldNow[k] : u.mail # m} ELSE HeldNow[k]]
  BY <1>7 DEF HeldNow
<1>9. Promise!GiveBack(m)
  BY <1>4, <1>8 DEF Promise!GiveBack, HeldNow, Seen, OrderNow
<1>10. QED
  BY <1>9 DEF Promise!AllowanceNext

\* The server answers, or does not; a transaction fails, or the process dies.
LEMMA SendOrFailIsSeen ==
    ASSUME QuotaInv, NEW m \in Mails, Send(m) \/ Fail(m)
    PROVE  Promise!AllowanceNext
<1>1. UNCHANGED clock /\ UNCHANGED job /\ UNCHANGED drawn /\ pc \in [Mails -> States]
  BY DEF Send, Fail, Rollback, End, QuotaInv, Typed
<1>2. UNCHANGED HeldNow
  BY <1>1 DEF HeldNow
<1>3. ASSUME pc[m] = "sending", NEW to \in {"sent", "refunding", "doubtful"},
             pc' = [pc EXCEPT ![m] = to]
      PROVE  Promise!AllowanceNext
  <2> DEFINE answer == IF to = "refunding" THEN "rejected" ELSE to
  <2>1. Phase(m) = "reserved" /\ Phase(m)' = answer
    BY <1>1, <1>3 DEF Phase
  <2>2. answer \in {"sent", "rejected", "doubtful"}
    OBVIOUS
  <2> HIDE DEF answer
  <2>3. Promise!Becomes(m, "reserved", answer)
    BY <1>1, <1>3, <2>1, PhaseMoves
  <2>4. Promise!Answer(m)
    BY <1>2, <2>2, <2>3 DEF Promise!Answer, HeldNow, Seen
  <2>5. QED
    BY <2>4 DEF Promise!AllowanceNext
<1>4. ASSUME pc[m] \in {"requesting", "charging", "refunding"},
             pc' = [pc EXCEPT ![m] = "failed"]
      PROVE  Promise!AllowanceNext
  <2> DEFINE from == Phase(m)
  <2>1. from \in {"wanted", "requested", "rejected"} /\ Phase(m)' = "failed"
    BY <1>1, <1>4 DEF Phase
  <2>2. from = Phase(m)
    OBVIOUS
  <2> HIDE DEF from
  <2>3. Promise!Becomes(m, from, "failed")
    BY <1>1, <1>4, <2>1, <2>2, PhaseMoves
  <2>4. Promise!Fail(m)
    BY <1>2, <2>1, <2>3 DEF Promise!Fail, HeldNow, Seen
  <2>5. QED
    BY <2>4 DEF Promise!AllowanceNext
<1>5. CASE Send(m)
  BY <1>3, <1>5 DEF Send
<1>6. CASE Fail(m)
  <2>1. pc' = [pc EXCEPT ![m] = IF pc[m] = "sending" THEN "doubtful" ELSE "failed"]
        /\ pc[m] \in {"requesting", "charging", "sending", "refunding"}
    BY <1>6 DEF Fail, Rollback, End
  <2>2. QED
    BY <1>3, <1>4, <2>1
<1>7. QED
  BY <1>5, <1>6

\* Every step is a step of the allowance or is not seen.
LEMMA EveryStepIsSeen ==
    QuotaInv /\ WritesAreExact /\ RequestsAreCounted /\ [QuotaNext]_vars
        => [Promise!AllowanceNext]_<<clock, HeldNow, PhaseNow, OrderNow>>
<1> SUFFICES ASSUME QuotaInv, WritesAreExact, RequestsAreCounted, [QuotaNext]_vars
             PROVE  \/ Promise!AllowanceNext
                    \/ UNCHANGED <<clock, HeldNow, PhaseNow, OrderNow>>
  OBVIOUS
<1>1. ASSUME NEW m \in Mails, Refund(m)
      PROVE  UNCHANGED <<clock, HeldNow, PhaseNow, OrderNow>>
  <2>1. UNCHANGED clock /\ UNCHANGED job /\ UNCHANGED drawn /\ UNCHANGED pc
    BY <1>1 DEF Refund, Write
  <2>2. \A n \in Mails : Phase(n)' = Phase(n)
    BY <2>1 DEF Phase
  <2>3. QED
    BY <2>1, <2>2, NothingSeen
<1>2. CASE Prune
  <2>1. UNCHANGED clock /\ UNCHANGED job /\ UNCHANGED pc
    BY <1>2 DEF Prune
  <2>2. ASSUME NEW k \in Keys PROVE Seen(drawn'[k]) = Seen(drawn[k])
    <3>1. drawn'[k] = IF k \in Old THEN {[d EXCEPT !.over = TRUE] : d \in drawn[k]}
                      ELSE drawn[k]
      BY <1>2 DEF Prune
    <3>2. drawn[k] \subseteq Units
      BY DEF QuotaInv, Typed
    <3>3. QED
      BY <3>1, <3>2, OverIsNotSeen
  <2>3. UNCHANGED HeldNow
    BY <2>2 DEF HeldNow
  <2>4. UNCHANGED PhaseNow /\ UNCHANGED OrderNow
    BY <2>1 DEF PhaseNow, Phase, OrderNow, RequestLimits, Limits, Counter, Allowed
  <2>5. QED
    BY <2>1, <2>3, <2>4
<1>3. CASE Tick
  <2>1. clock' = clock + 1 /\ UNCHANGED drawn /\ UNCHANGED job /\ UNCHANGED pc
    BY <1>3 DEF Tick
  <2>2. UNCHANGED <<HeldNow, PhaseNow, OrderNow>>
    BY <2>1 DEF HeldNow, PhaseNow, Phase, OrderNow, RequestLimits, Limits, Counter, Allowed
  <2>3. Promise!TimePasses
    BY <2>1, <2>2 DEF Promise!TimePasses, HeldNow, Seen, PhaseNow, OrderNow
  <2>4. QED
    BY <2>3 DEF Promise!AllowanceNext
<1>4. CASE UNCHANGED vars
  BY <1>4, NothingSeen DEF vars, Phase
<1>5. QED
  BY <1>1, <1>2, <1>3, <1>4, StartIsSeen, ChargeIsSeen, CloseChargeIsSeen,
     CloseRefundIsSeen, SendOrFailIsSeen DEF QuotaNext, QuotaStep

\* The quota implements the allowance, for any mails, windows and limits: although rows
\* are charged, refunded and pruned one by one among the transactions of other mails,
\* consumeRule's transactions are charges of all counters at once or none, made only with
\* room at each; a mail is suppressed only at a counter that is used up, and
\* releaseFailedTransactionalEmail gives all its daily units back at once.
THEOREM QuotaRefinement == QuotaSpec => ImplementsAllowance
<1>1. QuotaInit => Promise!AllowanceInit
  BY DEF QuotaInit, Promise!AllowanceInit, Phase
<1>2. QuotaInit => QuotaInv /\ WritesAreExact /\ RequestsAreCounted
  BY InitQuota DEF QuotaInit, WritesAreExact, Exact, RequestsAreCounted
<1>3. QuotaInv /\ WritesAreExact /\ RequestsAreCounted /\ [QuotaNext]_vars
          => (QuotaInv /\ WritesAreExact /\ RequestsAreCounted)'
  BY StepKeeps, ExactStep, RequestsStayCounted
<1>4. QuotaInv /\ WritesAreExact /\ RequestsAreCounted /\ [QuotaNext]_vars
          => [UNCHANGED vars \/ Promise!AllowanceNext]_Promise!allowanceVars
  BY EveryStepIsSeen DEF HeldNow, Seen, PhaseNow, OrderNow, Promise!allowanceVars
<1>5. QED
  BY <1>1, <1>2, <1>3, <1>4, PTL DEF QuotaSpec, ImplementsAllowance

-----------------------------------------------------------------------------
(* Counting rows                                                           *)

Rows ==
    [id : Nat, creator : Creators, at : Nat, edited : BOOLEAN,
     subject : Subjects \cup {WithItsCase}, cancelled : BOOLEAN]

\* The rows of R created at one of the times by one of the users.
Among(R, times, users) == {r \in R : r.at \in times /\ r.creator \in users}
From(t) == {i \in Int : i >= t}

LEMMA AmongIsCounted ==
    ASSUME NEW R, IsFiniteSet(R), NEW times, NEW users
    PROVE  /\ IsFiniteSet(Among(R, times, users))
           /\ Cardinality(Among(R, times, users)) \in Nat
<1>1. Among(R, times, users) \in SUBSET R
  BY DEF Among
<1>2. QED
  BY <1>1, FS_Subset, FS_CardinalityType

\* Fewer times have no more rows.
LEMMA FewerTimes ==
    ASSUME NEW R, IsFiniteSet(R), NEW S, NEW T, S \subseteq T, NEW users
    PROVE  Cardinality(Among(R, S, users)) <= Cardinality(Among(R, T, users))
<1>1. Among(R, S, users) \in SUBSET Among(R, T, users)
  BY DEF Among
<1>2. QED
  BY <1>1, AmongIsCounted, FS_Subset

\* One more row is one more where it belongs.
LEMMA OneMore ==
    ASSUME NEW R, IsFiniteSet(R), NEW x, NEW times, NEW users
    PROVE  /\ Cardinality(Among(R \cup {x}, times, users))
                  <= Cardinality(Among(R, times, users)) + 1
           /\ x.at \notin times \/ x.creator \notin users =>
                  Among(R \cup {x}, times, users) = Among(R, times, users)
<1>1. CASE x.at \notin times \/ x.creator \notin users
  <2>1. Among(R \cup {x}, times, users) = Among(R, times, users)
    BY <1>1 DEF Among
  <2>2. QED
    BY <2>1, AmongIsCounted
<1>2. CASE ~(x.at \notin times \/ x.creator \notin users)
  <2>1. Among(R \cup {x}, times, users) = Among(R, times, users) \cup {x}
    BY <1>2 DEF Among
  <2> DEFINE A == Among(R, times, users)
  <2>2. IsFiniteSet(A) /\ Cardinality(A) \in Nat
    BY AmongIsCounted
  <2> HIDE DEF A
  <2>3. Cardinality(A \cup {x}) = IF x \in A THEN Cardinality(A) ELSE Cardinality(A) + 1
    BY <2>2, FS_AddElement
  <2>4. Cardinality(A \cup {x}) <= Cardinality(A) + 1
    BY <2>2, <2>3
  <2>5. QED
    BY <1>2, <2>1, <2>4 DEF A
<1>3. QED
  BY <1>1, <1>2

\* An edit leaves a row where it was counted.
LEMMA EditedStays ==
    ASSUME NEW R, IsFiniteSet(R), NEW r \in R, NEW s,
           s.at = r.at, s.creator = r.creator, NEW times, NEW users
    PROVE  Cardinality(Among((R \ {r}) \cup {s}, times, users))
               <= Cardinality(Among(R, times, users))
<1> DEFINE A == Among(R, times, users)
<1>1. CASE r \notin A
  <2>1. Among((R \ {r}) \cup {s}, times, users) = A
    BY <1>1 DEF Among
  <2>2. QED
    BY <2>1, AmongIsCounted
<1>2. CASE r \in A
  <2>1. Among((R \ {r}) \cup {s}, times, users) = (A \ {r}) \cup {s}
    BY <1>2 DEF Among
  <2>2. IsFiniteSet(A) /\ Cardinality(A) \in Nat
    BY AmongIsCounted
  <2> HIDE DEF A
  <2>3. IsFiniteSet(A \ {r}) /\ Cardinality(A \ {r}) = Cardinality(A) - 1
    BY <1>2, <2>2, FS_RemoveElement
  <2> DEFINE B == A \ {r}
  <2>4. IsFiniteSet(B) /\ Cardinality(B) = Cardinality(A) - 1
    BY <2>3
  <2> HIDE DEF B
  <2>5. Cardinality(B \cup {s}) = IF s \in B THEN Cardinality(B) ELSE Cardinality(B) + 1
    BY <2>4, FS_AddElement
  <2>6. Cardinality(B \cup {s}) <= Cardinality(A)
    BY <2>2, <2>4, <2>5
  <2>7. QED
    BY <2>1, <2>6 DEF A, B
<1>3. QED
  BY <1>1, <1>2

-----------------------------------------------------------------------------
(* The inductive invariant                                                 *)

CreatingType ==
    [pc : {"idle", "waiting", "locked", "counted"}, subject : Subjects \cup {Nothing}]

CreationTyped ==
    /\ now \in Nat /\ IsFiniteSet(reminder) /\ reminder \subseteq Rows
    /\ creating \in [Creators -> CreatingType]

\* Rows are numbered.
RowsAreNumbered ==
    /\ \A r \in reminder : r.id < Cardinality(reminder)
    /\ \A r, s \in reminder : r.id = s.id => r = s

\* One creation at a time is past the lock.
Inside(u) == creating[u].pc \in {"locked", "counted"}
OneInside == \A u, v \in Creators : Inside(u) /\ Inside(v) => u = v

\* What a creation has counted and looked for stays true until it is through.
Below(u) ==
    /\ Cardinality(Among(reminder, From(now - LongHour), {u})) < Hourly
    /\ Cardinality(Among(reminder, From(now - LongDay), {u})) < Daily
    /\ Cardinality(Among(reminder, From(now - LongDay), Creators)) < InAll
Unlike(s) ==
    s # WithItsCase =>
        \A r \in reminder : r.subject = s => r.cancelled \/ r.edited
CountedStays ==
    \A u \in Creators : creating[u].pc = "counted" =>
        Below(u) /\ Unlike(creating[u].subject)

\* The limits, at any time.
Within(t) ==
    /\ Cardinality(Among(reminder, t .. t + LongDay, Creators)) <= InAll
    /\ \A u \in Creators :
           /\ Cardinality(Among(reminder, t .. t + LongHour, {u})) <= Hourly
           /\ Cardinality(Among(reminder, t .. t + LongDay, {u})) <= Daily
AlwaysWithin == \A t \in Nat : Within(t)

CreationInv ==
    /\ CreationTyped /\ RowsAreNumbered /\ OneInside /\ CountedStays /\ AlwaysWithin
    /\ NoReminderTwice

\* What the limits are.
LEMMA LimitsAreNumbers ==
    /\ Hourly \in Nat /\ Hourly > 0 /\ Daily \in Nat /\ Daily > 0
    /\ InAll \in Nat /\ InAll > 0 /\ LongHour \in Nat /\ LongDay \in Nat
BY CreationAssumption

\* The invariant holds of the beginning.
LEMMA InitCreation == CreationInit => CreationInv
<1> SUFFICES ASSUME CreationInit PROVE CreationInv
  OBVIOUS
<1>1. CreationTyped /\ OneInside /\ CountedStays
  BY CreationAssumption, FS_EmptySet
  DEF CreationInit, CreationTyped, CreatingType, IdleCreation, OneInside, Inside,
      CountedStays
<1>2. RowsAreNumbered /\ NoReminderTwice
  BY DEF CreationInit, RowsAreNumbered, NoReminderTwice
<1>3. ASSUME NEW times, NEW users PROVE Cardinality(Among(reminder, times, users)) = 0
  <2>1. Among(reminder, times, users) = {}
    BY DEF CreationInit, Among
  <2>2. QED
    BY <2>1, FS_EmptySet
<1>4. 0 <= Hourly /\ 0 <= Daily /\ 0 <= InAll
  BY LimitsAreNumbers
<1>5. AlwaysWithin
  BY <1>3, <1>4, Zenon DEF AlwaysWithin, Within
<1>6. QED
  BY <1>1, <1>2, <1>5 DEF CreationInv

\* The count of the code is that of the rows.
LEMMA OwnIsAmong ==
    ASSUME CreationTyped, NEW u \in Creators, NEW t \in Int
    PROVE  Own(u, t) = Among(reminder, From(t), {u}) /\ Since(t) = Among(reminder, From(t), Creators)
BY DEF CreationTyped, Rows, Own, Since, Among, From

-----------------------------------------------------------------------------
(* The transactions                                                        *)

\* Steps of a transaction that leave the rows alone.
LEMMA RowsStay ==
    ASSUME CreationInv, UNCHANGED <<now, reminder>>,
           creating' \in [Creators -> CreatingType], OneInside', CountedStays'
    PROVE  CreationInv'
BY DEF CreationInv, CreationTyped, RowsAreNumbered, AlwaysWithin, Within, NoReminderTwice

LEMMA WaitStep ==
    ASSUME CreationInv, NEW u \in Creators, BeginCreation(u) \/ RefuseCreation(u)
    PROVE  CreationInv'
<1>1. PICK new \in CreatingType :
          /\ creating' = [creating EXCEPT ![u] = new] /\ new.pc \in {"idle", "waiting"}
          /\ UNCHANGED <<now, reminder>>
  BY DEF BeginCreation, RefuseCreation, IdleCreation, CreatingType, WithItsCase
<1>2. creating' \in [Creators -> CreatingType] /\ OneInside'
  BY <1>1 DEF CreationInv, CreationTyped, OneInside, Inside
<1>3. CountedStays'
  BY <1>1 DEF CreationInv, CreationTyped, CountedStays, Below, Unlike
<1>4. QED
  BY <1>1, <1>2, <1>3, RowsStay

LEMMA LockStep ==
    ASSUME CreationInv, NEW u \in Creators, LockCreation(u)
    PROVE  CreationInv'
<1>1. /\ creating \in [Creators -> CreatingType] /\ UNCHANGED <<now, reminder>>
      /\ creating' = [creating EXCEPT ![u].pc = "locked"]
      /\ \A v \in Creators : ~Inside(v)
  BY DEF CreationInv, CreationTyped, LockCreation, MayLock, LockFree, LockHeld, Inside
<1>2. creating' \in [Creators -> CreatingType] /\ creating'[u].pc = "locked"
      /\ \A v \in Creators : v # u => creating'[v] = creating[v]
  BY <1>1 DEF CreatingType
<1>3. OneInside' /\ CountedStays'
  BY <1>1, <1>2 DEF OneInside, CountedStays, Inside
<1>4. QED
  BY <1>1, <1>2, <1>3, RowsStay

LEMMA CheckStep ==
    ASSUME CreationInv, NEW u \in Creators, CheckCreation(u)
    PROVE  CreationInv'
<1>1. /\ CreationTyped /\ creating[u] \in CreatingType /\ creating[u].pc = "locked"
      /\ UNCHANGED <<now, reminder>> /\ OneInside /\ now \in Nat
  BY DEF CreationInv, CreationTyped, CheckCreation
<1>2. CASE creating' = [creating EXCEPT ![u] = IdleCreation]
  BY <1>1, <1>2, WaitStep DEF RefuseCreation
<1>3. CASE /\ ~SameReminder(creating[u].subject) /\ ~LimitReached(u)
           /\ creating' = [creating EXCEPT ![u] = [@ EXCEPT !.pc = "counted"]]
  <2>1. /\ creating' \in [Creators -> CreatingType] /\ creating'[u].pc = "counted"
        /\ creating'[u].subject = creating[u].subject
        /\ \A v \in Creators : v # u => creating'[v] = creating[v]
    BY <1>1, <1>3 DEF CreationTyped, CreatingType
  <2>2. OneInside'
    BY <1>1, <2>1 DEF OneInside, Inside
  <2>3. Below(u)
    BY <1>1, <1>3, OwnIsAmong, AmongIsCounted, LimitsAreNumbers
    DEF LimitReached, Below, CreationTyped
  <2>4. Unlike(creating[u].subject)
    BY <1>3 DEF SameReminder, Unlike
  <2>5. CountedStays'
    BY <1>1, <2>1, <2>3, <2>4 DEF CreationInv, CountedStays, Below, Unlike
  <2>6. QED
    BY <1>1, <2>1, <2>2, <2>5, RowsStay
<1>4. QED
  BY <1>2, <1>3 DEF CheckCreation

\* Whatever hour or day the new row is in began no earlier than what was counted.
LEMMA NewIsWithin ==
    ASSUME CreationTyped, NEW u \in Creators, Below(u), AlwaysWithin,
           NEW x \in Rows, x.creator = u, x.at = now, reminder' = reminder \cup {x}
    PROVE  AlwaysWithin'
<1>1. IsFiniteSet(reminder) /\ now \in Nat
  BY DEF CreationTyped
<1>2. ASSUME NEW t \in Nat, NEW length \in Nat, NEW users, NEW limit \in Nat,
             Cardinality(Among(reminder, t .. t + length, users)) <= limit,
             u \in users =>
                 Cardinality(Among(reminder, From(now - length), users)) < limit
      PROVE  Cardinality(Among(reminder \cup {x}, t .. t + length, users)) <= limit
  <2> DEFINE old == Among(reminder, t .. t + length, users)
             all == Among(reminder \cup {x}, t .. t + length, users)
  <2>1. Cardinality(old) \in Nat /\ Cardinality(old) <= limit
    BY <1>1, <1>2, AmongIsCounted
  <2>2. CASE now \notin t .. t + length \/ u \notin users
    <3>1. x.at \notin t .. t + length \/ x.creator \notin users
      BY <2>2
    <3>2. all = old
      BY <3>1 DEF Among
    <3>3. QED
      BY <2>1, <3>2
  <2>3. CASE now \in t .. t + length /\ u \in users
    <3>1. t .. t + length \subseteq From(now - length)
      BY <1>1, <2>3 DEF From
    <3>2. Cardinality(old) <= Cardinality(Among(reminder, From(now - length), users))
      BY <1>1, <3>1, FewerTimes
    <3>3. Cardinality(Among(reminder, From(now - length), users)) \in Nat
      BY <1>1, AmongIsCounted
    <3>4. Cardinality(all) <= Cardinality(old) + 1
      BY <1>1, OneMore
    <3>5. IsFiniteSet(reminder \cup {x})
      BY <1>1, FS_AddElement
    <3>6. Cardinality(all) \in Nat
      BY <3>5, AmongIsCounted
    <3> HIDE DEF old, all
    <3>7. QED
      BY <1>2, <2>1, <2>3, <3>2, <3>3, <3>4, <3>6 DEF all
  <2>4. QED
    BY <2>2, <2>3
<1>3. ASSUME NEW t \in Nat PROVE Within(t)'
  <2>1. Cardinality(Among(reminder \cup {x}, t .. t + LongDay, Creators)) <= InAll
    BY <1>2, LimitsAreNumbers DEF AlwaysWithin, Within, Below
  <2>2. ASSUME NEW v \in Creators
        PROVE  /\ Cardinality(Among(reminder \cup {x}, t .. t + LongHour, {v})) <= Hourly
               /\ Cardinality(Among(reminder \cup {x}, t .. t + LongDay, {v})) <= Daily
    BY <1>2, LimitsAreNumbers DEF AlwaysWithin, Within, Below
  <2>3. QED
    BY <2>1, <2>2 DEF Within
<1>4. QED
  BY <1>3 DEF AlwaysWithin

LEMMA CreateReminderStep ==
    ASSUME CreationInv, NEW u \in Creators, CreateReminder(u)
    PROVE  CreationInv'
<1> DEFINE x == [id |-> Cardinality(reminder), creator |-> u,
                 subject |-> creating[u].subject, at |-> now, edited |-> FALSE,
                 cancelled |-> FALSE]
<1>1. /\ CreationTyped /\ creating \in [Creators -> CreatingType] /\ now \in Nat
      /\ creating[u].pc = "counted" /\ Below(u) /\ Unlike(creating[u].subject)
      /\ IsFiniteSet(reminder) /\ reminder \subseteq Rows /\ now' = now
      /\ creating' = [creating EXCEPT ![u] = IdleCreation]
      /\ reminder' = reminder \cup {x}
  BY DEF CreateReminder, CreationInv, CreationTyped, CountedStays
<1>2. Cardinality(reminder) \in Nat
  BY <1>1, FS_CardinalityType
<1>3. /\ x \in Rows /\ x.id = Cardinality(reminder) /\ x.creator = u /\ x.at = now
      /\ x.subject = creating[u].subject
  BY <1>1, <1>2 DEF Rows, CreatingType, WithItsCase
<1> HIDE DEF x
<1>4. x \notin reminder
  BY <1>2, <1>3 DEF CreationInv, RowsAreNumbered
<1>5. Cardinality(reminder') = Cardinality(reminder) + 1 /\ IsFiniteSet(reminder')
  BY <1>1, <1>4, FS_AddElement
<1>6. IdleCreation \in CreatingType /\ IdleCreation.pc = "idle"
  BY DEF IdleCreation, CreatingType
<1>7. CreationTyped'
  BY <1>1, <1>3, <1>5, <1>6 DEF CreationTyped
<1>8. RowsAreNumbered'
  <2>1. \A r \in reminder : r.id < Cardinality(reminder) /\ r.id \in Nat
    BY <1>1 DEF CreationInv, RowsAreNumbered, Rows
  <2>2. QED
    BY <1>1, <1>2, <1>3, <1>5, <2>1 DEF CreationInv, RowsAreNumbered
<1>9. OneInside' /\ CountedStays'
  <2>1. \A v \in Creators : ~Inside(v)'
    BY <1>1, <1>6 DEF CreationInv, OneInside, Inside
  <2>2. QED
    BY <2>1 DEF OneInside, CountedStays, Inside
<1>10. AlwaysWithin'
  BY <1>1, <1>3, NewIsWithin DEF CreationInv
<1>11. NoReminderTwice'
  BY <1>1, <1>3 DEF CreationInv, NoReminderTwice, Unlike
<1>12. QED
  BY <1>7, <1>8, <1>9, <1>10, <1>11 DEF CreationInv

-----------------------------------------------------------------------------
(* Edits and time                                                          *)

\* A row in the place of another, still counted and unlike what is being created.
LEMMA ReplaceStep ==
    ASSUME CreationInv, NEW r \in reminder, NEW s \in Rows,
           s.id = r.id, s.at = r.at, s.creator = r.creator, UNCHANGED <<now, creating>>,
           reminder' = (reminder \ {r}) \cup {s},
           s.edited \/ s.cancelled
    PROVE  CreationInv'
<1>1. /\ CreationTyped /\ IsFiniteSet(reminder) /\ reminder \subseteq Rows /\ r \in Rows
      /\ RowsAreNumbered
  BY DEF CreationInv, CreationTyped
<1>2. ASSUME NEW times, NEW users
      PROVE  /\ Cardinality(Among(reminder', times, users))
                    <= Cardinality(Among(reminder, times, users))
             /\ Cardinality(Among(reminder, times, users)) \in Nat
             /\ Cardinality(Among(reminder', times, users)) \in Nat
  <2>1. IsFiniteSet((reminder \ {r}) \cup {s})
    BY <1>1, FS_RemoveElement, FS_AddElement
  <2>2. QED
    BY <1>1, <2>1, EditedStays, AmongIsCounted
<1>3. CreationTyped' /\ Cardinality(reminder') = Cardinality(reminder)
  <2> DEFINE rest == reminder \ {r}
  <2>1. s \notin rest
    BY <1>1 DEF RowsAreNumbered
  <2>2. IsFiniteSet(rest) /\ Cardinality(rest) = Cardinality(reminder) - 1
        /\ Cardinality(reminder) \in Nat
    BY <1>1, FS_RemoveElement, FS_CardinalityType
  <2> HIDE DEF rest
  <2>3. /\ IsFiniteSet(rest \cup {s})
        /\ Cardinality(rest \cup {s}) = Cardinality(rest) + 1
    BY <2>1, <2>2, FS_AddElement
  <2>4. QED
    BY <1>1, <2>2, <2>3 DEF rest, CreationTyped
<1>4. RowsAreNumbered'
  BY <1>1, <1>3 DEF RowsAreNumbered
<1>5. OneInside' /\ NoReminderTwice'
  BY DEF CreationInv, OneInside, Inside, NoReminderTwice
<1>6. ASSUME NEW u \in Creators, Below(u) PROVE Below(u)'
  BY <1>2, <1>6, LimitsAreNumbers DEF Below
<1>7. CountedStays'
  BY <1>6 DEF CreationInv, CountedStays, Unlike
<1>8. AlwaysWithin'
  <2>1. ASSUME NEW times, NEW users, NEW limit \in Nat,
               Cardinality(Among(reminder, times, users)) <= limit
        PROVE  Cardinality(Among(reminder', times, users)) <= limit
    BY <1>2, <2>1
  <2>2. ASSUME NEW t \in Nat, Within(t) PROVE Within(t)'
    BY <2>1, <2>2, LimitsAreNumbers, Zenon DEF Within
  <2>3. QED
    BY <2>2 DEF CreationInv, AlwaysWithin
<1>9. QED
  BY <1>3, <1>4, <1>5, <1>7, <1>8 DEF CreationInv

LEMMA EditStep ==
    ASSUME CreationInv, NEW r \in reminder, EditReminder(r) \/ CancelReminder(r)
    PROVE  CreationInv'
<1>1. r \in Rows /\ UNCHANGED <<now, creating>>
  BY DEF CreationInv, CreationTyped, EditReminder, CancelReminder
<1>2. CASE EditReminder(r)
  <2>1. PICK subject \in Subjects :
            reminder' = (reminder \ {r})
                           \cup {[r EXCEPT !.subject = subject, !.edited = TRUE]}
    BY <1>2 DEF EditReminder
  <2> DEFINE s == [r EXCEPT !.subject = subject, !.edited = TRUE]
  <2>2. s \in Rows /\ s.id = r.id /\ s.at = r.at /\ s.creator = r.creator /\ s.edited
    BY <1>1 DEF Rows
  <2>3. reminder' = (reminder \ {r}) \cup {s}
    BY <2>1
  <2> HIDE DEF s
  <2>4. QED
    BY <1>1, <2>2, <2>3, ReplaceStep
<1>3. CASE CancelReminder(r)
  <2> DEFINE s == [r EXCEPT !.cancelled = TRUE]
  <2>1. s \in Rows /\ s.id = r.id /\ s.at = r.at /\ s.creator = r.creator /\ s.cancelled
    BY <1>1 DEF Rows
  <2>2. reminder' = (reminder \ {r}) \cup {s}
    BY <1>3 DEF CancelReminder
  <2> HIDE DEF s
  <2>3. QED
    BY <1>1, <2>1, <2>2, ReplaceStep
<1>4. QED
  BY <1>2, <1>3

\* The hour and the day that count only move on.
LEMMA TimeStep ==
    ASSUME CreationInv, PassTime
    PROVE  CreationInv'
<1>1. /\ IsFiniteSet(reminder) /\ now \in Nat /\ now' = now + 1
      /\ UNCHANGED <<reminder, creating>>
  BY DEF CreationInv, CreationTyped, PassTime
<1>2. ASSUME NEW length \in Nat, NEW users, NEW limit \in Nat,
             Cardinality(Among(reminder, From(now - length), users)) < limit
      PROVE  Cardinality(Among(reminder, From(now + 1 - length), users)) < limit
  <2>1. From(now + 1 - length) \subseteq From(now - length)
    BY <1>1 DEF From
  <2>2. Cardinality(Among(reminder, From(now + 1 - length), users))
            <= Cardinality(Among(reminder, From(now - length), users))
    BY <1>1, <2>1, FewerTimes
  <2>3. /\ Cardinality(Among(reminder, From(now - length), users)) \in Nat
        /\ Cardinality(Among(reminder, From(now + 1 - length), users)) \in Nat
    BY <1>1, AmongIsCounted
  <2>4. QED
    BY <1>2, <2>2, <2>3
<1>3. ASSUME NEW u \in Creators, Below(u) PROVE Below(u)'
  BY <1>1, <1>2, <1>3, LimitsAreNumbers DEF Below
<1>4. CountedStays'
  BY <1>1, <1>3 DEF CreationInv, CountedStays, Unlike
<1>5. CreationTyped' /\ RowsAreNumbered' /\ OneInside' /\ AlwaysWithin' /\ NoReminderTwice'
  BY <1>1
  DEF CreationInv, CreationTyped, RowsAreNumbered, OneInside, Inside, AlwaysWithin,
      Within, NoReminderTwice
<1>6. QED
  BY <1>4, <1>5 DEF CreationInv

\* Every step keeps the invariant.
LEMMA CreationStep ==
    ASSUME CreationInv, [CreationNext]_creationVars PROVE CreationInv'
<1>1. CASE CreationNext
  BY <1>1, WaitStep, LockStep, CheckStep, CreateReminderStep, EditStep, TimeStep
  DEF CreationNext, CreationOpening, CreationWork, CreationMishap
<1>2. CASE UNCHANGED creationVars
  BY <1>2
  DEF creationVars, CreationInv, CreationTyped, RowsAreNumbered, OneInside, Inside,
      CountedStays, Below, Unlike, AlwaysWithin, Within, NoReminderTwice
<1>3. QED
  BY <1>1, <1>2

LEMMA CreationInvariance == CreationSpec => []CreationInv
BY InitCreation, CreationStep, PTL DEF CreationSpec

-----------------------------------------------------------------------------
(* What follows                                                            *)

\* The types of reminders and transactions.
THEOREM CreationTypes == CreationSpec => []CreationTypeOK
<1>1. CreationInv => CreationTypeOK
  BY DEF CreationInv, CreationTyped, RowsAreNumbered, CreationTypeOK, Rows, CreatingType
<1>2. QED
  BY <1>1, CreationInvariance, PTL

\* The limits of reminder-creation-limit.ts:27 hold in every hour and every day, for any
\* number of users that create at once, whatever is edited and cancelled meanwhile.
THEOREM LimitsHold == CreationSpec => []CreationsWithinLimits
<1>1. CreationInv => CreationsWithinLimits
  <2> SUFFICES ASSUME CreationInv, NEW t \in 0 .. now
               PROVE  /\ Cardinality({r \in reminder : r.at \in t .. t + LongDay}) <= InAll
                      /\ \A u \in Creators :
                             /\ Cardinality({r \in {q \in reminder : q.at \in t .. t + LongHour} :
                                                r.creator = u}) <= Hourly
                             /\ Cardinality({r \in {q \in reminder : q.at \in t .. t + LongDay} :
                                                r.creator = u}) <= Daily
    BY Zenon DEF CreationsWithinLimits
  <2>1. t \in Nat /\ Within(t) /\ reminder \subseteq Rows
    BY DEF CreationInv, CreationTyped, AlwaysWithin
  <2>2. {r \in reminder : r.at \in t .. t + LongDay} =
            Among(reminder, t .. t + LongDay, Creators)
    BY <2>1 DEF Among, Rows
  <2>3. ASSUME NEW u \in Creators, NEW times
        PROVE  {r \in {q \in reminder : q.at \in times} : r.creator = u} =
                   Among(reminder, times, {u})
    BY DEF Among
  <2>4. QED
    BY <2>1, <2>2, <2>3 DEF Within
<1>2. QED
  BY <1>1, CreationInvariance, PTL

\* Of two requests for the same reminder one finds the other's (add-case-activity.ts:51).
THEOREM CreatedOnce == CreationSpec => []NoReminderTwice
<1>1. CreationInv => NoReminderTwice
  BY DEF CreationInv
<1>2. QED
  BY <1>1, CreationInvariance, PTL
=============================================================================
