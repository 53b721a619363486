------------------------- MODULE CreateVerifyProofs -------------------------
(***************************************************************************)
(* Proofs about CreateVerify: a call creates its node at most once, its    *)
(* answer is final, and what it says of a duplicate and of a rollback is   *)
(* true.  They rest on what the bridge's queue holds of each caller: the   *)
(* one request whose answer it awaits and, before it, the one create of    *)
(* its call, while the call can still take either outcome.                 *)
(***************************************************************************)
EXTENDS CreateVerify, FiniteSetTheorems, SequenceTheorems, TLAPS

Awaits(q, c, i)   == q[i].by = c /\ q[i].waits
Creating(q, c, i) == q[i].by = c /\ q[i].op = "create" /\ q[i].was = "now"
Lost(q, i)        == q[i].op = "create" /\ q[i].was = "lost"

\* Of caller c the queue holds one request that it awaits and one create of its
\* call, which is not behind the other.
InOrder(q, c) ==
    /\ \A i, j \in DOMAIN q : Awaits(q, c, i) /\ Awaits(q, c, j) => i = j
    /\ \A i, j \in DOMAIN q : Creating(q, c, i) /\ Creating(q, c, j) => i = j
    /\ \A i, j \in DOMAIN q : Awaits(q, c, i) /\ Creating(q, c, j) => j <= i

\* A call k is one that _create_with_verify gets to.
Standing(k) ==
    /\ k.landed <= 1
    /\ k.pc # "idle" => k.class \in Classes
    /\ k.pc = "read" => k.why \in {"timeout", "unreachable", "exists"}
    /\ k.pc \in {"idle", "create"} => k.why = "none"

\* A create of the call k is in the queue q only while k is about to be answered
\* or reads back what a timeout has left open, and then none has landed.
Open(q, k, c) ==
    \A i \in DOMAIN q : Creating(q, c, i) =>
        /\ q[i].class = k.class /\ k.landed = 0
        /\ k.pc = "create" \/ (k.pc = "read" /\ k.why = "timeout")

\* The call k of c awaits a request of the queue q, its create at first.
Matches(q, k, c) ==
    /\ Open(q, k, c)
    /\ \A i \in DOMAIN q : Awaits(q, c, i) =>
          k.pc # "idle" /\ (k.pc = "create" => Creating(q, c, i))
    /\ k.pc # "idle" => \E i \in DOMAIN q : Awaits(q, c, i)

CallsSound ==
    \A c \in Callers : InOrder(queue, c) /\ Standing(call[c]) /\ Matches(queue, call[c], c)

\* What is awaited belongs to a call in progress, and no create to one that is over.
Aging(q) ==
    \A i \in DOMAIN q : /\ q[i].waits => q[i].was \in {"now", "past"}
                        /\ q[i].op = "create" => q[i].was # "done"

NodeOfCall ==
    node.was = "now" => /\ node.by \in Callers
                        /\ call[node.by].pc # "idle"
                        /\ call[node.by].class = node.class

\* The queue q is one caller's: what was lost comes before what is awaited.
Alone(q) ==
    /\ \A i, j \in DOMAIN q : q[i].by = q[j].by
    /\ \A i, j \in DOMAIN q : Lost(q, i) /\ q[j].waits => i < j

\* What was lost is remembered, or by now used up by the call that came upon it.
Recalled(q, m) == \A i \in DOMAIN q : Lost(q, i) => q[i].class \in m

NodeRecalled ==
    node.was = "lost" =>
        \/ node.class \in remembered
        \/ \E c \in Callers : call[c].why = "exists" /\ call[c].class = node.class

Solo == ~overlap => Alone(queue) /\ Recalled(queue, remembered) /\ NodeRecalled

CreateInv == TypeOK /\ CallsSound /\ Aging(queue) /\ NodeOfCall /\ Solo

------------------------------------------------------------------------------
(* Shorter queues.                                                         *)

\* The queue r is q without some of its requests; the callers of S may have given
\* up on theirs, of the others nothing is lost that they await.
Embeds(q, r, S) ==
    \E h \in [DOMAIN r -> DOMAIN q] :
        /\ \A i, j \in DOMAIN r : i < j => h[i] < h[j]
        /\ \A i \in DOMAIN r :
              \/ r[i] = q[h[i]]
              \/ q[h[i]].by \in S /\ r[i] = [q[h[i]] EXCEPT !.waits = FALSE]
        /\ \A j \in DOMAIN q : q[j].by \notin S /\ q[j].waits => \E i \in DOMAIN r : h[i] = j

Free(q, c)   == \A i \in DOMAIN q : ~Awaits(q, c, i)
Quiet(q, c)  == \A i \in DOMAIN q : ~Creating(q, c, i)
OnlyOf(q, c) == \A i \in DOMAIN q : q[i].by = c

\* What a shorter queue keeps: the order and the age of its requests, and of the
\* callers that have not given up what they await.
LEMMA ShorterKeeps ==
    ASSUME NEW q \in Seq(Requests), NEW r \in Seq(Requests), NEW S, Embeds(q, r, S)
    PROVE  /\ \A c : InOrder(q, c) => InOrder(r, c)
           /\ \A c, k : Open(q, k, c) => Open(r, k, c)
           /\ \A c, k : c \notin S /\ Matches(q, k, c) => Matches(r, k, c)
           /\ \A c : Quiet(q, c) => Quiet(r, c)
           /\ Aging(q) => Aging(r)
           /\ Alone(q) => Alone(r)
           /\ \A m : Recalled(q, m) => Recalled(r, m)
           /\ \A c : OnlyOf(q, c) => OnlyOf(r, c)
<1>1. PICK h \in [DOMAIN r -> DOMAIN q] :
        /\ \A i, j \in DOMAIN r : i < j => h[i] < h[j]
        /\ \A i \in DOMAIN r :
              \/ r[i] = q[h[i]]
              \/ q[h[i]].by \in S /\ r[i] = [q[h[i]] EXCEPT !.waits = FALSE]
        /\ \A j \in DOMAIN q : q[j].by \notin S /\ q[j].waits => \E i \in DOMAIN r : h[i] = j
  BY DEF Embeds
<1>2. /\ DOMAIN r \subseteq Nat /\ DOMAIN q \subseteq Nat
      /\ \A i \in DOMAIN q : q[i] \in Requests
      /\ \A i \in DOMAIN r : r[i] \in Requests /\ h[i] \in DOMAIN q
  BY <1>1, LenProperties, ElementOfSeq
<1>3. ASSUME NEW i \in DOMAIN r
      PROVE  /\ r[i].by = q[h[i]].by /\ r[i].op = q[h[i]].op
             /\ r[i].class = q[h[i]].class /\ r[i].was = q[h[i]].was
             /\ r[i].waits => q[h[i]].waits
             /\ r[i].by \notin S => r[i] = q[h[i]]
  <2>1. CASE r[i] = q[h[i]]
    BY <2>1
  <2>2. CASE q[h[i]].by \in S /\ r[i] = [q[h[i]] EXCEPT !.waits = FALSE]
    <3>1. q[h[i]] \in Requests
      BY <1>2
    <3>2. ~r[i].waits /\ r[i].by = q[h[i]].by /\ r[i].op = q[h[i]].op
          /\ r[i].class = q[h[i]].class /\ r[i].was = q[h[i]].was
      BY <2>2, <3>1 DEF Requests
    <3> QED
      BY <2>2, <3>2
  <2> QED
    BY <1>1, <2>1, <2>2
<1>4. \A i, j \in DOMAIN r : h[i] = h[j] => i = j
  BY <1>1, <1>2
<1>5. \A i, j \in DOMAIN r : h[i] <= h[j] => i <= j
  BY <1>1, <1>2
<1>6. \A c, i : i \in DOMAIN r =>
         /\ Awaits(r, c, i) => Awaits(q, c, h[i])
         /\ Creating(r, c, i) <=> Creating(q, c, h[i])
         /\ Lost(r, i) <=> Lost(q, h[i])
  BY <1>3 DEF Awaits, Creating, Lost
<1>7. \A c : InOrder(q, c) => InOrder(r, c)
  BY <1>2, <1>4, <1>5, <1>6 DEF InOrder
<1>8. \A c, k : Open(q, k, c) => Open(r, k, c)
  BY <1>2, <1>3, <1>6 DEF Open
<1>9. ASSUME NEW c, NEW k, c \notin S, Matches(q, k, c)
      PROVE  Matches(r, k, c)
  <2>1. ASSUME NEW i \in DOMAIN r, Awaits(r, c, i)
        PROVE  k.pc # "idle" /\ (k.pc = "create" => Creating(r, c, i))
    BY <1>2, <1>6, <1>9, <2>1 DEF Matches
  <2>2. ASSUME k.pc # "idle"
        PROVE  \E i \in DOMAIN r : Awaits(r, c, i)
    <3>1. PICK j \in DOMAIN q : Awaits(q, c, j)
      BY <1>9, <2>2 DEF Matches
    <3>2. PICK i \in DOMAIN r : h[i] = j
      BY <1>1, <1>9, <3>1 DEF Awaits
    <3> QED
      BY <1>1, <1>9, <3>1, <3>2 DEF Awaits
  <2> QED
    BY <1>8, <1>9, <2>1, <2>2 DEF Matches
<1>10. \A c : Quiet(q, c) => Quiet(r, c)
  BY <1>2, <1>6 DEF Quiet
<1>11. Aging(q) => Aging(r)
  BY <1>2, <1>3, ZenonT(40) DEF Aging
<1>12. Alone(q) => Alone(r)
  <2> SUFFICES ASSUME Alone(q)
               PROVE  Alone(r)
    OBVIOUS
  <2>1. \A i, j \in DOMAIN r : r[i].by = r[j].by
    BY <1>2, <1>3 DEF Alone
  <2>2. ASSUME NEW i \in DOMAIN r, NEW j \in DOMAIN r, Lost(r, i), r[j].waits
        PROVE  i < j
    <3>1. h[i] < h[j]
      BY <1>2, <1>3, <1>6, <2>2 DEF Alone
    <3> QED
      BY <1>2, <1>5, <3>1, i \in Nat, j \in Nat, h[i] \in Nat, h[j] \in Nat, i = j => h[i] = h[j]
  <2> QED
    BY <2>1, <2>2 DEF Alone
<1>13. \A m : Recalled(q, m) => Recalled(r, m)
  BY <1>2, <1>3, <1>6 DEF Recalled
<1>14. \A c : OnlyOf(q, c) => OnlyOf(r, c)
  BY <1>2, <1>3 DEF OnlyOf
<1> QED
  BY <1>7, <1>8, <1>9, <1>10, <1>11, <1>12, <1>13, <1>14

\* The oldest request is served: the others move up.
LEMMA TailShorter ==
    ASSUME NEW q \in Seq(Requests), q # <<>>, NEW S, Head(q).by \in S \/ ~Head(q).waits
    PROVE  Tail(q) \in Seq(Requests) /\ Embeds(q, Tail(q), S)
<1> DEFINE r == Tail(q)
           h == [i \in DOMAIN r |-> i + 1]
<1>1. /\ r \in Seq(Requests) /\ Len(r) = Len(q) - 1
      /\ \A i \in 1..Len(r) : r[i] = q[i + 1]
  BY HeadTailProperties
<1>2. Len(q) \in Nat \ {0} /\ DOMAIN q = 1..Len(q) /\ DOMAIN r = 1..(Len(q) - 1)
  BY <1>1, LenProperties, EmptySeq
<1>3. Head(q) = q[1]
  OBVIOUS
<1> HIDE DEF r
<1>4. h \in [DOMAIN r -> DOMAIN q] /\ \A i, j \in DOMAIN r : i < j => h[i] < h[j]
  BY <1>2
<1>5. \A i \in DOMAIN r : r[i] = q[h[i]]
  BY <1>1, <1>2
<1>6. ASSUME NEW j \in DOMAIN q, q[j].by \notin S, q[j].waits
      PROVE  \E i \in DOMAIN r : h[i] = j
  <2>1. j # 1
    BY <1>3, <1>6
  <2>2. j - 1 \in DOMAIN r /\ h[j - 1] = j
    BY <1>2, <2>1
  <2> QED
    BY <2>2
<1> QED
  BY <1>1, <1>4, <1>5, <1>6 DEF Embeds, r

\* One request leaves the queue, those behind it move up.
LEMMA RemoveShorter ==
    ASSUME NEW q \in Seq(Requests), NEW x \in DOMAIN q, NEW S, q[x].by \in S
    PROVE  /\ RemoveAt(q, x) \in Seq(Requests)
           /\ Embeds(q, RemoveAt(q, x), S)
           /\ \A i \in DOMAIN RemoveAt(q, x) :
                 \E j \in DOMAIN q \ {x} : RemoveAt(q, x)[i] = q[j]
<1> DEFINE before == SubSeq(q, 1, x - 1)
           behind == SubSeq(q, x + 1, Len(q))
           r == RemoveAt(q, x)
           h == [i \in DOMAIN r |-> IF i < x THEN i ELSE i + 1]
<1>1. Len(q) \in Nat /\ DOMAIN q = 1..Len(q) /\ x \in 1..Len(q)
  BY LenProperties
<1>2. \A i \in DOMAIN q : q[i] \in Requests
  BY <1>1, ElementOfSeq
<1>3. /\ before \in Seq(Requests) /\ Len(before) = x - 1
      /\ \A i \in 1..(x - 1) : before[i] = q[i]
  <2>1. /\ before \in Seq(Requests) /\ Len(before) = IF 1 <= x - 1 THEN x - 1 - 1 + 1 ELSE 0
        /\ \A i \in 1..(x - 1 - 1 + 1) : before[i] = q[1 + i - 1]
    <3>1. 1 \in Int /\ x - 1 \in Int /\ \A i \in 1..(x - 1) : q[i] \in Requests
      BY <1>1, <1>2
    <3> HIDE DEF before
    <3> QED
      BY <3>1, SubSeqProperties DEF before
  <2> QED
    BY <1>1, <2>1
<1>4. /\ behind \in Seq(Requests) /\ Len(behind) = Len(q) - x
      /\ \A i \in 1..(Len(q) - x) : behind[i] = q[x + i]
  <2>1. /\ behind \in Seq(Requests)
        /\ Len(behind) = IF x + 1 <= Len(q) THEN Len(q) - (x + 1) + 1 ELSE 0
        /\ \A i \in 1..(Len(q) - (x + 1) + 1) : behind[i] = q[(x + 1) + i - 1]
    <3>1. x + 1 \in Int /\ Len(q) \in Int /\ \A i \in (x + 1)..Len(q) : q[i] \in Requests
      BY <1>1, <1>2
    <3> QED
      BY <3>1, SubSeqProperties
  <2> QED
    BY <1>1, <2>1, SMTT(40)
<1> HIDE DEF before, behind
<1>5. r = before \o behind
  BY DEF RemoveAt, before, behind
<1>6. /\ r \in Seq(Requests) /\ Len(r) = Len(q) - 1
      /\ \A i \in 1..(Len(q) - 1) : r[i] = IF i < x THEN q[i] ELSE q[i + 1]
  <2>1. /\ before \o behind \in Seq(Requests)
        /\ Len(before \o behind) = Len(before) + Len(behind)
        /\ \A i \in 1..(Len(before) + Len(behind)) :
              (before \o behind)[i] =
                IF i <= Len(before) THEN before[i] ELSE behind[i - Len(before)]
    BY <1>3, <1>4, ConcatProperties
  <2> HIDE DEF r
  <2>2. Len(before) + Len(behind) = Len(q) - 1
    BY <1>1, <1>3, <1>4
  <2>3. ASSUME NEW i \in 1..(Len(q) - 1)
        PROVE  r[i] = IF i < x THEN q[i] ELSE q[i + 1]
    <3>1. r[i] = IF i <= x - 1 THEN before[i] ELSE behind[i - (x - 1)]
      BY <1>3, <1>5, <2>1, <2>2
    <3>2. CASE i < x
      BY <1>1, <1>3, <2>3, <3>1, <3>2
    <3>3. CASE ~(i < x)
      <4>1. i - (x - 1) \in 1..(Len(q) - x) /\ x + (i - (x - 1)) = i + 1 /\ ~(i <= x - 1)
        BY <1>1, <2>3, <3>3
      <4> QED
        BY <1>4, <3>1, <3>3, <4>1
    <3> QED
      BY <3>2, <3>3
  <2> QED
    BY <1>5, <2>1, <2>2, <2>3
<1>7. DOMAIN r = 1..(Len(q) - 1)
  BY <1>6, LenProperties
<1> HIDE DEF r
<1>8. h \in [DOMAIN r -> DOMAIN q] /\ \A i, j \in DOMAIN r : i < j => h[i] < h[j]
  BY <1>1, <1>7
<1>9. \A i \in DOMAIN r : r[i] = q[h[i]] /\ h[i] \in DOMAIN q \ {x}
  BY <1>1, <1>6, <1>7
<1>10. ASSUME NEW j \in DOMAIN q, q[j].by \notin S
       PROVE  \E i \in DOMAIN r : h[i] = j
  <2>1. j # x
    BY <1>10
  <2>2. CASE j < x
    <3>1. j \in DOMAIN r /\ h[j] = j
      BY <1>1, <1>7, <2>2
    <3> QED
      BY <3>1
  <2>3. CASE j > x
    <3>1. j - 1 \in DOMAIN r /\ h[j - 1] = j
      BY <1>1, <1>7, <2>3
    <3> QED
      BY <3>1
  <2> QED
    BY <1>1, <2>1, <2>2, <2>3
<1> HIDE DEF h
<1>11. Embeds(q, r, S)
  BY <1>8, <1>9, <1>10 DEF Embeds
<1> QED
  BY <1>6, <1>9, <1>11 DEF r

------------------------------------------------------------------------------
(* A request joins, and a call's requests age.                             *)

\* The caller of x, which awaits nothing else, sends x behind the others.
LEMMA AppendKeeps ==
    ASSUME NEW r \in Seq(Requests), NEW x \in Requests,
           x.waits, x.was = IF x.op = "create" THEN "now" ELSE "past", Free(r, x.by),
           x.op = "create" => Quiet(r, x.by)
    PROVE  /\ Append(r, x) \in Seq(Requests)
           /\ \A c : InOrder(r, c) => InOrder(Append(r, x), c)
           /\ \A c, k : c # x.by /\ Matches(r, k, c) => Matches(Append(r, x), k, c)
           /\ \A k : /\ Open(r, k, x.by)
                     /\ k.pc # "idle" /\ (x.op = "create" <=> k.pc = "create")
                     /\ k.pc = "create" => k.class = x.class /\ k.landed = 0
                     => Matches(Append(r, x), k, x.by)
           /\ Aging(r) => Aging(Append(r, x))
           /\ Alone(r) /\ OnlyOf(r, x.by) => Alone(Append(r, x))
           /\ \A m : Recalled(r, m) => Recalled(Append(r, x), m)
<1> DEFINE q == Append(r, x)
           n == Len(r) + 1
<1>1. /\ q \in Seq(Requests) /\ Len(q) = n
      /\ \A i \in 1..Len(r) : q[i] = r[i]
      /\ q[n] = x
  BY AppendProperties
<1>2. /\ Len(r) \in Nat /\ DOMAIN r = 1..Len(r) /\ DOMAIN q = 1..n
      /\ DOMAIN q = DOMAIN r \union {n} /\ n \notin DOMAIN r /\ \A i \in DOMAIN r : i < n
  BY <1>1, LenProperties
<1> HIDE DEF q, n
<1>3. \A i \in DOMAIN r : i \in DOMAIN q /\ q[i] = r[i]
  BY <1>1, <1>2
<1>4. \A c, i : i \in DOMAIN r =>
         /\ Awaits(q, c, i) <=> Awaits(r, c, i)
         /\ Creating(q, c, i) <=> Creating(r, c, i)
         /\ Lost(q, i) <=> Lost(r, i)
  BY <1>3 DEF Awaits, Creating, Lost
<1>5. \A c : /\ Awaits(q, c, n) <=> c = x.by
             /\ Creating(q, c, n) <=> c = x.by /\ x.op = "create"
             /\ ~Lost(q, n)
  BY <1>1 DEF Awaits, Creating, Lost
<1>6. \A i \in DOMAIN q : i \in DOMAIN r \/ i = n
  BY <1>2
<1>7. /\ \A i \in DOMAIN r : ~Awaits(r, x.by, i)
      /\ x.op = "create" => \A i \in DOMAIN r : ~Creating(r, x.by, i)
  BY DEF Free, Quiet
<1>8. ASSUME NEW c, InOrder(r, c)
      PROVE  InOrder(q, c)
  <2>1. ASSUME NEW i \in DOMAIN q, NEW j \in DOMAIN q, Awaits(q, c, i), Awaits(q, c, j)
        PROVE  i = j
    BY <1>4, <1>5, <1>8, <1>6, <1>7, <2>1 DEF InOrder
  <2>2. ASSUME NEW i \in DOMAIN q, NEW j \in DOMAIN q, Creating(q, c, i), Creating(q, c, j)
        PROVE  i = j
    BY <1>4, <1>5, <1>8, <1>6, <1>7, <2>2 DEF InOrder
  <2>3. ASSUME NEW i \in DOMAIN q, NEW j \in DOMAIN q, Awaits(q, c, i), Creating(q, c, j)
        PROVE  j <= i
    <3>1. CASE i = n
      BY <1>2, <3>1
    <3>2. CASE i # n
      <4>1. i \in DOMAIN r /\ Awaits(r, c, i)
        BY <1>4, <1>6, <2>3, <3>2
      <4>2. c # x.by
        BY <1>7, <4>1
      <4>3. j \in DOMAIN r /\ Creating(r, c, j)
        BY <1>4, <1>5, <1>6, <2>3, <4>2
      <4> QED
        BY <1>8, <4>1, <4>3 DEF InOrder
    <3> QED
      BY <3>1, <3>2
  <2> QED
    BY <2>1, <2>2, <2>3 DEF InOrder
<1>9. ASSUME NEW c, NEW k, c # x.by, Matches(r, k, c)
      PROVE  Matches(q, k, c)
  <2>1. ASSUME NEW i \in DOMAIN q, Awaits(q, c, i) \/ Creating(q, c, i)
        PROVE  /\ i \in DOMAIN r /\ q[i] = r[i]
               /\ Awaits(q, c, i) <=> Awaits(r, c, i)
               /\ Creating(q, c, i) <=> Creating(r, c, i)
    BY <1>3, <1>4, <1>5, <1>9, <1>6, <2>1
  <2>2. Open(q, k, c)
    BY <1>9, <2>1 DEF Matches, Open
  <2>3. \A i \in DOMAIN q : Awaits(q, c, i) =>
           k.pc # "idle" /\ (k.pc = "create" => Creating(q, c, i))
    BY <1>9, <2>1 DEF Matches
  <2>4. k.pc # "idle" => \E i \in DOMAIN q : Awaits(q, c, i)
    BY <1>3, <1>4, <1>9 DEF Matches
  <2> QED
    BY <2>2, <2>3, <2>4 DEF Matches
<1>10. ASSUME NEW k, Open(r, k, x.by), k.pc # "idle", x.op = "create" <=> k.pc = "create",
             k.pc = "create" => k.class = x.class /\ k.landed = 0
      PROVE  Matches(q, k, x.by)
  <2>1. ASSUME NEW i \in DOMAIN q, Creating(q, x.by, i)
        PROVE  /\ q[i].class = k.class /\ k.landed = 0
               /\ k.pc = "create" \/ (k.pc = "read" /\ k.why = "timeout")
    <3>1. CASE i = n
      BY <1>1, <1>5, <1>10, <2>1, <3>1
    <3>2. CASE i \in DOMAIN r
      BY <1>3, <1>4, <1>10, <2>1, <3>2 DEF Open
    <3> QED
      BY <1>6, <3>1, <3>2
  <2>2. \A i \in DOMAIN q : Awaits(q, x.by, i) => i = n
    BY <1>4, <1>6, <1>7
  <2>3. n \in DOMAIN q /\ Awaits(q, x.by, n) /\ (k.pc = "create" => Creating(q, x.by, n))
    BY <1>2, <1>5, <1>10
  <2> QED
    BY <1>10, <2>1, <2>2, <2>3 DEF Matches, Open
<1>11. Aging(r) => Aging(q)
  BY <1>1, <1>2, <1>3 DEF Aging
<1>12. Alone(r) /\ OnlyOf(r, x.by) => Alone(q)
  <2> SUFFICES ASSUME Alone(r), OnlyOf(r, x.by)
               PROVE  Alone(q)
    OBVIOUS
  <2>1. \A i \in DOMAIN q : q[i].by = x.by
    BY <1>1, <1>3, <1>6 DEF OnlyOf
  <2>2. ASSUME NEW i \in DOMAIN q, NEW j \in DOMAIN q, Lost(q, i), q[j].waits
        PROVE  i < j
    <3>1. i \in DOMAIN r /\ Lost(r, i)
      BY <1>4, <1>5, <1>6, <2>2
    <3>2. CASE j = n
      BY <1>2, <3>1, <3>2
    <3>3. CASE j \in DOMAIN r
      BY <1>3, <2>2, <3>1, <3>3 DEF Alone
    <3> QED
      BY <1>6, <3>2, <3>3
  <2> QED
    BY <2>1, <2>2 DEF Alone
<1>13. \A m : Recalled(r, m) => Recalled(q, m)
  BY <1>2, <1>3, <1>4, <1>5 DEF Recalled
<1> QED
  BY <1>1, <1>8, <1>9, <1>10, <1>11, <1>12, <1>13 DEF q

\* The call of c ends: none of its requests is awaited, and its create, if the queue
\* has it yet, is lost.
Older(r, c, was) == [i \in DOMAIN r |-> Aged(r[i], c, was)]

LEMMA AgedKeeps ==
    ASSUME NEW r \in Seq(Requests), NEW c, NEW was \in {"lost", "done"}, Free(r, c),
           was = "done" => Quiet(r, c)
    PROVE  /\ Older(r, c, was) \in Seq(Requests)
           /\ \A d : InOrder(r, d) => InOrder(Older(r, c, was), d)
           /\ \A d, k : d # c /\ Matches(r, k, d) => Matches(Older(r, c, was), k, d)
           /\ \A k : k.pc = "idle" => Matches(Older(r, c, was), k, c)
           /\ Aging(r) => Aging(Older(r, c, was))
           /\ Alone(r) /\ OnlyOf(r, c) => Alone(Older(r, c, was))
           /\ \A m : Recalled(r, m) /\ (\A i \in DOMAIN r : Creating(r, c, i) => r[i].class \in m)
                        => Recalled(Older(r, c, was), m)
<1> DEFINE q == Older(r, c, was)
<1>1. Len(r) \in Nat /\ DOMAIN r = 1..Len(r) /\ DOMAIN q = DOMAIN r
  BY LenProperties DEF Older
<1>2. \A i \in DOMAIN r : r[i] \in Requests
  BY <1>1, ElementOfSeq
<1>3. ASSUME NEW i \in DOMAIN r
      PROVE  /\ q[i] \in Requests
             /\ q[i].by = r[i].by /\ q[i].op = r[i].op /\ q[i].class = r[i].class
             /\ q[i].waits = r[i].waits
             /\ q[i].was = IF r[i].by = c /\ r[i].was = "now" THEN was ELSE r[i].was
  <2>1. r[i] \in Requests /\ q[i] = Aged(r[i], c, was)
    BY <1>2 DEF Older
  <2>2. CASE r[i].by = c /\ r[i].was = "now"
    BY <2>1, <2>2 DEF Aged, Requests, Ages
  <2>3. CASE ~(r[i].by = c /\ r[i].was = "now")
    BY <2>1, <2>3 DEF Aged
  <2> QED
    BY <2>2, <2>3
<1> HIDE DEF q
<1>4. q \in Seq(Requests)
  <2>1. q = [i \in 1..Len(r) |-> Aged(r[i], c, was)]
    BY <1>1 DEF q, Older
  <2>2. q \in [1..Len(r) -> Requests]
    BY <1>1, <1>3, <2>1
  <2> QED
    BY <1>1, <2>2, SeqDef
<1>5. \A d, i : i \in DOMAIN r =>
         /\ Awaits(q, d, i) <=> Awaits(r, d, i)
         /\ Creating(q, d, i) <=> d # c /\ Creating(r, d, i)
         /\ Lost(q, i) => Lost(r, i) \/ Creating(r, c, i)
  BY <1>3 DEF Awaits, Creating, Lost
<1>6. \A d : InOrder(r, d) => InOrder(q, d)
  BY <1>1, <1>5 DEF InOrder
<1>7. \A d, k : d # c /\ Matches(r, k, d) => Matches(q, k, d)
  BY <1>1, <1>3, <1>5 DEF Matches, Open
<1>8. \A k : k.pc = "idle" => Matches(q, k, c)
  BY <1>1, <1>5 DEF Matches, Open, Free
<1>9. Aging(r) => Aging(q)
  <2> SUFFICES ASSUME Aging(r), NEW i \in DOMAIN r
               PROVE  /\ q[i].waits => q[i].was \in {"now", "past"}
                      /\ q[i].op = "create" => q[i].was # "done"
    BY <1>1 DEF Aging
  <2>1. r[i].by = c => ~r[i].waits
    BY DEF Free, Awaits
  <2>2. r[i].by = c /\ r[i].was = "now" /\ r[i].op = "create" => was = "lost"
    BY DEF Quiet, Creating
  <2> QED
    BY <1>3, <2>1, <2>2 DEF Aging
<1>10. Alone(r) /\ OnlyOf(r, c) => Alone(q)
  <2> SUFFICES ASSUME Alone(r), OnlyOf(r, c)
               PROVE  Alone(q)
    OBVIOUS
  <2>1. \A i \in DOMAIN r : ~q[i].waits
    BY <1>3 DEF OnlyOf, Free, Awaits
  <2> QED
    BY <1>1, <1>3, <2>1 DEF Alone
<1>11. \A m : Recalled(r, m) /\ (\A i \in DOMAIN r : Creating(r, c, i) => r[i].class \in m)
                => Recalled(q, m)
  BY <1>1, <1>3, <1>5 DEF Recalled
<1> QED
  BY <1>4, <1>6, <1>7, <1>8, <1>9, <1>10, <1>11 DEF q

------------------------------------------------------------------------------
(* The three ways in which the request leaves that a caller awaits.        *)

\* r is the queue without the request that c awaits.
Leaves(r, c) == r \in Seq(Requests) /\ Embeds(queue, r, {c}) /\ Free(r, c)

\* Its turn has come: a create of the call has been served before, or now, and with
\* it whatever the caller had lost.
LEMMA ServedLeaves ==
    ASSUME TypeOK, CallsSound, NEW c \in Callers, NEW pc, Serving(c, pc)
    PROVE  /\ Leaves(Tail(queue), c) /\ Quiet(Tail(queue), c)
           /\ Alone(queue) => /\ OnlyOf(queue, c)
                              /\ \A i \in DOMAIN queue : ~Lost(queue, i)
<1> DEFINE r == Tail(queue)
<1>1. queue \in Seq(Requests) /\ queue # <<>> /\ Head(queue) = queue[1]
  BY DEF TypeOK, Serving
<1>2. /\ r \in Seq(Requests) /\ Len(r) = Len(queue) - 1
      /\ \A i \in 1..Len(r) : r[i] = queue[i + 1]
  BY <1>1, HeadTailProperties
<1>3. Len(queue) \in Nat \ {0} /\ DOMAIN queue = 1..Len(queue) /\ DOMAIN r = 1..(Len(queue) - 1)
  BY <1>1, <1>2, LenProperties, EmptySeq
<1>4. 1 \in DOMAIN queue /\ Awaits(queue, c, 1) /\ InOrder(queue, c)
  BY <1>1, <1>3 DEF Serving, Awaits, CallsSound
<1>5. \A i \in DOMAIN r : i + 1 \in DOMAIN queue /\ r[i] = queue[i + 1] /\ ~(i + 1 <= 1) /\ i + 1 # 1
  BY <1>2, <1>3
<1>6. Embeds(queue, r, {c})
  BY <1>1, TailShorter DEF Serving
<1> HIDE DEF r
<1>7. Free(r, c)
  BY <1>4, <1>5 DEF Free, Awaits, InOrder
<1>8. Quiet(r, c)
  <2>1. ASSUME NEW i \in DOMAIN r, Creating(r, c, i)
        PROVE  FALSE
    <3>1. Creating(queue, c, i + 1)
      BY <1>5, <2>1 DEF Creating
    <3>2. i + 1 <= 1
      BY <1>4, <1>5, <3>1 DEF InOrder
    <3> QED
      BY <1>5, <3>2
  <2> QED
    BY <2>1 DEF Quiet
<1>9. ASSUME Alone(queue)
      PROVE  OnlyOf(queue, c) /\ \A i \in DOMAIN queue : ~Lost(queue, i)
  <2>1. \A i \in DOMAIN queue : Lost(queue, i) => i < 1
    BY <1>4, <1>9 DEF Alone, Awaits
  <2>2. \A i \in DOMAIN queue : ~(i < 1)
    BY <1>3
  <2> QED
    BY <1>4, <1>9, <2>1, <2>2 DEF Alone, OnlyOf, Awaits
<1> QED
  BY <1>2, <1>6, <1>7, <1>8, <1>9 DEF Leaves, r

\* It never got through, or does nothing worth keeping.
LEMMA WithoutLeaves ==
    ASSUME TypeOK, CallsSound, NEW c \in Callers, call[c].pc # "idle"
    PROVE  /\ Leaves(Without(c), c)
           /\ call[c].pc = "create" => Quiet(Without(c), c)
<1> DEFINE x == Awaited(c)
           r == Without(c)
<1>1. queue \in Seq(Requests) /\ InOrder(queue, c) /\ Matches(queue, call[c], c)
  BY DEF TypeOK, CallsSound
<1>2. x \in DOMAIN queue /\ Awaits(queue, c, x)
  <2>1. \E i \in DOMAIN queue : queue[i].by = c /\ queue[i].waits
    BY <1>1 DEF Matches, Awaits
  <2> QED
    BY <2>1 DEF Awaited, Awaits
<1> HIDE DEF x
<1>3. queue[x].by \in {c} /\ r = RemoveAt(queue, x)
  BY <1>2 DEF Awaits, Without, x
<1>4. /\ r \in Seq(Requests) /\ Embeds(queue, r, {c})
      /\ \A i \in DOMAIN r : \E j \in DOMAIN queue \ {x} : r[i] = queue[j]
  BY <1>1, <1>2, <1>3, RemoveShorter
<1> HIDE DEF r
<1>5. Free(r, c)
  BY <1>1, <1>2, <1>4 DEF Free, Awaits, InOrder
<1>6. ASSUME call[c].pc = "create"
      PROVE  Quiet(r, c)
  <2>1. Creating(queue, c, x)
    BY <1>1, <1>2, <1>6 DEF Matches
  <2> QED
    BY <1>1, <1>2, <1>4, <2>1 DEF Quiet, Creating, InOrder
<1> QED
  BY <1>4, <1>5, <1>6 DEF Leaves, r

\* The caller gives up, the request stays.
LEMMA LeftLeaves ==
    ASSUME TypeOK, NEW c \in Callers
    PROVE  Leaves(Left(c), c)
<1> DEFINE r == Left(c)
           h == [i \in DOMAIN r |-> i]
<1>1. queue \in Seq(Requests) /\ Len(queue) \in Nat /\ DOMAIN queue = 1..Len(queue)
  BY LenProperties DEF TypeOK
<1>2. DOMAIN r = DOMAIN queue
  BY DEF Left
<1>3. ASSUME NEW i \in DOMAIN queue
      PROVE  /\ r[i] \in Requests
             /\ \/ r[i] = queue[i] /\ queue[i].by # c
                \/ queue[i].by = c /\ r[i] = [queue[i] EXCEPT !.waits = FALSE] /\ ~r[i].waits
  <2>1. queue[i] \in Requests
    BY <1>1, ElementOfSeq
  <2>2. CASE queue[i].by = c
    <3>1. r[i] = [queue[i] EXCEPT !.waits = FALSE]
      BY <2>2 DEF Left
    <3> QED
      BY <2>1, <2>2, <3>1 DEF Requests
  <2>3. CASE queue[i].by # c
    BY <2>1, <2>3 DEF Left
  <2> QED
    BY <2>2, <2>3
<1> HIDE DEF r
<1>4. r \in Seq(Requests)
  <2>1. r = [i \in 1..Len(queue) |-> r[i]]
    BY <1>1, <1>2 DEF r, Left
  <2>2. r \in [1..Len(queue) -> Requests]
    BY <1>1, <1>3, <2>1
  <2> QED
    BY <1>1, <2>2, SeqDef
<1>5. h \in [DOMAIN r -> DOMAIN queue] /\ \A i, j \in DOMAIN r : i < j => h[i] < h[j]
  BY <1>2
<1>6. \A i \in DOMAIN r : \/ r[i] = queue[h[i]]
                          \/ queue[h[i]].by \in {c} /\ r[i] = [queue[h[i]] EXCEPT !.waits = FALSE]
  BY <1>2, <1>3
<1>7. \A j \in DOMAIN queue : \E i \in DOMAIN r : h[i] = j
  BY <1>2
<1>8. Free(r, c)
  BY <1>2, <1>3 DEF Free, Awaits
<1> HIDE DEF h
<1>9. Embeds(queue, r, {c})
  BY <1>5, <1>6, <1>7 DEF Embeds
<1> QED
  BY <1>4, <1>8, <1>9 DEF Leaves, r

------------------------------------------------------------------------------
(* How the invariant is kept when a call goes on and when it ends.         *)

LEMMA CreateTypes ==
    ASSUME TypeOK
    PROVE  /\ node \in Nodes \cup {NoNode} /\ queue \in Seq(Requests)
           /\ remembered \subseteq Classes /\ call \in [Callers -> Calls]
           /\ \A c \in Callers : call[c] \in Calls
  BY DEF TypeOK

\* What a shorter queue is of the present one.
LEMMA LeavesKeeps ==
    ASSUME TypeOK, CallsSound, Aging(queue), NEW c \in Callers, call[c].pc # "idle",
           NEW r, Leaves(r, c)
    PROVE  /\ r \in Seq(Requests) /\ Free(r, c) /\ Open(r, call[c], c)
           /\ \A d \in Callers : InOrder(r, d)
           /\ \A d \in Callers \ {c} : Matches(r, call[d], d)
           /\ Quiet(queue, c) => Quiet(r, c)
           /\ Aging(r)
           /\ Alone(queue) => Alone(r) /\ OnlyOf(r, c)
           /\ \A m : Recalled(queue, m) => Recalled(r, m)
<1>1. queue \in Seq(Requests) /\ r \in Seq(Requests) /\ Embeds(queue, r, {c}) /\ Free(r, c)
  BY DEF TypeOK, Leaves
<1>2. \A d \in Callers : InOrder(queue, d) /\ Matches(queue, call[d], d)
  BY DEF CallsSound
<1>3. Open(queue, call[c], c)
  BY <1>2 DEF Matches
<1>4. /\ \A d : InOrder(queue, d) => InOrder(r, d)
      /\ \A d, k : Open(queue, k, d) => Open(r, k, d)
      /\ \A d, k : d \notin {c} /\ Matches(queue, k, d) => Matches(r, k, d)
      /\ \A d : Quiet(queue, d) => Quiet(r, d)
      /\ Aging(queue) => Aging(r)
      /\ Alone(queue) => Alone(r)
      /\ \A m : Recalled(queue, m) => Recalled(r, m)
      /\ \A d : OnlyOf(queue, d) => OnlyOf(r, d)
  BY <1>1, ShorterKeeps
<1>5. ASSUME Alone(queue)
      PROVE  OnlyOf(queue, c)
  <2>1. PICK i \in DOMAIN queue : queue[i].by = c
    BY <1>2 DEF Matches, Awaits
  <2> QED
    BY <1>5, <2>1 DEF Alone, OnlyOf
<1> QED
  BY <1>1, <1>2, <1>3, <1>4, <1>5

\* The call of c goes on: it sends op after the request that it awaited.
LEMMA Proceeds ==
    ASSUME CreateInv, NEW c \in Callers, call[c].pc # "idle", NEW r, Leaves(r, c),
           NEW op \in Ops \ {"create"}, queue' = Append(r, Request(c, op, call[c].class)),
           call' \in [Callers -> Calls], \A d \in Callers \ {c} : call'[d] = call[d],
           call'[c].pc \notin {"idle", "create"}, call'[c].class = call[c].class,
           call'[c].landed <= 1,
           call'[c].pc = "read" => call'[c].why \in {"timeout", "unreachable", "exists"},
           \/ Quiet(r, c)
           \/ /\ call'[c].pc = "read" /\ call'[c].why = "timeout"
              /\ call'[c].landed = call[c].landed,
           node' \in Nodes \cup {NoNode},
           node'.was = "now" => \/ node' = node
                                \/ node'.by = c /\ node'.class = call[c].class,
           node'.was = "lost" => node' = node,
           call[c].why = "exists" => call'[c].why = "exists",
           node'.was = "lost" /\ node.class \in remembered =>
             \/ node.class \in remembered'
             \/ call'[c].why = "exists" /\ call'[c].class = node.class,
           remembered' \subseteq Classes, ~overlap => Recalled(queue, remembered'),
           answer' = Silence, UNCHANGED <<overlap, events>>
    PROVE  CreateInv'
<1> DEFINE x == Request(c, op, call[c].class)
<1>1. TypeOK /\ CallsSound /\ Aging(queue) /\ NodeOfCall /\ Solo
  BY DEF CreateInv
<1>2. /\ \A d \in Callers : Standing(call[d])
      /\ call[c].class \in Classes
  BY <1>1 DEF CallsSound, Standing
<1>3. /\ x \in Requests /\ x.by = c /\ x.op # "create" /\ x.waits /\ x.was = "past"
  BY <1>2 DEF Request, Requests, Ages
<1>4. /\ r \in Seq(Requests) /\ Free(r, c) /\ Open(r, call[c], c)
      /\ \A d \in Callers : InOrder(r, d)
      /\ \A d \in Callers \ {c} : Matches(r, call[d], d)
      /\ Aging(r)
      /\ Alone(queue) => Alone(r) /\ OnlyOf(r, c)
      /\ \A m : Recalled(queue, m) => Recalled(r, m)
  BY <1>1, LeavesKeeps
<1> HIDE DEF x
<1>5. /\ queue' \in Seq(Requests)
      /\ \A d : InOrder(r, d) => InOrder(queue', d)
      /\ \A d, k : d # c /\ Matches(r, k, d) => Matches(queue', k, d)
      /\ \A k : /\ Open(r, k, c)
                /\ k.pc # "idle" /\ (x.op = "create" <=> k.pc = "create")
                /\ k.pc = "create" => k.class = x.class /\ k.landed = 0
                => Matches(queue', k, c)
      /\ Aging(r) => Aging(queue')
      /\ Alone(r) /\ OnlyOf(r, c) => Alone(queue')
      /\ \A m : Recalled(r, m) => Recalled(queue', m)
  BY <1>3, <1>4, AppendKeeps DEF x
<1>6. Open(r, call'[c], c)
  BY <1>4 DEF Open, Quiet
<1>7. Matches(queue', call'[c], c)
  BY <1>3, <1>5, <1>6
<1>8. CallsSound'
  <2>1. ASSUME NEW d \in Callers
        PROVE  InOrder(queue', d) /\ Standing(call'[d]) /\ Matches(queue', call'[d], d)
    <3>1. CASE d = c
      BY <1>2, <1>4, <1>5, <1>7, <3>1 DEF Standing
    <3>2. CASE d # c
      BY <1>2, <1>4, <1>5, <3>2
    <3> QED
      BY <3>1, <3>2
  <2> QED
    BY <2>1 DEF CallsSound
<1>9. TypeOK'
  BY <1>1, <1>5 DEF TypeOK
<1>10. NodeOfCall'
  <2>1. \A d \in Callers : call[d].pc # "idle" =>
           call'[d].pc # "idle" /\ call'[d].class = call[d].class
    OBVIOUS
  <2> QED
    BY <1>1, <2>1 DEF NodeOfCall
<1>11. Solo'
  <2> SUFFICES ASSUME ~overlap
               PROVE  Alone(queue') /\ Recalled(queue', remembered') /\ NodeRecalled'
    BY DEF Solo
  <2>1. Alone(queue) /\ NodeRecalled
    BY <1>1 DEF Solo
  <2>2. \A d \in Callers : call[d].why = "exists" =>
           call'[d].why = "exists" /\ call'[d].class = call[d].class
    OBVIOUS
  <2>3. NodeRecalled'
    BY <2>1, <2>2 DEF NodeRecalled
  <2> QED
    BY <1>4, <1>5, <2>1, <2>3
<1> QED
  BY <1>5, <1>4, <1>8, <1>9, <1>10, <1>11 DEF CreateInv

\* The call of c ends with the answer a, and the node is as n.
LEMMA Finishes ==
    ASSUME CreateInv, NEW c \in Callers, call[c].pc # "idle", NEW r, Leaves(r, c),
           NEW a \in Answers, NEW n \in Nodes \cup {NoNode}, EndsOver(c, a, r, n),
           a = "timeout" \/ Quiet(r, c),
           n.was = "now" => n = node \/ (n.by = c /\ n.class = call[c].class),
           n.was = "lost" => n = node /\ remembered \subseteq remembered',
           remembered' \subseteq Classes, a = "timeout" => call[c].class \in remembered',
           ~overlap => Recalled(queue, remembered'),
           UNCHANGED <<overlap, events>>
    PROVE  CreateInv'
<1> DEFINE was == IF a = "timeout" THEN "lost" ELSE "done"
<1>1. TypeOK /\ CallsSound /\ Aging(queue) /\ NodeOfCall /\ Solo
  BY DEF CreateInv
<1>2. /\ r \in Seq(Requests) /\ Free(r, c) /\ Open(r, call[c], c)
      /\ \A d \in Callers : InOrder(r, d)
      /\ \A d \in Callers \ {c} : Matches(r, call[d], d)
      /\ Aging(r)
      /\ Alone(queue) => Alone(r) /\ OnlyOf(r, c)
      /\ \A m : Recalled(queue, m) => Recalled(r, m)
  BY <1>1, LeavesKeeps
<1>3. /\ queue' = [i \in DOMAIN r |-> Aged(r[i], c, was)]
      /\ call' = [call EXCEPT ![c] = Idle]
      /\ answer' = [to |-> c, what |-> a]
  BY DEF EndsOver
<1>4. /\ queue' \in Seq(Requests)
      /\ \A d : InOrder(r, d) => InOrder(queue', d)
      /\ \A d, k : d # c /\ Matches(r, k, d) => Matches(queue', k, d)
      /\ \A k : k.pc = "idle" => Matches(queue', k, c)
      /\ Aging(r) => Aging(queue')
      /\ Alone(r) /\ OnlyOf(r, c) => Alone(queue')
      /\ \A m : Recalled(r, m) /\ (\A i \in DOMAIN r : Creating(r, c, i) => r[i].class \in m)
                   => Recalled(queue', m)
  <2>1. was \in {"lost", "done"} /\ (was = "done" => Quiet(r, c))
    OBVIOUS
  <2> HIDE DEF was
  <2>2. queue' = Older(r, c, was)
    BY <1>3 DEF Older
  <2> QED
    BY <1>2, <2>1, <2>2, AgedKeeps
<1>5. /\ call' \in [Callers -> Calls] /\ call'[c] = Idle
      /\ \A d \in Callers \ {c} : call'[d] = call[d]
      /\ Standing(Idle) /\ Idle.pc = "idle"
  BY <1>1, <1>3, CreateTypes DEF Idle, Calls, Pcs, Whys, Standing
<1>6. CallsSound'
  <2>1. ASSUME NEW d \in Callers
        PROVE  InOrder(queue', d) /\ Standing(call'[d]) /\ Matches(queue', call'[d], d)
    <3>1. CASE d = c
      BY <1>2, <1>4, <1>5, <3>1
    <3>2. CASE d # c
      BY <1>1, <1>2, <1>4, <1>5, <3>2 DEF CallsSound
    <3> QED
      BY <3>1, <3>2
  <2> QED
    BY <2>1 DEF CallsSound
<1>7. /\ node' \in Nodes \cup {NoNode} /\ node'.by = n.by /\ node'.class = n.class
      /\ node'.was = "now" => n.was = "now" /\ n.by # c
      /\ node'.was = "lost" => \/ n.was = "now" /\ n.by = c /\ a = "timeout"
                               \/ /\ n.was = "lost"
                                  /\ ~(call[c].why = "exists" /\ n.class = call[c].class)
  BY DEF EndsOver, Aged, Nodes, NoNode, Ages
<1>8. TypeOK'
  BY <1>1, <1>3, <1>4, <1>5, <1>7 DEF TypeOK
<1>9. NodeOfCall'
  BY <1>1, <1>5, <1>7 DEF NodeOfCall
<1>10. Solo'
  <2> SUFFICES ASSUME ~overlap
               PROVE  Alone(queue') /\ Recalled(queue', remembered') /\ NodeRecalled'
    BY DEF Solo
  <2>1. Alone(queue) /\ NodeRecalled
    BY <1>1 DEF Solo
  <2>2. Recalled(queue', remembered')
    <3>1. \A i \in DOMAIN r : Creating(r, c, i) => r[i].class \in remembered'
      BY <1>2 DEF Open, Quiet
    <3> QED
      BY <1>2, <1>4, <3>1
  <2>3. NodeRecalled'
    <3> SUFFICES ASSUME node'.was = "lost"
                 PROVE  \/ node'.class \in remembered'
                        \/ \E d \in Callers :
                             call'[d].why = "exists" /\ call'[d].class = node'.class
      BY DEF NodeRecalled
    <3>1. CASE n.was = "now" /\ n.by = c /\ a = "timeout"
      BY <1>1, <1>7, <3>1 DEF NodeOfCall
    <3>2. CASE n.was = "lost" /\ ~(call[c].why = "exists" /\ n.class = call[c].class)
      <4>1. CASE node.class \in remembered
        BY <1>7, <3>2, <4>1
      <4>2. CASE \E d \in Callers : call[d].why = "exists" /\ call[d].class = node.class
        BY <1>5, <1>7, <3>2, <4>2
      <4> QED
        BY <2>1, <3>2, <4>1, <4>2 DEF NodeRecalled
    <3> QED
      BY <1>7, <3>1, <3>2
  <2> QED
    BY <1>2, <1>4, <2>1, <2>2, <2>3
<1> QED
  BY <1>2, <1>4, <1>6, <1>8, <1>9, <1>10 DEF CreateInv

\* A call that neither creates nor reads back a timeout has no create in the queue.
LEMMA SettledQuiet ==
    ASSUME CreateInv, NEW c \in Callers, call[c].pc # "idle", NEW r, Leaves(r, c),
           call[c].pc # "create", call[c].pc = "read" => call[c].why # "timeout"
    PROVE  Quiet(r, c)
<1>1. TypeOK /\ CallsSound /\ Aging(queue)
  BY DEF CreateInv
<1>2. Quiet(queue, c)
  BY <1>1 DEF CallsSound, Matches, Open, Quiet
<1> QED
  BY <1>1, <1>2, LeavesKeeps

\* What is remembered goes for the queue.
LEMMA QueueRecalled ==
    ASSUME CreateInv, ~overlap
    PROVE  /\ Recalled(queue, remembered)
           /\ \A c \in Callers : \A pc, m : Serving(c, pc) => Recalled(queue, m)
<1>1. TypeOK /\ CallsSound /\ Alone(queue) /\ Recalled(queue, remembered)
  BY DEF CreateInv, Solo
<1>2. ASSUME NEW c \in Callers, NEW pc, NEW m, Serving(c, pc)
      PROVE  Recalled(queue, m)
  <2>1. \A i \in DOMAIN queue : ~Lost(queue, i)
    BY <1>1, <1>2, ServedLeaves
  <2> QED
    BY <2>1 DEF Recalled
<1> QED
  BY <1>1, <1>2

LEMMA SendsKeeps ==
    ASSUME CreateInv, NEW c \in Callers, call[c].pc # "idle", NEW r, Leaves(r, c), Quiet(r, c),
           NEW op \in Ops \ {"create"}, NEW pc \in Pcs \ {"idle", "create", "read"},
           Sends(c, pc, op, r), node' \in {node, NoNode},
           UNCHANGED <<remembered, overlap, events>>
    PROVE  CreateInv'
<1>1. /\ call \in [Callers -> Calls] /\ call[c] \in Calls /\ node \in Nodes \cup {NoNode}
      /\ Standing(call[c]) /\ remembered \subseteq Classes
  BY DEF CreateInv, TypeOK, CallsSound
<1>2. /\ call' = [call EXCEPT ![c].pc = pc] /\ answer' = Silence
      /\ queue' = Append(r, Request(c, op, call[c].class))
  BY DEF Sends
<1>3. /\ call' \in [Callers -> Calls] /\ \A d \in Callers \ {c} : call'[d] = call[d]
      /\ call'[c].pc = pc /\ call'[c].class = call[c].class /\ call'[c].why = call[c].why
      /\ call'[c].landed = call[c].landed
  BY <1>1, <1>2 DEF Calls
<1>4. NoNode.was = "past"
  BY DEF NoNode
<1>5. ~overlap => Recalled(queue, remembered')
  BY QueueRecalled
<1> QED
  BY <1>1, <1>2, <1>3, <1>4, <1>5, Proceeds DEF Standing

LEMMA ReadsBackKeeps ==
    ASSUME CreateInv, NEW c \in Callers, call[c].pc = "create", NEW r, Leaves(r, c),
           NEW why \in {"timeout", "unreachable", "exists"}, NEW n \in Nat,
           ReadsBack(c, why, n, r), why = "timeout" \/ Quiet(r, c),
           \/ remembered' = remembered
           \/ remembered' = remembered \ {call[c].class} /\ why = "exists",
           ~overlap => Recalled(queue, remembered'),
           UNCHANGED <<node, overlap, events>>
    PROVE  CreateInv'
<1>1. /\ call \in [Callers -> Calls] /\ call[c] \in Calls /\ node \in Nodes \cup {NoNode}
      /\ Standing(call[c]) /\ remembered \subseteq Classes
  BY DEF CreateInv, TypeOK, CallsSound
<1>2. /\ call' = [call EXCEPT ![c].pc = "read", ![c].why = why, ![c].reads = n]
      /\ queue' = Append(r, Request(c, "read", call[c].class)) /\ answer' = Silence
  BY DEF ReadsBack
<1>3. /\ call' \in [Callers -> Calls] /\ \A d \in Callers \ {c} : call'[d] = call[d]
      /\ call'[c].pc = "read" /\ call'[c].class = call[c].class /\ call'[c].why = why
      /\ call'[c].landed = call[c].landed
  BY <1>1, <1>2 DEF Calls, Pcs, Whys
<1>4. call[c].why = "none" /\ "read" \in Ops \ {"create"}
  BY <1>1 DEF Standing, Ops
<1> QED
  BY <1>1, <1>2, <1>3, <1>4, Proceeds DEF Standing

\* Any answer but the timeout.
LEMMA EndsKeeps ==
    ASSUME CreateInv, NEW c \in Callers, call[c].pc # "idle", NEW r, Leaves(r, c), Quiet(r, c),
           NEW a \in Answers \ {"timeout"}, NEW n \in {node, NoNode}, EndsOver(c, a, r, n),
           UNCHANGED <<remembered, overlap, events>>
    PROVE  CreateInv'
<1>1. /\ node \in Nodes \cup {NoNode} /\ remembered \subseteq Classes
      /\ NoNode.was = "past"
  BY DEF CreateInv, TypeOK, NoNode
<1>2. ~overlap => Recalled(queue, remembered')
  BY QueueRecalled
<1> QED
  BY <1>1, <1>2, Finishes

------------------------------------------------------------------------------
(* The steps of _create_with_verify.                                       *)

\* The create is the first in the queue, and the only one of its call.
LEMMA ServedFirst ==
    ASSUME CreateInv, NEW c \in Callers, Serving(c, "create")
    PROVE  call[c].landed = 0
<1>1. queue \in Seq(Requests) /\ queue # <<>> /\ Head(queue) = queue[1]
  BY DEF CreateInv, TypeOK, Serving
<1>2. 1 \in DOMAIN queue
  BY <1>1, LenProperties, EmptySeq
<1>3. Creating(queue, c, 1)
  BY <1>1, <1>2 DEF CreateInv, CallsSound, Matches, Awaits, Serving
<1> QED
  BY <1>2, <1>3 DEF CreateInv, CallsSound, Matches, Open

LEMMA CreateServedKeeps ==
    ASSUME CreateInv, NEW c \in Callers, CreateServed(c)
    PROVE  CreateInv'
<1> DEFINE class == call[c].class
           r == Tail(queue)
           new == Created(c, class, "now")
<1>1. Serving(c, "create") /\ call[c].pc = "create" /\ call[c].landed = 0
      /\ UNCHANGED <<overlap, events>> /\ node = NoNode
  BY ServedFirst DEF CreateServed, Serving
<1>2. Leaves(r, c) /\ Quiet(r, c)
  BY <1>1, ServedLeaves DEF CreateInv
<1>3. /\ call \in [Callers -> Calls] /\ call[c] \in Calls /\ remembered \subseteq Classes
      /\ class \in Classes /\ call[c].why = "none"
  BY <1>1 DEF CreateInv, TypeOK, CallsSound, Standing
<1>4. new \in Nodes /\ new.was = "now" /\ new.by = c /\ new.class = class
  BY <1>3 DEF Created, Nodes, Ages
<1> HIDE DEF r, new
<1>5. CASE /\ remembered' = remembered \ {class} /\ node' = new
           /\ call' = [call EXCEPT ![c].pc = "set", ![c].landed = @ + 1]
           /\ queue' = Append(r, Request(c, "set", class)) /\ answer' = Silence
  <2>1. /\ call' \in [Callers -> Calls] /\ \A d \in Callers \ {c} : call'[d] = call[d]
        /\ call'[c].pc = "set" /\ call'[c].class = class /\ call'[c].why = "none"
        /\ call'[c].landed = 1
    <3>1. call[c].landed + 1 = 1 /\ "set" \in Pcs
      BY <1>1 DEF Pcs
    <3>2. call' = [call EXCEPT ![c].pc = "set", ![c].landed = 1]
      BY <1>3, <1>5, <3>1
    <3> QED
      BY <1>3, <3>1, <3>2 DEF Calls
  <2>2. ~overlap => Recalled(queue, remembered')
    BY <1>1, QueueRecalled
  <2>3. PICK op \in Ops \ {"create"} : queue' = Append(r, Request(c, op, class))
    BY <1>5 DEF Ops
  <2>4. remembered' \subseteq Classes /\ answer' = Silence /\ node' = new
    BY <1>3, <1>5
  <2> QED
    BY ONLY CreateInv, c \in Callers, <1>1, <1>2, <1>3, <1>4, <2>1, <2>2, <2>3, <2>4, Proceeds
<1>6. CASE remembered' = remembered \ {class} /\ EndsOver(c, "created", r, new)
  <2>1. ~overlap => Recalled(queue, remembered')
    BY <1>1, QueueRecalled
  <2>2. "created" \in Answers
    BY DEF Answers
  <2> QED
    BY <1>1, <1>2, <1>3, <1>4, <1>6, <2>1, <2>2, Finishes
<1>7. CASE Ends(c, "failed", r) /\ UNCHANGED remembered
  BY <1>1, <1>2, <1>7, EndsKeeps DEF Ends, Answers
<1> QED
  BY <1>5, <1>6, <1>7 DEF CreateServed, r, new

LEMMA NameExistsKeeps ==
    ASSUME CreateInv, NEW c \in Callers, NameExists(c)
    PROVE  CreateInv'
<1> DEFINE r == Tail(queue)
<1>1. Serving(c, "create") /\ call[c].pc = "create" /\ UNCHANGED <<overlap, events>>
  BY DEF NameExists, Serving
<1>2. Leaves(r, c) /\ Quiet(r, c)
  BY <1>1, ServedLeaves DEF CreateInv
<1>3. ~overlap => Recalled(queue, remembered')
  BY <1>1, QueueRecalled
<1>4. remembered' = remembered \ {call[c].class}
  BY DEF NameExists
<1>5. CASE call[c].class \in remembered
  BY <1>1, <1>2, <1>3, <1>4, <1>5, ReadsBackKeeps DEF NameExists
<1>6. CASE call[c].class \notin remembered
  <2>1. Ends(c, "exists", r) /\ remembered' = remembered
    BY <1>4, <1>6 DEF NameExists
  <2> QED
    BY <1>1, <1>2, <2>1, EndsKeeps DEF Ends, Answers
<1> QED
  BY <1>5, <1>6

LEMMA TimesOutKeeps ==
    ASSUME CreateInv, NEW c \in Callers, CreateTimesOut(c) \/ CreateUnreachable(c)
    PROVE  CreateInv'
<1>1. /\ call[c].pc = "create" /\ UNCHANGED <<node, remembered, overlap, events>>
      /\ TypeOK /\ CallsSound
  BY DEF CreateTimesOut, CreateUnreachable, CreateInv
<1>2. ~overlap => Recalled(queue, remembered')
  BY <1>1, QueueRecalled
<1>3. CASE CreateTimesOut(c)
  <2>1. ReadsBack(c, "timeout", Attempts, Left(c)) /\ Leaves(Left(c), c) /\ Attempts \in Nat
    BY <1>1, <1>3, LeftLeaves, CreateAssumption DEF CreateTimesOut
  <2> QED
    BY <1>1, <1>2, <2>1, ReadsBackKeeps
<1>4. CASE CreateUnreachable(c)
  <2>1. /\ ReadsBack(c, "unreachable", 1, Without(c))
        /\ Leaves(Without(c), c) /\ Quiet(Without(c), c)
    BY <1>1, <1>4, WithoutLeaves DEF CreateUnreachable
  <2> QED
    BY <1>1, <1>2, <2>1, ReadsBackKeeps
<1> QED
  BY <1>3, <1>4

LEMMA DroppedKeeps ==
    ASSUME CreateInv, NEW c \in Callers, CreateDropped(c)
    PROVE  CreateInv'
<1> DEFINE r == Tail(queue)
           class == call[c].class
           new == Created(c, class, "now")
<1>1. /\ Serving(c, "create") /\ call[c].pc = "create" /\ call[c].landed = 0
      /\ UNCHANGED <<remembered, overlap, events>>
  BY ServedFirst DEF CreateDropped, Serving
<1>2. Leaves(r, c) /\ Quiet(r, c)
  BY <1>1, ServedLeaves DEF CreateInv
<1>3. ~overlap => Recalled(queue, remembered')
  BY <1>1, QueueRecalled
<1>4. /\ call \in [Callers -> Calls] /\ call[c] \in Calls /\ remembered \subseteq Classes
      /\ class \in Classes /\ call[c].why = "none"
  BY <1>1 DEF CreateInv, TypeOK, CallsSound, Standing
<1>5. new \in Nodes /\ new.was = "now" /\ new.by = c /\ new.class = class
  BY <1>4 DEF Created, Nodes, Ages
<1> HIDE DEF r, new
<1>6. CASE UNCHANGED node /\ ReadsBack(c, "timeout", Attempts, r)
  BY <1>1, <1>2, <1>3, <1>6, ReadsBackKeeps, CreateAssumption
<1>7. CASE /\ node' = new
           /\ call' = [call EXCEPT ![c].pc = "read", ![c].why = "timeout",
                                   ![c].reads = Attempts, ![c].landed = @ + 1]
           /\ queue' = Append(r, Request(c, "read", class)) /\ answer' = Silence
  <2>1. /\ call' \in [Callers -> Calls] /\ \A d \in Callers \ {c} : call'[d] = call[d]
        /\ call'[c].pc = "read" /\ call'[c].class = class /\ call'[c].why = "timeout"
        /\ call'[c].landed = 1
    BY <1>1, <1>4, <1>7, CreateAssumption DEF Calls, Pcs, Whys
  <2>2. "read" \in Ops \ {"create"}
    BY DEF Ops
  <2> QED
    BY <1>1, <1>2, <1>3, <1>4, <1>5, <1>7, <2>1, <2>2, Proceeds
<1> QED
  BY <1>6, <1>7 DEF CreateDropped, r, new

LEMMA ReadPresentKeeps ==
    ASSUME CreateInv, NEW c \in Callers, ReadPresent(c)
    PROVE  CreateInv'
<1> DEFINE r == Tail(queue)
<1>1. Serving(c, "read") /\ call[c].pc = "read" /\ UNCHANGED <<remembered, overlap, events>>
  BY DEF ReadPresent, Serving
<1>2. Leaves(r, c) /\ Quiet(r, c)
  BY <1>1, ServedLeaves DEF CreateInv
<1>3. \/ Ends(c, "other", r) \/ Ends(c, "verified", r)
      \/ Sends(c, "set", "set", r) /\ UNCHANGED node
  BY DEF ReadPresent
<1>4. CASE Sends(c, "set", "set", r) /\ UNCHANGED node
  BY <1>1, <1>2, <1>4, SendsKeeps DEF Ops, Pcs
<1> QED
  BY <1>1, <1>2, <1>3, <1>4, EndsKeeps DEF Ends, Answers

LEMMA ReadMissesKeeps ==
    ASSUME CreateInv, NEW c \in Callers, call[c].pc = "read", NEW r, Leaves(r, c),
           ReadMisses(c, r), UNCHANGED <<overlap, events>>
    PROVE  CreateInv'
<1>1. /\ call \in [Callers -> Calls] /\ call[c] \in Calls /\ remembered \subseteq Classes
      /\ node \in Nodes \cup {NoNode} /\ Standing(call[c]) /\ call[c].class \in Classes
  BY DEF CreateInv, TypeOK, CallsSound, Standing
<1>2. call[c].why = "timeout" \/ Quiet(r, c)
  BY SettledQuiet
<1>3. ~overlap => Recalled(queue, remembered)
  BY QueueRecalled
<1>4. CASE call[c].reads > 1
  <2>1. /\ call' = [call EXCEPT ![c].reads = @ - 1]
        /\ queue' = Append(r, Request(c, "read", call[c].class)) /\ answer' = Silence
        /\ UNCHANGED <<node, remembered>>
    BY <1>4 DEF ReadMisses
  <2>2. call[c].reads - 1 \in Nat
    BY <1>1, <1>4 DEF Calls
  <2>3. /\ call' \in [Callers -> Calls] /\ \A d \in Callers \ {c} : call'[d] = call[d]
        /\ call'[c].pc = "read" /\ call'[c].class = call[c].class
        /\ call'[c].why = call[c].why /\ call'[c].landed = call[c].landed
    BY <1>1, <2>1, <2>2 DEF Calls
  <2>4. "read" \in Ops \ {"create"}
    BY DEF Ops
  <2> QED
    BY <1>1, <1>2, <1>3, <2>1, <2>3, <2>4, Proceeds DEF Standing
<1>5. CASE ~(call[c].reads > 1)
  <2>1. /\ EndsOver(c, call[c].why, r, node)
        /\ remembered' = IF call[c].why = "timeout"
                         THEN remembered \cup {call[c].class} ELSE remembered
    BY <1>5 DEF ReadMisses, Ends
  <2>2. call[c].why \in Answers
    BY <1>1 DEF Standing, Answers
  <2>3. ~overlap => Recalled(queue, remembered')
    BY <1>3, <2>1 DEF Recalled
  <2> QED
    BY <1>1, <1>2, <2>1, <2>2, <2>3, Finishes
<1> QED
  BY <1>4, <1>5

LEMMA ReadAbsentKeeps ==
    ASSUME CreateInv, NEW c \in Callers, ReadAbsent(c) \/ ReadUnanswered(c)
    PROVE  CreateInv'
<1>1. call[c].pc = "read" /\ UNCHANGED <<overlap, events>> /\ TypeOK /\ CallsSound
  BY DEF ReadAbsent, ReadUnanswered, Serving, CreateInv
<1>2. CASE ReadAbsent(c)
  BY <1>1, <1>2, ServedLeaves, ReadMissesKeeps DEF ReadAbsent
<1>3. CASE ReadUnanswered(c)
  BY <1>1, <1>3, WithoutLeaves, ReadMissesKeeps DEF ReadUnanswered
<1> QED
  BY <1>2, <1>3

\* The one POST of a call.
LEMMA CallKeeps ==
    ASSUME CreateInv, NEW c \in Callers, NEW class \in Classes, NEW composite \in BOOLEAN,
           Call(c, class, composite)
    PROVE  CreateInv'
<1> DEFINE x == Request(c, "create", class)
           k == [Idle EXCEPT !.pc = "create", !.class = class, !.composite = composite]
<1>1. /\ TypeOK /\ CallsSound /\ Aging(queue) /\ NodeOfCall /\ Solo
      /\ queue \in Seq(Requests) /\ call \in [Callers -> Calls]
  BY DEF CreateInv, TypeOK
<1>2. /\ call[c].pc = "idle" /\ call' = [call EXCEPT ![c] = k]
      /\ queue' = Append(queue, x) /\ answer' = Silence
      /\ overlap' = (overlap \/ \E i \in DOMAIN queue : queue[i].by # c)
      /\ UNCHANGED <<node, remembered, events>>
  BY DEF Call
<1>3. /\ x \in Requests /\ x.by = c /\ x.op = "create" /\ x.waits /\ x.was = "now"
      /\ x.class = class
  BY DEF Request, Requests, Ops, Ages
<1>4. /\ k \in Calls /\ k.pc = "create" /\ k.class = class /\ k.landed = 0 /\ k.why = "none"
  BY DEF Idle, Calls, Pcs, Whys
<1> HIDE DEF x, k
<1>5. Free(queue, c) /\ Quiet(queue, c) /\ Open(queue, k, c)
  BY <1>1, <1>2 DEF CallsSound, Matches, Open, Free, Quiet
<1>6. /\ queue' \in Seq(Requests)
      /\ \A d : InOrder(queue, d) => InOrder(queue', d)
      /\ \A d, l : d # c /\ Matches(queue, l, d) => Matches(queue', l, d)
      /\ \A l : /\ Open(queue, l, c)
                /\ l.pc # "idle" /\ (x.op = "create" <=> l.pc = "create")
                /\ l.pc = "create" => l.class = x.class /\ l.landed = 0
                => Matches(queue', l, c)
      /\ Aging(queue) => Aging(queue')
      /\ Alone(queue) /\ OnlyOf(queue, c) => Alone(queue')
      /\ \A m : Recalled(queue, m) => Recalled(queue', m)
  BY <1>1, <1>2, <1>3, <1>5, AppendKeeps
<1>7. /\ call' \in [Callers -> Calls] /\ call'[c] = k /\ Standing(k)
      /\ \A d \in Callers \ {c} : call'[d] = call[d]
  BY <1>1, <1>2, <1>4 DEF Standing
<1>8. Matches(queue', k, c)
  BY <1>3, <1>4, <1>5, <1>6
<1>9. CallsSound'
  <2>1. ASSUME NEW d \in Callers
        PROVE  InOrder(queue', d) /\ Standing(call'[d]) /\ Matches(queue', call'[d], d)
    <3>1. CASE d = c
      BY <1>1, <1>6, <1>7, <1>8, <3>1 DEF CallsSound
    <3>2. CASE d # c
      BY <1>1, <1>6, <1>7, <3>2 DEF CallsSound
    <3> QED
      BY <3>1, <3>2
  <2> QED
    BY <2>1 DEF CallsSound
<1>10. TypeOK'
  <2>1. overlap' \in BOOLEAN
    BY <1>2
  <2> QED
    BY <1>1, <1>2, <1>6, <1>7, <2>1 DEF TypeOK
<1>11. NodeOfCall'
  BY <1>1, <1>2, <1>7 DEF NodeOfCall
<1>12. Solo'
  <2> SUFFICES ASSUME ~overlap'
               PROVE  Alone(queue') /\ Recalled(queue', remembered') /\ NodeRecalled'
    BY DEF Solo
  <2>1. ~overlap /\ OnlyOf(queue, c)
    BY <1>2 DEF OnlyOf
  <2>2. Alone(queue) /\ Recalled(queue, remembered) /\ NodeRecalled
    BY <1>1, <2>1 DEF Solo
  <2>3. \A d \in Callers : call[d].why = "exists" => d # c
    BY <1>1, <1>2 DEF CallsSound, Standing
  <2> QED
    BY <1>2, <1>6, <1>7, <2>1, <2>2, <2>3 DEF NodeRecalled
<1> QED
  BY <1>1, <1>6, <1>9, <1>10, <1>11, <1>12 DEF CreateInv

------------------------------------------------------------------------------
(* The steps of a composite.                                               *)

LEMMA CompositeKeeps ==
    ASSUME CreateInv, NEW c \in Callers, CompositeStep(c)
    PROVE  CreateInv'
<1>1. TypeOK /\ CallsSound
  BY DEF CreateInv
<1>2. ASSUME NEW pc, Serving(c, pc)
      PROVE  call[c].pc = pc /\ Leaves(Tail(queue), c) /\ Quiet(Tail(queue), c)
  BY <1>1, <1>2, ServedLeaves DEF Serving
<1>3. ASSUME call[c].pc \in {"set", "delete", "check", "redelete"},
             NEW q \in {Left(c), Without(c)}
      PROVE  Leaves(q, c) /\ Quiet(q, c)
  <2>1. Leaves(q, c)
    BY <1>1, <1>3, LeftLeaves, WithoutLeaves
  <2> QED
    BY <1>3, <2>1, SettledQuiet
<1>4. /\ {"read", "set", "delete"} \subseteq Ops \ {"create"}
      /\ {"set", "delete", "check", "redelete"} \subseteq Pcs \ {"idle", "create", "read"}
      /\ {"configured", "loading", "rolled_back", "orphaned"} \subseteq Answers \ {"timeout"}
  BY DEF Ops, Pcs, Answers
<1>5. CASE SetServed(c)
  <2>1. /\ Serving(c, "set") /\ UNCHANGED <<remembered, overlap, events>>
        /\ \/ Sends(c, "set", "set", Tail(queue)) /\ UNCHANGED node
           \/ EndsOver(c, "configured", Tail(queue), node)
    BY <1>5 DEF SetServed, Ends
  <2> QED
    BY <1>2, <1>4, <2>1, SendsKeeps, EndsKeeps
<1>6. CASE SetFails(c)
  <2>1. /\ call[c].pc = "set" /\ UNCHANGED <<node, remembered, overlap, events>>
        /\ \E q \in {Tail(queue), Without(c)} :
             Leaves(q, c) /\ Quiet(q, c) /\ Sends(c, "delete", "delete", q)
    BY <1>2, <1>3, <1>6 DEF SetFails
  <2> QED
    BY <1>4, <2>1, SendsKeeps
<1>7. CASE SetDropped(c)
  <2>1. /\ Serving(c, "set") /\ UNCHANGED <<remembered, overlap, events>>
        /\ EndsOver(c, "loading", Tail(queue), node)
    BY <1>7 DEF SetDropped, Ends
  <2> QED
    BY <1>2, <1>4, <2>1, EndsKeeps
<1>8. CASE DeleteServed(c)
  <2>1. /\ Serving(c, "delete") /\ UNCHANGED <<remembered, overlap, events>>
        /\ \/ EndsOver(c, "rolled_back", Tail(queue), NoNode)
           \/ EndsOver(c, "orphaned", Tail(queue), node)
    BY <1>8 DEF DeleteServed, Ends
  <2> QED
    BY <1>2, <1>4, <2>1, EndsKeeps
<1>9. CASE DeleteUnanswered(c)
  <2>1. /\ call[c].pc = "delete" /\ UNCHANGED <<node, remembered, overlap, events>>
        /\ \E q \in {Left(c), Without(c)} :
             Leaves(q, c) /\ Quiet(q, c) /\ Sends(c, "check", "read", q)
    BY <1>3, <1>9 DEF DeleteUnanswered
  <2> QED
    BY <1>4, <2>1, SendsKeeps
<1>10. CASE DeleteDropped(c)
  <2>1. /\ Serving(c, "delete") /\ UNCHANGED <<remembered, overlap, events>>
        /\ node' \in {node, NoNode} /\ Sends(c, "check", "read", Tail(queue))
    BY <1>10 DEF DeleteDropped
  <2> QED
    BY <1>2, <1>4, <2>1, SendsKeeps
<1>11. CASE Check(c)
  <2>1. /\ Serving(c, "check") /\ UNCHANGED <<remembered, overlap, events>>
        /\ \/ EndsOver(c, "rolled_back", Tail(queue), node)
           \/ Sends(c, "redelete", "delete", Tail(queue)) /\ UNCHANGED node
    BY <1>11 DEF Check, Ends
  <2> QED
    BY <1>2, <1>4, <2>1, SendsKeeps, EndsKeeps
<1>12. CASE CheckUnanswered(c)
  <2>1. /\ call[c].pc = "check" /\ UNCHANGED <<node, remembered, overlap, events>>
        /\ Sends(c, "redelete", "delete", Without(c))
    BY <1>12 DEF CheckUnanswered
  <2> QED
    BY <1>3, <1>4, <2>1, SendsKeeps
<1>13. CASE Redelete(c)
  <2>1. /\ Serving(c, "redelete") /\ UNCHANGED <<remembered, overlap, events>>
        /\ \/ EndsOver(c, "rolled_back", Tail(queue), NoNode)
           \/ EndsOver(c, "orphaned", Tail(queue), node)
    BY <1>13 DEF Redelete, Ends
  <2> QED
    BY <1>2, <1>4, <2>1, EndsKeeps
<1>14. CASE RedeleteUnanswered(c)
  <2>1. /\ call[c].pc = "redelete" /\ UNCHANGED <<remembered, overlap, events>>
        /\ \E q \in {Left(c), Without(c)} :
             Leaves(q, c) /\ Quiet(q, c) /\ EndsOver(c, "orphaned", q, node)
    BY <1>3, <1>14 DEF RedeleteUnanswered, Ends
  <2> QED
    BY <1>4, <2>1, EndsKeeps
<1> QED
  BY <1>5, <1>6, <1>7, <1>8, <1>9, <1>10, <1>11, <1>12, <1>13, <1>14 DEF CompositeStep

------------------------------------------------------------------------------
(* The steps of the bridge, of Studio and of time.                         *)

\* An abandoned request is served.
LEMMA ServesAbandonedKeeps ==
    ASSUME CreateInv, ServesAbandoned
    PROVE  CreateInv'
<1> DEFINE r == Tail(queue)
           x == Head(queue)
           lands == x.op = "create" /\ node = NoNode
           new == Created(x.by, x.class, x.was)
<1>1. /\ TypeOK /\ CallsSound /\ Aging(queue) /\ NodeOfCall /\ Solo
      /\ queue \in Seq(Requests) /\ call \in [Callers -> Calls] /\ node \in Nodes \cup {NoNode}
  BY DEF CreateInv, TypeOK
<1>2. /\ queue # <<>> /\ ~x.waits /\ queue' = r /\ answer' = Silence
      /\ node' = IF lands THEN new ELSE IF x.op = "delete" THEN NoNode ELSE node
      /\ call' = IF lands /\ x.was = "now" THEN [call EXCEPT ![x.by].landed = @ + 1] ELSE call
      /\ UNCHANGED <<remembered, overlap, events>>
  BY DEF ServesAbandoned
<1>3. 1 \in DOMAIN queue /\ x = queue[1] /\ x \in Requests
  BY <1>1, <1>2, LenProperties, EmptySeq, HeadTailProperties
<1>4. r \in Seq(Requests) /\ Embeds(queue, r, {})
  BY <1>1, <1>2, TailShorter
<1> HIDE DEF r
<1>5. /\ \A c : InOrder(queue, c) => InOrder(r, c)
      /\ \A c, k : c \notin {} /\ Matches(queue, k, c) => Matches(r, k, c)
      /\ Aging(queue) => Aging(r)
      /\ Alone(queue) => Alone(r)
      /\ \A m : Recalled(queue, m) => Recalled(r, m)
  BY <1>1, <1>4, ShorterKeeps
<1>6. \A i \in DOMAIN r : i + 1 \in DOMAIN queue /\ r[i] = queue[i + 1] /\ i + 1 # 1
  BY <1>1, <1>2, HeadTailProperties, LenProperties, EmptySeq DEF r
<1>7. new \in Nodes /\ new.by = x.by /\ new.class = x.class /\ new.was = x.was /\ x.by \in Callers
  BY <1>3 DEF Created, Nodes, Requests
<1> HIDE DEF x, new
<1>8. ASSUME x.op = "create", x.was = "now"
      PROVE  /\ call[x.by].landed = 0 /\ call[x.by].class = x.class /\ call[x.by].pc # "idle"
             /\ Quiet(r, x.by)
  <2>1. Creating(queue, x.by, 1) /\ x.by \in Callers
    BY <1>3, <1>7, <1>8 DEF Creating
  <2>2. InOrder(queue, x.by) /\ Open(queue, call[x.by], x.by)
    BY <1>1, <2>1 DEF CallsSound, Matches
  <2>3. Quiet(r, x.by)
    BY <1>3, <1>6, <2>1, <2>2 DEF Quiet, InOrder, Creating
  <2> QED
    BY <1>3, <2>1, <2>2, <2>3 DEF Open
<1>9. ASSUME NEW c \in Callers
      PROVE  /\ call'[c] \in Calls /\ InOrder(r, c) /\ Standing(call'[c]) /\ Matches(r, call'[c], c)
             /\ call'[c].pc = call[c].pc /\ call'[c].class = call[c].class
             /\ call'[c].why = call[c].why
  <2>1. /\ call[c] \in Calls /\ InOrder(r, c) /\ Standing(call[c]) /\ Matches(r, call[c], c)
    BY <1>1, <1>5 DEF CallsSound
  <2>2. CASE lands /\ x.was = "now" /\ c = x.by
    <3>1. call[c].landed = 0 /\ Quiet(r, c)
      BY <1>8, <2>2
    <3>2. call' = [call EXCEPT ![c].landed = @ + 1]
      BY <1>2, <2>2
    <3>3. call'[c] = [call[c] EXCEPT !.landed = 1]
      BY <1>1, <3>1, <3>2
    <3>4. /\ call'[c] \in Calls /\ call'[c].pc = call[c].pc /\ call'[c].class = call[c].class
          /\ call'[c].why = call[c].why /\ call'[c].landed = 1
      BY <2>1, <3>3 DEF Calls
    <3> QED
      BY <2>1, <3>1, <3>4 DEF Standing, Matches, Open, Quiet
  <2>3. CASE ~(lands /\ x.was = "now" /\ c = x.by)
    <3>1. call'[c] = call[c]
      BY <1>1, <1>2, <1>7, <2>3
    <3> QED
      BY <2>1, <3>1
  <2> QED
    BY <2>2, <2>3
<1>10. CallsSound'
  BY <1>2, <1>9 DEF CallsSound
<1>11. TypeOK'
  <2>1. call' \in [Callers -> Calls]
    <3>1. call' = [c \in Callers |-> call'[c]]
      BY <1>1, <1>2
    <3> QED
      BY <1>9, <3>1
  <2>2. Silence \in {Silence} /\ node' \in Nodes \cup {NoNode}
    BY <1>1, <1>2, <1>7
  <2> QED
    BY <1>1, <1>2, <1>4, <2>1, <2>2 DEF TypeOK
<1>12. NodeOfCall'
  <2>1. NoNode.was = "past"
    BY DEF NoNode
  <2>2. CASE lands
    BY <1>2, <1>7, <1>8, <1>9, <2>2 DEF NodeOfCall
  <2>3. CASE ~lands
    BY <1>1, <1>2, <1>9, <2>1, <2>3 DEF NodeOfCall
  <2> QED
    BY <2>2, <2>3
<1>13. Solo'
  <2> SUFFICES ASSUME ~overlap
               PROVE  Alone(r) /\ Recalled(r, remembered) /\ NodeRecalled'
    BY <1>2 DEF Solo
  <2>1. Alone(queue) /\ Recalled(queue, remembered) /\ NodeRecalled
    BY <1>1 DEF Solo
  <2>2. NoNode.was = "past"
    BY DEF NoNode
  <2>3. NodeRecalled'
    <3>1. CASE lands
      BY <1>2, <1>3, <1>7, <2>1, <3>1 DEF NodeRecalled, Recalled, Lost
    <3>2. CASE ~lands
      BY <1>2, <1>9, <2>1, <2>2, <3>2 DEF NodeRecalled
    <3> QED
      BY <3>1, <3>2
  <2> QED
    BY <1>5, <2>1, <2>3
<1> QED
  BY <1>1, <1>2, <1>5, <1>10, <1>11, <1>12, <1>13 DEF CreateInv

\* The awaited requests are sent again.
LEMMA ListenerKeeps ==
    ASSUME CreateInv, ListenerRestarts
    PROVE  CreateInv'
<1> DEFINE kept == DOMAIN queue \ Abandoned
           again == {queue[i] : i \in kept}
           n == Cardinality(again)
<1>1. /\ TypeOK /\ CallsSound /\ Aging(queue) /\ NodeOfCall /\ Solo
      /\ queue \in Seq(Requests)
  BY DEF CreateInv, TypeOK
<1>2. /\ queue' \in Bijection(1..n, again) /\ answer' = Silence
      /\ UNCHANGED <<node, remembered, call, overlap, events>>
  BY DEF ListenerRestarts
<1>3. /\ DOMAIN queue = 1..Len(queue) /\ Len(queue) \in Nat
      /\ \A i \in DOMAIN queue : queue[i] \in Requests
  BY <1>1, LenProperties, ElementOfSeq
<1>4. n \in Nat
  <2>1. IsFiniteSet(1..Len(queue))
    BY <1>3, FS_Interval
  <2>2. IsFiniteSet(kept)
    BY <1>3, <2>1, FS_Subset
  <2>3. [i \in kept |-> queue[i]] \in Surjection(kept, again)
    BY DEF Surjection
  <2>4. IsFiniteSet(again)
    BY <2>2, <2>3, FS_Surjection
  <2> QED
    BY <2>4, FS_CardinalityType
<1> HIDE DEF n
<1>5. /\ queue' \in [1..n -> again]
      /\ \A i, j \in 1..n : queue'[i] = queue'[j] => i = j
      /\ \A x \in again : \E i \in 1..n : queue'[i] = x
  BY <1>2 DEF Bijection, Injection, Surjection, IsInjective
<1>6. again \subseteq Requests
  BY <1>3
<1>7. queue' \in Seq(Requests) /\ DOMAIN queue' = 1..n
  <2>1. queue' \in [1..n -> Requests]
    BY <1>5, <1>6
  <2> QED
    BY <1>4, <2>1, SeqDef
<1>8. \A i \in DOMAIN queue' : \E j \in DOMAIN queue : queue'[i] = queue[j] /\ queue[j].waits
  BY <1>5, <1>7 DEF Abandoned
<1>9. \A j \in DOMAIN queue : queue[j].waits => \E i \in DOMAIN queue' : queue'[i] = queue[j]
  BY <1>5, <1>7 DEF Abandoned
<1> HIDE DEF kept, again
<1>10. ASSUME NEW i \in DOMAIN queue', NEW j \in DOMAIN queue', queue'[i].by = queue'[j].by
       PROVE  i = j
  <2>1. PICK k \in DOMAIN queue : queue'[i] = queue[k] /\ queue[k].waits
    BY <1>8
  <2>2. PICK l \in DOMAIN queue : queue'[j] = queue[l] /\ queue[l].waits
    BY <1>8
  <2>3. queue[k].by \in Callers
    BY <1>3 DEF Requests
  <2>4. k = l
    BY <1>1, <1>10, <2>1, <2>2, <2>3 DEF CallsSound, InOrder, Awaits
  <2> QED
    BY <1>5, <1>7, <2>1, <2>2, <2>4
<1>11. \A c : InOrder(queue', c)
  BY <1>4, <1>7, <1>10 DEF InOrder, Awaits, Creating
<1>12. ASSUME NEW c \in Callers
       PROVE  Matches(queue', call[c], c)
  <2>1. Matches(queue, call[c], c)
    BY <1>1 DEF CallsSound
  <2>2. ASSUME NEW i \in DOMAIN queue'
        PROVE  \E j \in DOMAIN queue : /\ queue'[i] = queue[j]
                                       /\ Awaits(queue', c, i) <=> Awaits(queue, c, j)
                                       /\ Creating(queue', c, i) <=> Creating(queue, c, j)
    BY <1>8 DEF Awaits, Creating
  <2>3. Open(queue', call[c], c)
    BY <2>1, <2>2 DEF Matches, Open
  <2>4. \A i \in DOMAIN queue' : Awaits(queue', c, i) =>
           call[c].pc # "idle" /\ (call[c].pc = "create" => Creating(queue', c, i))
    BY <2>1, <2>2 DEF Matches
  <2>5. ASSUME call[c].pc # "idle"
        PROVE  \E i \in DOMAIN queue' : Awaits(queue', c, i)
    BY <1>9, <2>1, <2>5 DEF Matches, Awaits
  <2> QED
    BY <2>3, <2>4, <2>5 DEF Matches
<1>13. Aging(queue')
  BY <1>1, <1>8 DEF Aging
<1>14. \A i \in DOMAIN queue' : ~Lost(queue', i)
  BY <1>1, <1>8 DEF Aging, Lost
<1>15. Alone(queue) => Alone(queue')
  BY <1>8, <1>14 DEF Alone
<1>16. CallsSound'
  BY <1>1, <1>2, <1>11, <1>12 DEF CallsSound
<1>17. TypeOK'
  BY <1>1, <1>2, <1>7 DEF TypeOK
<1>18. NodeOfCall' /\ (NodeRecalled => NodeRecalled')
  BY <1>1, <1>2 DEF NodeOfCall, NodeRecalled
<1>19. Solo'
  BY <1>1, <1>2, <1>14, <1>15, <1>18 DEF Solo, Recalled
<1> QED
  BY <1>13, <1>16, <1>17, <1>18, <1>19 DEF CreateInv

LEMMA StudioKeeps ==
    ASSUME CreateInv, StudioEdits
    PROVE  CreateInv'
<1>1. TypeOK /\ CallsSound /\ Aging(queue) /\ Solo
  BY DEF CreateInv
<1>2. /\ UNCHANGED <<queue, remembered, call, overlap>> /\ answer' = Silence
      /\ events' = events + 1
  BY DEF StudioEdits
<1>3. node' \in Nodes \cup {NoNode} /\ node'.was = "past"
  <2>1. NoNode.was = "past"
    BY DEF NoNode
  <2>2. ASSUME NEW class \in Classes
        PROVE  /\ Created(Studio, class, "past") \in Nodes
               /\ Created(Studio, class, "past").was = "past"
    BY DEF Created, Nodes, Ages
  <2> QED
    BY <2>1, <2>2 DEF StudioEdits
<1>4. TypeOK'
  BY <1>1, <1>2, <1>3 DEF TypeOK
<1>5. CallsSound' /\ Aging(queue)'
  BY <1>1, <1>2 DEF CallsSound
<1>6. NodeOfCall' /\ NodeRecalled'
  BY <1>3 DEF NodeOfCall, NodeRecalled
<1>7. Solo'
  BY <1>1, <1>2, <1>6 DEF Solo
<1> QED
  BY <1>4, <1>5, <1>6, <1>7 DEF CreateInv

LEMMA ExpiryKeeps ==
    ASSUME CreateInv, MemoryExpires
    PROVE  CreateInv'
<1>1. /\ TypeOK /\ CallsSound /\ Aging(queue) /\ NodeOfCall /\ Solo
      /\ queue \in Seq(Requests) /\ node \in Nodes \cup {NoNode}
  BY DEF CreateInv, TypeOK
<1>2. /\ UNCHANGED <<call, overlap, events>> /\ answer' = Silence /\ remembered' = {}
      /\ node' = Forgotten(node) /\ queue' = [i \in DOMAIN queue |-> Forgotten(queue[i])]
  BY DEF MemoryExpires
<1>3. /\ DOMAIN queue = 1..Len(queue) /\ Len(queue) \in Nat
      /\ \A i \in DOMAIN queue : queue[i] \in Requests
  BY <1>1, LenProperties, ElementOfSeq
<1>4. ASSUME NEW i \in DOMAIN queue
      PROVE  /\ queue'[i] \in Requests
             /\ queue'[i].by = queue[i].by /\ queue'[i].op = queue[i].op
             /\ queue'[i].class = queue[i].class /\ queue'[i].waits = queue[i].waits
             /\ queue'[i].was = IF queue[i].was = "lost" THEN "past" ELSE queue[i].was
  <2>1. queue[i] \in Requests /\ queue'[i] = Forgotten(queue[i])
    BY <1>2, <1>3
  <2> QED
    BY <2>1 DEF Forgotten, Requests, Ages
<1>5. DOMAIN queue' = DOMAIN queue /\ queue' \in Seq(Requests)
  <2>1. DOMAIN queue' = DOMAIN queue
    BY <1>2
  <2>2. queue' \in [1..Len(queue) -> Requests]
    BY <1>2, <1>3, <1>4
  <2> QED
    BY <1>3, <2>1, <2>2, SeqDef
<1>6. /\ node' \in Nodes \cup {NoNode} /\ node'.was # "lost"
      /\ node'.was = "now" => node' = node
  BY <1>1, <1>2 DEF Forgotten, Nodes, NoNode, Ages
<1>7. \A c, i : i \in DOMAIN queue =>
         /\ Awaits(queue', c, i) <=> Awaits(queue, c, i)
         /\ Creating(queue', c, i) <=> Creating(queue, c, i)
         /\ ~Lost(queue', i)
  BY <1>4 DEF Awaits, Creating, Lost
<1>8. \A c : InOrder(queue, c) => InOrder(queue', c)
  BY <1>5, <1>7 DEF InOrder
<1>9. \A c, k : Matches(queue, k, c) => Matches(queue', k, c)
  BY <1>4, <1>5, <1>7 DEF Matches, Open
<1>10. CallsSound'
  BY <1>1, <1>2, <1>8, <1>9 DEF CallsSound
<1>11. Aging(queue')
  BY <1>1, <1>4, <1>5 DEF Aging
<1>12. Alone(queue) => Alone(queue')
  <2>1. \A i \in DOMAIN queue : queue'[i].by = queue[i].by /\ ~Lost(queue', i)
    BY <1>4, <1>7
  <2> QED
    BY <1>5, <2>1 DEF Alone
<1>13. TypeOK'
  BY <1>1, <1>2, <1>5, <1>6 DEF TypeOK
<1>14. NodeOfCall'
  BY <1>1, <1>2, <1>6 DEF NodeOfCall
<1>15. Solo'
  BY <1>1, <1>2, <1>5, <1>6, <1>7, <1>12 DEF Solo, Recalled, NodeRecalled
<1> QED
  BY <1>10, <1>11, <1>13, <1>14, <1>15 DEF CreateInv

LEMMA RestartKeeps ==
    ASSUME CreateInv, Restart
    PROVE  CreateInv'
<1>1. /\ TypeOK /\ Solo /\ queue \in Seq(Requests) /\ node \in Nodes \cup {NoNode}
  BY DEF CreateInv, TypeOK
<1>2. /\ UNCHANGED overlap /\ events' = events + 1 /\ answer' = Silence /\ remembered' = {}
      /\ call' = [c \in Callers |-> Idle] /\ node' = Past(node)
      /\ queue' = [i \in DOMAIN queue |-> [Past(queue[i]) EXCEPT !.waits = FALSE]]
  BY DEF Restart
<1>3. /\ DOMAIN queue = 1..Len(queue) /\ Len(queue) \in Nat
      /\ \A i \in DOMAIN queue : queue[i] \in Requests
  BY <1>1, LenProperties, ElementOfSeq
<1>4. ASSUME NEW i \in DOMAIN queue
      PROVE  /\ queue'[i] \in Requests /\ queue'[i].by = queue[i].by
             /\ ~queue'[i].waits /\ queue'[i].was = "past"
  <2>1. /\ queue[i] \in Requests /\ queue'[i] = [Past(queue[i]) EXCEPT !.waits = FALSE]
    BY <1>2, <1>3
  <2> QED
    BY <2>1 DEF Past, Requests, Ages
<1>5. DOMAIN queue' = DOMAIN queue /\ queue' \in Seq(Requests)
  <2>1. DOMAIN queue' = DOMAIN queue
    BY <1>2
  <2>2. queue' \in [1..Len(queue) -> Requests]
    BY <1>2, <1>3, <1>4
  <2> QED
    BY <1>3, <2>1, <2>2, SeqDef
<1>6. node' \in Nodes \cup {NoNode} /\ node'.was = "past"
  <2>1. CASE node \in Nodes
    BY <1>2, <2>1 DEF Past, Nodes, Ages
  <2>2. CASE node = NoNode
    BY <1>2, <2>2 DEF Past, NoNode
  <2> QED
    BY <1>1, <2>1, <2>2
<1>7. \A c, i : i \in DOMAIN queue =>
         ~Awaits(queue', c, i) /\ ~Creating(queue', c, i) /\ ~Lost(queue', i)
  BY <1>4 DEF Awaits, Creating, Lost
<1>8. Idle \in Calls /\ Idle.pc = "idle" /\ Standing(Idle)
  BY DEF Idle, Calls, Pcs, Whys, Standing
<1>9. \A c \in Callers : InOrder(queue', c) /\ Matches(queue', Idle, c)
  BY <1>5, <1>7, <1>8 DEF InOrder, Matches, Open
<1>10. CallsSound'
  BY <1>2, <1>8, <1>9 DEF CallsSound
<1>11. Aging(queue')
  BY <1>4, <1>5 DEF Aging
<1>12. Alone(queue) => Alone(queue')
  <2>1. \A i \in DOMAIN queue : queue'[i].by = queue[i].by /\ ~Lost(queue', i)
    BY <1>4, <1>7
  <2> QED
    BY <1>5, <2>1 DEF Alone
<1>13. TypeOK'
  BY <1>1, <1>2, <1>5, <1>6, <1>8 DEF TypeOK
<1>14. NodeOfCall' /\ NodeRecalled'
  BY <1>6 DEF NodeOfCall, NodeRecalled
<1>15. Solo'
  BY <1>1, <1>2, <1>5, <1>7, <1>12, <1>14 DEF Solo, Recalled
<1> QED
  BY <1>10, <1>11, <1>13, <1>14, <1>15 DEF CreateInv

LEMMA CreateInit == Init => CreateInv
<1> SUFFICES ASSUME Init
             PROVE  CreateInv
  OBVIOUS
<1>1. queue \in Seq(Requests) /\ DOMAIN queue = {}
  BY EmptySeq DEF Init
<1>2. Idle \in Calls /\ Idle.pc = "idle" /\ Standing(Idle) /\ NoNode.was = "past"
  BY DEF Idle, Calls, Pcs, Whys, Standing, NoNode
<1>3. TypeOK
  BY <1>1, <1>2 DEF Init, TypeOK
<1>4. CallsSound
  BY <1>1, <1>2 DEF Init, CallsSound, InOrder, Matches, Open
<1>5. Aging(queue) /\ NodeOfCall /\ Solo
  BY <1>1, <1>2 DEF Init, Aging, NodeOfCall, Solo, Alone, Recalled, NodeRecalled
<1> QED
  BY <1>3, <1>4, <1>5 DEF CreateInv

LEMMA CreateNext == CreateInv /\ [Next]_vars => CreateInv'
<1> SUFFICES ASSUME CreateInv, [Next]_vars
             PROVE  CreateInv'
  OBVIOUS
<1>1. ASSUME NEW c \in Callers, CreateStep(c)
      PROVE  CreateInv'
  BY <1>1, CallKeeps, CreateServedKeeps, NameExistsKeeps, TimesOutKeeps, DroppedKeeps,
     ReadPresentKeeps, ReadAbsentKeeps DEF CreateStep
<1>2. ASSUME NEW c \in Callers, CompositeStep(c)
      PROVE  CreateInv'
  BY <1>2, CompositeKeeps
<1>3. CASE UNCHANGED vars
  BY <1>3 DEF vars, CreateInv, TypeOK, CallsSound, NodeOfCall, Solo, NodeRecalled
<1> QED
  BY <1>1, <1>2, <1>3, ServesAbandonedKeeps, ListenerKeeps, StudioKeeps, ExpiryKeeps, RestartKeeps
     DEF Next

LEMMA CreateAlways == Spec => []CreateInv
  BY CreateInit, CreateNext, PTL DEF Spec

------------------------------------------------------------------------------
(* The theorems.                                                           *)

\* Every variable stays in the set its code counterpart ranges over.
THEOREM CreateTypeCorrect == Spec => []TypeOK
<1>1. CreateInv => TypeOK
  BY DEF CreateInv
<1> QED
  BY <1>1, CreateAlways, PTL

\* _create_with_verify: one call creates its node at most once, whatever is lost of
\* the answers and whatever others do at the path.
THEOREM CreatesOnce == Spec => []OncePerCall
<1>1. CreateInv => OncePerCall
  BY DEF CreateInv, CallsSound, Standing, OncePerCall
<1> QED
  BY <1>1, CreateAlways, PTL

\* _create_with_verify: any answer but the timeout is final, no create of the call
\* is still on its way to the bridge.
THEOREM AnswersAreFinal == Spec => []AnswerIsFinal
<1>1. CreateInv => AnswerIsFinal
  BY DEF CreateInv, Aging, AnswerIsFinal
<1> QED
  BY <1>1, CreateAlways, PTL

\* The step in which a call ends is its caller's.
LEMMA AnsweredStep ==
    ASSUME CreateInv, Next, NEW c \in Callers, NEW a, a # "nothing", Answered(c, a)
    PROVE  CreateStep(c) \/ CompositeStep(c)
<1>1. answer'.what = a /\ answer'.to = c /\ Silence.what = "nothing"
  BY DEF Answered, Silence
<1>2. ~(ServesAbandoned \/ ListenerRestarts \/ StudioEdits \/ MemoryExpires \/ Restart)
  BY <1>1 DEF ServesAbandoned, ListenerRestarts, StudioEdits, MemoryExpires, Restart
<1>3. PICK d \in Callers : CreateStep(d) \/ CompositeStep(d)
  BY <1>2 DEF Next
<1>4. call \in [Callers -> Calls]
  BY DEF CreateInv, TypeOK
<1>5. d # c => call'[c] = call[c]
  BY <1>3, <1>4 DEF CreateStep, CompositeStep, Call, CreateServed, NameExists, CreateTimesOut,
     CreateDropped, CreateUnreachable, ReadPresent, ReadAbsent, ReadUnanswered, ReadMisses,
     SetServed, SetFails, SetDropped, DeleteServed, DeleteUnanswered, DeleteDropped, Check,
     CheckUnanswered, Redelete, RedeleteUnanswered, ReadsBack, Sends, Ends, EndsOver
<1> QED
  BY <1>3, <1>5 DEF Answered

\* The call of c is answered name_exists at once, or for what it has read back.
LEMMA ExistsStep ==
    ASSUME CreateInv, NEW c \in Callers, CreateStep(c) \/ CompositeStep(c), Answered(c, "exists")
    PROVE  \/ Serving(c, "create") /\ call[c].class \notin remembered
           \/ call[c].why = "exists"
<1>1. answer'.what = "exists" /\ Silence.what = "nothing" /\ call[c].pc # "idle"
  BY DEF Answered, Silence
<1>2. CASE CreateStep(c)
  <2>1. ~\E class \in Classes, composite \in BOOLEAN : Call(c, class, composite)
    BY <1>1 DEF Call
  <2>2. ~(CreateTimesOut(c) \/ CreateUnreachable(c))
    BY <1>1 DEF CreateTimesOut, CreateUnreachable, ReadsBack
  <2>3. ~CreateServed(c)
    BY <1>1 DEF CreateServed, Ends, EndsOver
  <2>4. ~CreateDropped(c)
    BY <1>1 DEF CreateDropped, ReadsBack
  <2>5. ~ReadPresent(c)
    BY <1>1 DEF ReadPresent, Sends, Ends, EndsOver
  <2>6. CASE NameExists(c)
    BY <1>1, <2>6 DEF NameExists, ReadsBack
  <2>7. CASE ReadAbsent(c) \/ ReadUnanswered(c)
    BY <1>1, <2>7 DEF ReadAbsent, ReadUnanswered, ReadMisses, Ends, EndsOver
  <2> QED
    BY <1>2, <2>1, <2>2, <2>3, <2>4, <2>5, <2>6, <2>7 DEF CreateStep
<1>3. ~CompositeStep(c)
  <2>1. ~(SetServed(c) \/ SetFails(c) \/ SetDropped(c))
    BY <1>1 DEF SetServed, SetFails, SetDropped, Sends, Ends, EndsOver
  <2>2. ~(DeleteServed(c) \/ DeleteUnanswered(c) \/ DeleteDropped(c))
    BY <1>1 DEF DeleteServed, DeleteUnanswered, DeleteDropped, Sends, Ends, EndsOver
  <2>3. ~(Check(c) \/ CheckUnanswered(c))
    BY <1>1 DEF Check, CheckUnanswered, Sends, Ends, EndsOver
  <2>4. ~(Redelete(c) \/ RedeleteUnanswered(c))
    BY <1>1 DEF Redelete, RedeleteUnanswered, Ends, EndsOver
  <2> QED
    BY <2>1, <2>2, <2>3, <2>4 DEF CompositeStep
<1> QED
  BY <1>2, <1>3

\* _create_with_verify with _RECENT_CREATE_TIMEOUTS: while calls come one at a time,
\* the node that the caller's own timed-out create has made is reported as a
\* duplicate only after reads that went unanswered.
THEOREM DuplicatesMatched == Spec => DuplicateOnlyUnread
<1> DEFINE Told == \A c \in Callers :
             ~overlap /\ Answered(c, "exists") /\ OwnLostNode(c) => call[c].why = "exists"
<1>1. ASSUME CreateInv, Next
      PROVE  Told
  <2> SUFFICES ASSUME NEW c \in Callers, ~overlap, Answered(c, "exists"), OwnLostNode(c),
                      call[c].why # "exists"
               PROVE  FALSE
    OBVIOUS
  <2>1. Serving(c, "create") /\ call[c].class \notin remembered
    BY <1>1, AnsweredStep, ExistsStep
  <2>2. Alone(queue) /\ NodeRecalled /\ TypeOK /\ CallsSound
    BY <1>1 DEF CreateInv, Solo
  <2>3. OnlyOf(queue, c)
    BY <2>1, <2>2, ServedLeaves
  <2>4. PICK d \in Callers : call[d].why = "exists"
    BY <2>1, <2>2 DEF NodeRecalled, OwnLostNode
  <2>5. call[d].pc # "idle"
    BY <2>2, <2>4 DEF CallsSound, Standing
  <2>6. PICK i \in DOMAIN queue : Awaits(queue, d, i)
    BY <2>2, <2>5 DEF CallsSound, Matches
  <2>7. d = c
    BY <2>3, <2>6 DEF OnlyOf, Awaits
  <2> QED
    BY <2>4, <2>7
<1>2. ASSUME UNCHANGED vars
      PROVE  Told
  BY <1>2 DEF vars, Answered
<1>3. CreateInv /\ [Next]_vars => [Told]_vars
  BY <1>1, <1>2
<1> QED
  BY <1>3, CreateAlways, PTL DEF Spec, DuplicateOnlyUnread

\* _fail and _delete_node_post: a composite is said to be rolled back only when its
\* node is gone.
THEOREM RollbacksTruthful == Spec => RolledBackIsGone
<1> DEFINE Gone == \A c \in Callers : Answered(c, "rolled_back") => node' = NoNode
<1>1. ASSUME CreateInv, Next
      PROVE  Gone
  <2> SUFFICES ASSUME NEW c \in Callers, Answered(c, "rolled_back")
               PROVE  node' = NoNode
    OBVIOUS
  <2>1. /\ answer'.what = "rolled_back" /\ Silence.what = "nothing" /\ call[c].pc # "idle"
        /\ call'[c].pc = "idle"
    BY DEF Answered, Silence
  <2>2. \A q : EndsOver(c, "rolled_back", q, NoNode) => node' = NoNode
    <3>1. NoNode.was = "past" /\ Aged(NoNode, c, "past") = NoNode
      BY DEF NoNode, Aged
    <3> QED
      BY <3>1 DEF EndsOver
  <2>3. ~CreateStep(c)
    <3>1. Standing(call[c])
      BY <1>1 DEF CreateInv, CallsSound
    <3>2. ~\E class \in Classes, composite \in BOOLEAN : Call(c, class, composite)
      BY <2>1 DEF Call
    <3>3. ~(CreateTimesOut(c) \/ CreateUnreachable(c) \/ CreateDropped(c))
      BY <2>1 DEF CreateTimesOut, CreateUnreachable, CreateDropped, ReadsBack
    <3>4. ~(CreateServed(c) \/ NameExists(c))
      BY <2>1 DEF CreateServed, NameExists, ReadsBack, Ends, EndsOver
    <3>5. ~ReadPresent(c)
      BY <2>1 DEF ReadPresent, Sends, Ends, EndsOver
    <3>6. ~(ReadAbsent(c) \/ ReadUnanswered(c))
      BY <2>1, <3>1 DEF ReadAbsent, ReadUnanswered, Serving, ReadMisses, Ends, EndsOver, Standing
    <3> QED
      BY <3>2, <3>3, <3>4, <3>5, <3>6 DEF CreateStep
  <2>4. CompositeStep(c)
    BY <1>1, <2>3, AnsweredStep
  <2>5. ~(SetServed(c) \/ SetFails(c) \/ SetDropped(c))
    BY <2>1 DEF SetServed, SetFails, SetDropped, Sends, Ends, EndsOver
  <2>6. ~(DeleteUnanswered(c) \/ DeleteDropped(c) \/ CheckUnanswered(c) \/ RedeleteUnanswered(c))
    BY <2>1 DEF DeleteUnanswered, DeleteDropped, CheckUnanswered, RedeleteUnanswered, Sends,
       Ends, EndsOver
  <2>7. CASE DeleteServed(c) \/ Redelete(c)
    <3>1. ~Ends(c, "orphaned", Tail(queue))
      BY <2>1 DEF Ends, EndsOver
    <3> QED
      BY <2>2, <2>7, <3>1 DEF DeleteServed, Redelete
  <2>8. CASE Check(c)
    BY <2>1, <2>2, <2>8 DEF Check, Sends, Ends
  <2> QED
    BY <2>4, <2>5, <2>6, <2>7, <2>8 DEF CompositeStep
<1>2. ASSUME UNCHANGED vars
      PROVE  Gone
  BY <1>2 DEF vars, Answered
<1>3. CreateInv /\ [Next]_vars => [Gone]_vars
  BY <1>1, <1>2
<1> QED
  BY <1>3, CreateAlways, PTL DEF Spec, RolledBackIsGone
=============================================================================
