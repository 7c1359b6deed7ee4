---------------------------- MODULE MailboxProofs ----------------------------
(***************************************************************************)
(* One mailbox, for any number of clients with any limits and any number   *)
(* of messages.  The box, and what a sender has read of it, is placed in   *)
(* the log of deliveries: in its order, and with as many deliveries after  *)
(* each message as the box holds after it, which is what a cut of the      *)
(* oldest needs.  Only the file lane's lock, and on Redis the absence of   *)
(* overlapping mark_reads, keep what a client has read in step with the    *)
(* box.                                                                    *)
(***************************************************************************)
EXTENDS Mailbox, FiniteNumbers, FunctionTheorems, SequenceTheorems

-----------------------------------------------------------------------------
(***************************************************************************)
(* The limits.                                                             *)
(***************************************************************************)
LEMMA Limits ==
  /\ MinLimit \in Nat /\ MaxLimit \in Nat
  /\ \A c \in Client : MinLimit <= HardLimit[c] /\ HardLimit[c] <= MaxLimit
<1> DEFINE S == {HardLimit[c] : c \in Client}
<1>1. S \subseteq Nat /\ S # {}
  BY MailboxAssumption
<1>2. IsFiniteSet(S)
  <2> DEFINE f == [c \in Client |-> HardLimit[c]]
  <2>1. f \in Surjection(Client, S)
    BY DEF Surjection
  <2> HIDE DEF f, S
  <2> QED
    BY <2>1, MailboxAssumption, FS_Surjection
<1>3. \A c \in Client : HardLimit[c] \in S
  OBVIOUS
<1> HIDE DEF S
<1> QED
  BY <1>1, <1>2, <1>3, Extremes DEF MinLimit, MaxLimit, S

-----------------------------------------------------------------------------
(***************************************************************************)
(* Lists of messages, placed in an order of deliveries.                    *)
(***************************************************************************)
LEMMA SeqFacts ==
  ASSUME NEW S, NEW s \in Seq(S)
  PROVE  Len(s) \in Nat /\ DOMAIN s = 1..Len(s) /\ \A i \in 1..Len(s) : s[i] \in S
OBVIOUS

LEMMA KeptFacts ==
  ASSUME NEW S, NEW s \in Seq(S), NEW k \in Nat \ {0}
  PROVE  LET r == Kept(s, k) IN
         /\ r \in Seq(S) /\ Len(r) \in Nat /\ Len(r) <= k /\ Len(r) <= Len(s)
         /\ Len(r) = Len(s) \/ Len(r) = k
         /\ \A j \in 1..Len(r) : r[j] = s[j + Len(s) - Len(r)]
<1>1. CASE Len(s) > k
  <2>1. Kept(s, k) = SubSeq(s, Len(s) - k + 1, Len(s))
    BY <1>1 DEF Kept
  <2> DEFINE a == Len(s) - k + 1
  <2>2. Len(s) \in Nat /\ a \in 1..Len(s) /\ Len(s) - a + 1 = k
    BY <1>1
  <2>3. /\ Kept(s, k) \in Seq(S) /\ Len(Kept(s, k)) = k
        /\ \A j \in 1..k : Kept(s, k)[j] = s[a + j - 1]
    <3> HIDE DEF a
    <3>1. Kept(s, k) = SubSeq(s, a, Len(s)) /\ \A i \in a..Len(s) : s[i] \in S
      BY <2>1, <2>2 DEF a
    <3>2. Len(SubSeq(s, a, Len(s))) = k
      BY <2>2
    <3> QED
      BY <2>2, <3>1, <3>2, SubSeqProperties
  <2>4. \A j \in 1..k : a + j - 1 = j + Len(s) - k
    BY <2>2
  <2> HIDE DEF a
  <2> QED
    BY <1>1, <2>2, <2>3, <2>4
<1>2. CASE ~(Len(s) > k)
  <2>1. Kept(s, k) = s
    BY <1>2 DEF Kept
  <2> QED
    BY <1>2, <2>1
<1> QED
  BY <1>1, <1>2

\* Each message is in l, with at least as many entries after it as in m, and
\* the messages are in the order of l.
Placed(m, l) ==
  /\ \A j \in 1..Len(m) : \E i \in 1..Len(l) : l[i] = m[j].id /\ Len(l) - i >= Len(m) - j
  /\ \A j, k \in 1..Len(m) :
       j < k => \E a, b \in 1..Len(l) : a < b /\ l[a] = m[j].id /\ l[b] = m[k].id

Once(l) == \A i, j \in 1..Len(l) : l[i] = l[j] => i = j

LEMMA PlacedEmpty == ASSUME NEW l PROVE Placed(<<>>, l)
BY DEF Placed

LEMMA PlacedKept ==
  ASSUME NEW m \in Seq(Message), NEW l \in Seq(Id), Placed(m, l), NEW k \in Nat \ {0}
  PROVE  Placed(Kept(m, k), l)
<1> DEFINE r == Kept(m, k)
           off == Len(m) - Len(r)
<1>1. /\ r \in Seq(Message) /\ Len(r) \in Nat /\ Len(m) \in Nat /\ off \in Nat /\ Len(l) \in Nat
      /\ \A j \in 1..Len(r) : r[j] = m[j + off] /\ j + off \in 1..Len(m)
                              /\ Len(r) - j = Len(m) - (j + off)
  <2>1. Len(m) \in Nat /\ Len(l) \in Nat
    OBVIOUS
  <2>2. /\ r \in Seq(Message) /\ Len(r) \in Nat /\ Len(r) <= Len(m)
        /\ \A j \in 1..Len(r) : r[j] = m[j + Len(m) - Len(r)]
    BY KeptFacts
  <2> HIDE DEF r
  <2>3. \A j \in 1..Len(r) : j + Len(m) - Len(r) = j + off
    BY <2>1, <2>2
  <2> QED
    BY <2>1, <2>2, <2>3
<1> HIDE DEF r, off
<1>2. ASSUME NEW j \in 1..Len(r)
      PROVE  \E i \in 1..Len(l) : l[i] = r[j].id /\ Len(l) - i >= Len(r) - j
  BY <1>1 DEF Placed
<1>3. ASSUME NEW j \in 1..Len(r), NEW h \in 1..Len(r), j < h
      PROVE  \E a, b \in 1..Len(l) : a < b /\ l[a] = r[j].id /\ l[b] = r[h].id
  <2>1. j + off \in 1..Len(m) /\ h + off \in 1..Len(m) /\ j + off < h + off
    BY <1>1, <1>3
  <2>2. PICK a \in 1..Len(l), b \in 1..Len(l) :
             a < b /\ l[a] = m[j + off].id /\ l[b] = m[h + off].id
    BY <2>1 DEF Placed
  <2> QED
    BY <1>1, <2>2
<1> QED
  BY <1>2, <1>3 DEF Placed, r

LEMMA PlacedAppend ==
  ASSUME NEW m \in Seq(Message), NEW l \in Seq(Id), Placed(m, l),
         NEW x \in Message, NEW id \in Id, x.id = id
  PROVE  Placed(Append(m, x), Append(l, id))
<1> DEFINE r == Append(m, x)
           q == Append(l, id)
<1>1. /\ Len(m) \in Nat /\ Len(r) = Len(m) + 1 /\ r[Len(m) + 1] = x
      /\ \A j \in 1..Len(m) : r[j] = m[j]
  BY AppendProperties
<1>2. /\ Len(l) \in Nat /\ Len(q) = Len(l) + 1 /\ q[Len(l) + 1] = id
      /\ \A i \in 1..Len(l) : q[i] = l[i]
  BY AppendProperties
<1> HIDE DEF r, q
<1>3. ASSUME NEW j \in 1..Len(r)
      PROVE  \E i \in 1..Len(q) : q[i] = r[j].id /\ Len(q) - i >= Len(r) - j
  <2>1. CASE j = Len(m) + 1
    BY <1>1, <1>2, <2>1
  <2>2. CASE j # Len(m) + 1
    <3>1. j \in 1..Len(m)
      BY <1>1, <2>2
    <3>2. PICK i \in 1..Len(l) : l[i] = m[j].id /\ Len(l) - i >= Len(m) - j
      BY <3>1 DEF Placed
    <3> QED
      BY <1>1, <1>2, <3>1, <3>2
  <2> QED
    BY <2>1, <2>2
<1>4. ASSUME NEW j \in 1..Len(r), NEW h \in 1..Len(r), j < h
      PROVE  \E a, b \in 1..Len(q) : a < b /\ q[a] = r[j].id /\ q[b] = r[h].id
  <2>1. j \in 1..Len(m)
    BY <1>1, <1>4
  <2>2. CASE h = Len(m) + 1
    <3>1. PICK i \in 1..Len(l) : l[i] = m[j].id
      BY <2>1 DEF Placed
    <3>2. i \in 1..Len(q) /\ Len(l) + 1 \in 1..Len(q) /\ i < Len(l) + 1
      BY <1>2
    <3> QED
      BY <1>1, <1>2, <2>1, <2>2, <3>1, <3>2
  <2>3. CASE h # Len(m) + 1
    <3>1. h \in 1..Len(m)
      BY <1>1, <2>3
    <3>2. PICK a \in 1..Len(l), b \in 1..Len(l) : a < b /\ l[a] = m[j].id /\ l[b] = m[h].id
      BY <1>4, <2>1, <3>1 DEF Placed
    <3> QED
      BY <1>1, <1>2, <2>1, <3>1, <3>2
  <2> QED
    BY <2>2, <2>3
<1> QED
  BY <1>3, <1>4 DEF Placed, r, q

\* The deliveries go on.
LEMMA PlacedGrows ==
  ASSUME NEW m \in Seq(Message), NEW l \in Seq(Id), Placed(m, l), NEW id \in Id
  PROVE  Placed(m, Append(l, id))
<1> DEFINE q == Append(l, id)
<1>1. /\ Len(l) \in Nat /\ Len(m) \in Nat /\ Len(q) = Len(l) + 1
      /\ \A i \in 1..Len(l) : q[i] = l[i] /\ i \in 1..Len(q)
  BY AppendProperties
<1> HIDE DEF q
<1>2. ASSUME NEW j \in 1..Len(m)
      PROVE  \E i \in 1..Len(q) : q[i] = m[j].id /\ Len(q) - i >= Len(m) - j
  <2>1. PICK i \in 1..Len(l) : l[i] = m[j].id /\ Len(l) - i >= Len(m) - j
    BY DEF Placed
  <2> QED
    BY <1>1, <2>1
<1>3. ASSUME NEW j \in 1..Len(m), NEW h \in 1..Len(m), j < h
      PROVE  \E a, b \in 1..Len(q) : a < b /\ q[a] = m[j].id /\ q[b] = m[h].id
  <2>1. PICK a \in 1..Len(l), b \in 1..Len(l) : a < b /\ l[a] = m[j].id /\ l[b] = m[h].id
    BY <1>3 DEF Placed
  <2> QED
    BY <1>1, <2>1
<1> QED
  BY <1>2, <1>3 DEF Placed, q

\* The place depends on the identities alone.
LEMMA PlacedSame ==
  ASSUME NEW m, NEW r, NEW l, Placed(m, l),
         Len(r) = Len(m), \A j \in 1..Len(m) : r[j].id = m[j].id
  PROVE  Placed(r, l)
BY DEF Placed

\* What a cut drops has as many deliveries after it as the cut keeps.
LEMMA CutIsOld ==
  ASSUME NEW m \in Seq(Message), NEW l \in Seq(Id), Placed(m, l), Once(l), NEW k \in Nat \ {0},
         NEW i \in 1..Len(l), l[i] \in IdsOf(m)
  PROVE  l[i] \in IdsOf(Kept(m, k)) \/ Len(l) - i >= k
<1> DEFINE r == Kept(m, k)
<1>1. /\ r \in Seq(Message) /\ Len(r) \in Nat /\ Len(r) <= Len(m)
      /\ Len(r) = Len(m) \/ Len(r) = k
      /\ \A j \in 1..Len(r) : r[j] = m[j + Len(m) - Len(r)]
  BY KeptFacts
<1>2. Len(m) \in Nat /\ Len(l) \in Nat /\ DOMAIN m = 1..Len(m) /\ DOMAIN r = 1..Len(r)
  BY <1>1, SeqFacts
<1> HIDE DEF r
<1>3. PICK j \in 1..Len(m) : l[i] = m[j].id
  BY <1>2 DEF IdsOf
<1>4. PICK a \in 1..Len(l) : l[a] = m[j].id /\ Len(l) - a >= Len(m) - j
  BY DEF Placed
<1>8. /\ j \in Nat /\ 1 <= j /\ j <= Len(m) /\ a \in Nat
      /\ Len(m) \in Nat /\ Len(l) \in Nat /\ Len(r) \in Nat
      /\ Len(r) <= Len(m) /\ (Len(r) = Len(m) \/ Len(r) = k)
  <2>1. Len(m) \in Nat /\ Len(l) \in Nat
    BY <1>2
  <2>2. j \in Nat /\ 1 <= j /\ j <= Len(m)
    BY <2>1
  <2>3. a \in Nat
    BY <2>1
  <2> QED
    BY <1>1, <2>1, <2>2, <2>3
<1>5. a = i
  BY <1>3, <1>4 DEF Once
<1>6. CASE j > Len(m) - Len(r)
  <2> DEFINE h == j - (Len(m) - Len(r))
  <2>1. h \in 1..Len(r) /\ h + Len(m) - Len(r) = j
    BY <1>6, <1>8
  <2> HIDE DEF h
  <2>2. r[h].id = l[i]
    BY <1>1, <1>3, <2>1
  <2> QED
    BY <1>2, <2>1, <2>2 DEF IdsOf, r
<1>7. CASE ~(j > Len(m) - Len(r))
  <2>1. Len(r) = k
    BY <1>7, <1>8
  <2> QED
    BY <1>4, <1>5, <1>7, <1>8, <2>1
<1> QED
  BY <1>6, <1>7

\* The messages of a list: their identities, and the lists the actions make.
LEMMA IdsFacts ==
  ASSUME NEW m \in Seq(Message)
  PROVE  /\ IdsOf(m) = {m[i].id : i \in 1..Len(m)} /\ IdsOf(m) \subseteq Id
         /\ m = <<>> => IdsOf(m) = {}
<1>1. DOMAIN m = 1..Len(m) /\ \A i \in 1..Len(m) : m[i] \in Message
  BY SeqFacts
<1>2. m = <<>> => DOMAIN m = {}
  OBVIOUS
<1> QED
  BY <1>1, <1>2 DEF IdsOf, Message

LEMMA AppendFacts ==
  ASSUME NEW m \in Seq(Message), NEW x \in Message
  PROVE  LET r == Append(m, x) IN
         /\ r \in Seq(Message) /\ Len(r) = Len(m) + 1 /\ Len(m) \in Nat
         /\ \A i \in 1..Len(m) : r[i] = m[i]
         /\ r[Len(m) + 1] = x
         /\ IdsOf(r) = IdsOf(m) \cup {x.id}
<1> DEFINE r == Append(m, x)
<1>1. /\ r \in Seq(Message) /\ Len(r) = Len(m) + 1 /\ Len(m) \in Nat
      /\ \A i \in 1..Len(m) : r[i] = m[i]
      /\ r[Len(m) + 1] = x
  BY AppendProperties
<1>2. IdsOf(r) = {r[i].id : i \in 1..Len(r)} /\ IdsOf(m) = {m[i].id : i \in 1..Len(m)}
  BY <1>1, IdsFacts
<1> HIDE DEF r
<1>3. ASSUME NEW i \in 1..Len(r) PROVE r[i].id \in IdsOf(m) \cup {x.id}
  <2>1. i = Len(m) + 1 \/ i \in 1..Len(m)
    BY <1>1
  <2> QED
    BY <1>1, <1>2, <2>1
<1>4. ASSUME NEW i \in 1..Len(m) PROVE m[i].id \in IdsOf(r)
  <2>1. i \in 1..Len(r) /\ r[i] = m[i]
    BY <1>1
  <2> QED
    BY <1>2, <2>1
<1>5. x.id \in IdsOf(r)
  <2>1. Len(m) + 1 \in 1..Len(r)
    BY <1>1
  <2> QED
    BY <1>1, <1>2, <2>1
<1>6. IdsOf(r) = IdsOf(m) \cup {x.id}
  BY <1>2, <1>3, <1>4, <1>5
<1> QED
  BY <1>1, <1>6 DEF r

LEMMA KeptIds ==
  ASSUME NEW m \in Seq(Message), NEW k \in Nat \ {0}
  PROVE  IdsOf(Kept(m, k)) \subseteq IdsOf(m)
<1> DEFINE r == Kept(m, k)
<1>1. /\ r \in Seq(Message) /\ Len(r) \in Nat /\ Len(r) <= Len(m) /\ Len(m) \in Nat
      /\ \A j \in 1..Len(r) : r[j] = m[j + Len(m) - Len(r)]
  BY KeptFacts, SeqFacts
<1>2. IdsOf(r) = {r[i].id : i \in 1..Len(r)} /\ IdsOf(m) = {m[i].id : i \in 1..Len(m)}
  BY <1>1, IdsFacts
<1> HIDE DEF r
<1>3. ASSUME NEW j \in 1..Len(r) PROVE r[j].id \in IdsOf(m)
  <2>1. j + Len(m) - Len(r) \in 1..Len(m)
    BY <1>1
  <2> QED
    BY <1>1, <1>2, <2>1
<1> QED
  BY <1>2, <1>3 DEF r

\* Two lists with the same identities, place by place.
LEMMA SameIds ==
  ASSUME NEW m \in Seq(Message), NEW r \in Seq(Message), Len(r) = Len(m),
         \A i \in 1..Len(m) : r[i].id = m[i].id
  PROVE  IdsOf(r) = IdsOf(m)
<1>1. IdsOf(m) = {m[i].id : i \in 1..Len(m)}
  BY IdsFacts
<1>2. IdsOf(r) = {r[i].id : i \in 1..Len(m)}
  BY IdsFacts
<1> QED
  BY <1>1, <1>2

LEMMA MarkedFacts ==
  ASSUME NEW m \in Seq(Message), NEW id
  PROVE  LET r == Marked(m, id) IN
         /\ r \in Seq(Message) /\ Len(r) = Len(m) /\ Len(m) \in Nat
         /\ \A i \in 1..Len(m) : r[i].id = m[i].id /\ (m[i].read => r[i].read)
         /\ IdsOf(r) = IdsOf(m)
<1> DEFINE r == Marked(m, id)
           entry(i) == [m[i] EXCEPT !.read = @ \/ m[i].id = id]
<1>1. Len(m) \in Nat /\ DOMAIN m = 1..Len(m) /\ \A i \in 1..Len(m) : m[i] \in Message
  BY SeqFacts
<1>2. r = [i \in 1..Len(m) |-> entry(i)]
  BY <1>1 DEF Marked
<1>3. ASSUME NEW i \in 1..Len(m)
      PROVE  entry(i) \in Message /\ entry(i).id = m[i].id /\ (m[i].read => entry(i).read)
  <2>1. m[i] \in Message
    BY <1>1
  <2>2. (m[i].read \/ m[i].id = id) \in BOOLEAN
    OBVIOUS
  <2> QED
    BY <2>1, <2>2 DEF Message
<1> HIDE DEF entry
<1>4. r \in Seq(Message) /\ Len(r) = Len(m) /\ \A i \in 1..Len(m) : r[i] = entry(i)
  BY <1>1, <1>2, <1>3
<1> HIDE DEF r
<1>5. IdsOf(r) = IdsOf(m)
  BY <1>3, <1>4, SameIds
<1> QED
  BY <1>1, <1>3, <1>4, <1>5 DEF r

\* A message that is placed has been delivered, and no list holds it twice.
LEMMA PlacedFacts ==
  ASSUME NEW m \in Seq(Message), NEW l \in Seq(Id), Placed(m, l), Once(l)
  PROVE  /\ \A id \in IdsOf(m) : \E i \in 1..Len(l) : l[i] = id
         /\ \A j, h \in 1..Len(m) : m[j].id = m[h].id => j = h
<1>1. IdsOf(m) = {m[i].id : i \in 1..Len(m)} /\ Len(m) \in Nat /\ Len(l) \in Nat
  BY IdsFacts, SeqFacts
<1>2. ASSUME NEW j \in 1..Len(m), NEW h \in 1..Len(m), j < h, m[j].id = m[h].id PROVE FALSE
  <2>1. PICK a \in 1..Len(l), b \in 1..Len(l) : a < b /\ l[a] = m[j].id /\ l[b] = m[h].id
    BY <1>2 DEF Placed
  <2>2. a = b
    BY <1>2, <2>1 DEF Once
  <2> QED
    BY <1>1, <2>1, <2>2
<1>3. ASSUME NEW j \in 1..Len(m), NEW h \in 1..Len(m), m[j].id = m[h].id PROVE j = h
  <2>1. j < h \/ h < j \/ j = h
    BY <1>1
  <2> QED
    BY <1>2, <1>3, <2>1
<1>4. \A id \in IdsOf(m) : \E i \in 1..Len(l) : l[i] = id
  BY <1>1 DEF Placed
<1> QED
  BY <1>3, <1>4

-----------------------------------------------------------------------------
(***************************************************************************)
(* The invariant.                                                          *)
(***************************************************************************)
Delivered == {log[i] : i \in 1..Len(log)}

\* A client with a message that is not in the box yet.
Sending(c) == op[c].kind = "send" /\ pc[c] # "trim"

\* Who is where: the points of a lane, and the holder of its lock.
PointOf(c) ==
  /\ pc[c] \in {"read", "write"} => flock = c /\ op[c].kind \in {"send", "mark"}
  /\ pc[c] \in {"read", "write", "unlink"} => lane = "file"
  /\ pc[c] = "trim" => lane # "file"
  /\ pc[c] = "set" => lane = "redis" /\ op[c].kind = "mark"
  /\ pc[c] = "unlink" => op[c].kind = "purge"

Points == \A c \in Client : PointOf(c)

\* Every message is delivered once, by the one client that sends it.
NewIn(c) ==
  /\ op[c].id \in 1..sent /\ op[c].id \notin Delivered
  /\ \A d \in Client : Sending(d) /\ op[c].id = op[d].id => c = d

Deliveries ==
  /\ Once(log)
  /\ \A i \in 1..Len(log) : log[i] <= sent
  /\ purged \subseteq Delivered
  /\ \A c \in Client : Sending(c) => NewIn(c)

\* What a client has read is the box, or what the box was before a purge.
Hand(c) ==
  /\ pc[c] \notin {"write", "set"} => seen[c] = <<>>
  /\ pc[c] = "write" =>
       /\ seen[c] = box \/ box = <<>>
       /\ Placed(seen[c], log)
       /\ gone \cap IdsOf(seen[c]) = {}
       /\ Len(seen[c]) <= MaxLimit
  /\ pc[c] = "set" =>
       /\ seen[c] = box
       /\ op[c].id \in IdsOf(box)
       /\ \A d \in Client : pc[d] = "set" => c = d

Hands == \A c \in Client : Hand(c)

BoxIsPlaced == Placed(box, log)

\* Nothing overlaps with a Redis mark_read.
Alone == ReadersAlone \/ lane # "redis"

MailInv ==
  /\ Alone /\ MailboxTypeOK /\ Points /\ Deliveries /\ Hands
  /\ BoxIsPlaced /\ BoxIsBounded /\ DeliveredIsKept /\ PurgedIsGone


Trimming == {c \in Client : pc[c] = "trim"}

LEMMA BoundIs ==
  ASSUME Cardinality(Trimming) \in Nat, Len(box) \in Nat, deaths \in Nat
  PROVE  BoxIsBounded <=>
           \/ lane = "file" /\ Len(box) <= MaxLimit + Cardinality(Trimming)
           \/ lane # "file" /\ Len(box) <= MaxLimit + Cardinality(Trimming) + deaths
<1> DEFINE n == Cardinality({c \in Client : pc[c] = "trim"})
<1>1. Cardinality(Trimming) = n
  BY DEF Trimming
<1>2. BoxIsBounded <=> Len(box) <= MaxLimit + n + (IF lane = "file" THEN 0 ELSE deaths)
  BY DEF BoxIsBounded
<1> HIDE DEF n
<1>3. n \in Nat /\ MaxLimit \in Nat
  BY <1>1, Limits
<1> QED
  BY <1>1, <1>2, <1>3

LEMMA InitIsGood == Init /\ Alone => MailInv
<1> SUFFICES ASSUME Init, Alone PROVE MailInv
  OBVIOUS
<1> USE DEF Init
<1>1. box \in Seq(Message) /\ log \in Seq(Id) /\ Len(box) = 0 /\ Len(log) = 0 /\ IdsOf(box) = {}
  BY DEF IdsOf
<1>2. MailboxTypeOK
  <2>1. pc \in [Client -> Point] /\ NoOperation \in Operation /\ <<>> \in Seq(Message)
    BY MailboxAssumption DEF Point, NoOperation, Operation
  <2>2. op \in [Client -> Operation] /\ seen \in [Client -> Seq(Message)]
    BY <2>1
  <2> QED
    BY <1>1, <2>1, <2>2, MailboxAssumption DEF MailboxTypeOK
<1>3. Points /\ Hands
  BY DEF Points, Hands, PointOf, Hand
<1>4. Deliveries
  BY <1>1 DEF Deliveries, Once, Sending, NoOperation
<1>5. BoxIsPlaced
  BY PlacedEmpty DEF BoxIsPlaced
<1>6. BoxIsBounded
  <2>1. Trimming = {}
    BY DEF Trimming
  <2>2. Cardinality(Trimming) = 0 /\ deaths = 0
    BY <2>1, FS_EmptySet
  <2> QED
    BY <1>1, <2>2, Limits, BoundIs
<1>7. DeliveredIsKept /\ PurgedIsGone
  BY DEF DeliveredIsKept, PurgedIsGone
<1> QED
  BY <1>2, <1>3, <1>4, <1>5, <1>6, <1>7 DEF MailInv

-----------------------------------------------------------------------------
(***************************************************************************)
(* Where the clients are, and what they do.                                *)
(***************************************************************************)
\* Only c moves.
Apart(c) ==
  \A d \in Client : d # c => pc'[d] = pc[d] /\ op'[d] = op[d] /\ seen'[d] = seen[d]

Controls ==
  /\ flock \in Client \cup {NoClient}
  /\ pc \in [Client -> Point]
  /\ flock # NoClient => pc[flock] \in {"read", "write"}
  /\ op \in [Client -> Operation]
  /\ seen \in [Client -> Seq(Message)]

LEMMA OverFacts ==
  ASSUME Controls, NEW c \in Client, Over(c)
  PROVE  /\ Controls' /\ Apart(c)
         /\ pc'[c] = "idle" /\ op'[c] = NoOperation /\ seen'[c] = <<>>
         /\ flock' = IF flock = c THEN NoClient ELSE flock
<1>1. /\ pc' = [pc EXCEPT ![c] = "idle"] /\ op' = [op EXCEPT ![c] = NoOperation]
      /\ seen' = [seen EXCEPT ![c] = <<>>] /\ flock' = IF flock = c THEN NoClient ELSE flock
  BY DEF Over
<1>2. NoOperation \in Operation /\ <<>> \in Seq(Message) /\ "idle" \in Point
  BY MailboxAssumption DEF NoOperation, Operation, Point
<1>3. pc' \in [Client -> Point] /\ op' \in [Client -> Operation] /\ seen' \in [Client -> Seq(Message)]
  BY <1>1, <1>2 DEF Controls
<1>4. /\ pc'[c] = "idle" /\ op'[c] = NoOperation /\ seen'[c] = <<>>
      /\ Apart(c)
  BY <1>1 DEF Controls, Apart
<1>5. /\ flock' \in Client \cup {NoClient}
      /\ flock' # NoClient => pc'[flock'] \in {"read", "write"}
  BY <1>1 DEF Controls
<1> QED
  BY <1>1, <1>3, <1>4, <1>5 DEF Controls

LEMMA GoOnFacts ==
  ASSUME Controls, NEW c \in Client, NEW point \in Point, GoOn(c, point),
         UNCHANGED seen \/ \E m \in Seq(Message) : seen' = [seen EXCEPT ![c] = m],
         pc[c] \notin {"read", "write"} \/ point \in {"read", "write"}
  PROVE  /\ Controls' /\ Apart(c) /\ pc'[c] = point /\ op' = op /\ flock' = flock
<1>1. pc' = [pc EXCEPT ![c] = point] /\ op' = op /\ flock' = flock
  BY DEF GoOn
<1>2. seen' \in [Client -> Seq(Message)] /\ \A d \in Client : d # c => seen'[d] = seen[d]
  BY DEF Controls
<1>3. pc' \in [Client -> Point] /\ Apart(c) /\ pc'[c] = point
  BY <1>1, <1>2 DEF Controls, Apart
<1>4. flock' # NoClient => pc'[flock'] \in {"read", "write"}
  BY <1>1 DEF Controls
<1> QED
  BY <1>1, <1>2, <1>3, <1>4 DEF Controls

LEMMA PointsStep ==
  ASSUME Points, NEW c \in Client, Apart(c), lane' = lane, PointOf(c)',
         flock \notin {c, NoClient} => flock' = flock
  PROVE  Points'
<1> SUFFICES ASSUME NEW d \in Client, d # c PROVE PointOf(d)'
  BY DEF Points
<1>1. PointOf(d) /\ d # NoClient /\ pc'[d] = pc[d] /\ op'[d] = op[d]
  BY MailboxAssumption DEF Points, Apart
<1>2. pc[d] \in {"read", "write"} => flock' = d
  BY <1>1 DEF PointOf
<1> QED
  BY <1>1, <1>2 DEF PointOf

\* What has been delivered, and what is under way, when the log stays.
LEMMA DeliveriesStay ==
  ASSUME Deliveries, NEW c \in Client, Apart(c), log' = log, sent' = sent, purged' \subseteq Delivered,
         Sending(c)' => Sending(c) /\ op'[c] = op[c]
  PROVE  Deliveries'
<1>1. Delivered' = Delivered
  BY DEF Delivered
<1>2. \A d \in Client : Sending(d)' => Sending(d) /\ op'[d] = op[d]
  BY DEF Apart, Sending
<1>3. ASSUME NEW d \in Client, Sending(d)' PROVE NewIn(d)'
  <2>1. NewIn(d) /\ op'[d] = op[d]
    BY <1>2, <1>3 DEF Deliveries
  <2>2. \A b \in Client : Sending(b)' => Sending(b) /\ op'[b] = op[b]
    BY <1>2
  <2> QED
    BY <1>1, <2>1, <2>2 DEF NewIn
<1> QED
  BY <1>1, <1>3 DEF Deliveries, Once

\* A delivery is the last of its message.
LEMMA DeliveriesGrow ==
  ASSUME Deliveries, log \in Seq(Id), sent \in Nat, NEW c \in Client, Apart(c),
         Sending(c), ~Sending(c)', op[c].id \in Id, log' = Append(log, op[c].id),
         sent' = sent, purged' = purged
  PROVE  Deliveries' /\ Delivered' = Delivered \cup {op[c].id}
<1> DEFINE id == op[c].id
<1>1. /\ Len(log) \in Nat /\ Len(log') = Len(log) + 1 /\ log'[Len(log) + 1] = id
      /\ \A i \in 1..Len(log) : log'[i] = log[i]
  BY AppendProperties
<1>2. NewIn(c)
  BY DEF Deliveries
<1>3. \A i \in 1..Len(log') : i = Len(log) + 1 \/ i \in 1..Len(log)
  BY <1>1
<1>4. \A i \in 1..Len(log) : i \in 1..Len(log') /\ i # Len(log) + 1
  BY <1>1
<1>5. Len(log) + 1 \in 1..Len(log')
  BY <1>1
<1>6. Delivered' = Delivered \cup {id}
  <2>1. ASSUME NEW i \in 1..Len(log') PROVE log'[i] \in Delivered \cup {id}
    BY <1>1, <1>3 DEF Delivered
  <2>2. ASSUME NEW i \in 1..Len(log) PROVE log[i] \in Delivered'
    BY <1>1, <1>4 DEF Delivered
  <2>3. id \in Delivered'
    BY <1>1, <1>5 DEF Delivered
  <2> QED
    BY <2>1, <2>2, <2>3 DEF Delivered
<1>7. Once(log')
  <2> SUFFICES ASSUME NEW i \in 1..Len(log'), NEW j \in 1..Len(log'), log'[i] = log'[j] PROVE i = j
    BY DEF Once
  <2>1. \A h \in 1..Len(log) : log[h] # id
    BY <1>2 DEF NewIn, Delivered
  <2> QED
    BY <1>1, <1>3, <2>1 DEF Deliveries, Once
<1>8. \A i \in 1..Len(log') : log'[i] <= sent'
  <2>1. id <= sent
    BY <1>2 DEF NewIn
  <2> QED
    BY <1>1, <1>3, <2>1 DEF Deliveries
<1>9. ASSUME NEW d \in Client, Sending(d)' PROVE NewIn(d)'
  <2>1. d # c /\ op'[d] = op[d] /\ Sending(d)
    BY <1>9 DEF Apart, Sending
  <2>2. NewIn(d)
    BY <2>1 DEF Deliveries
  <2>3. \A b \in Client : Sending(b)' => Sending(b) /\ op'[b] = op[b]
    BY DEF Apart, Sending
  <2>4. op[d].id # id
    BY <1>2, <2>1 DEF NewIn
  <2> QED
    BY <1>6, <2>1, <2>2, <2>3, <2>4 DEF NewIn
<1> QED
  BY <1>6, <1>7, <1>8, <1>9 DEF Deliveries

\* A message that is being composed is new to everyone.
LEMMA DeliveriesStart ==
  ASSUME Deliveries, log \in Seq(Id), sent \in Nat, NEW c \in Client, Apart(c), op'[c].id = sent + 1,
         UNCHANGED <<log, purged>>, sent' = sent + 1
  PROVE  Deliveries'
<1>1. Delivered' = Delivered
  BY DEF Delivered
<1>2. \A i \in 1..Len(log) : log[i] \in Nat /\ log[i] <= sent
  <2>1. \A i \in 1..Len(log) : log[i] \in Nat
    BY SeqFacts, MailboxAssumption DEF Id
  <2> QED
    BY <2>1 DEF Deliveries
<1>3. sent + 1 \notin Delivered
  BY <1>2 DEF Delivered
<1>4. \A d \in Client : d # c /\ Sending(d)' => Sending(d) /\ op'[d] = op[d]
  BY DEF Apart, Sending
<1>5. \A d \in Client : Sending(d) => op[d].id \in 1..sent
  BY DEF Deliveries, NewIn
<1>6. \A d \in Client : d # c /\ Sending(d)' => op'[d].id # op'[c].id
  BY <1>4, <1>5
<1>7. ASSUME NEW d \in Client, Sending(d)' PROVE NewIn(d)'
  <2>1. CASE d = c
    BY <1>1, <1>3, <1>6, <2>1 DEF NewIn
  <2>2. CASE d # c
    <3>1. NewIn(d) /\ op'[d] = op[d]
      BY <1>4, <1>7, <2>2 DEF Deliveries
    <3>2. op'[d].id \in 1..sent' /\ op'[d].id \notin Delivered'
      BY <1>1, <3>1 DEF NewIn
    <3>3. \A b \in Client : Sending(b)' /\ op'[d].id = op'[b].id => d = b
      BY <1>4, <1>6, <1>7, <2>2, <3>1 DEF NewIn
    <3> QED
      BY <3>2, <3>3 DEF NewIn
  <2> QED
    BY <2>1, <2>2
<1>8. \A i \in 1..Len(log) : log[i] <= sent'
  BY <1>2
<1> QED
  BY <1>1, <1>7, <1>8 DEF Deliveries, Once

\* The senders that have yet to trim.
LEMMA TrimmingFacts ==
  ASSUME NEW c \in Client, Apart(c)
  PROVE  /\ Cardinality(Trimming) \in Nat /\ Cardinality(Trimming') \in Nat
         /\ pc[c] # "trim" /\ pc'[c] # "trim" => Trimming' = Trimming
         /\ pc[c] # "trim" /\ pc'[c] = "trim" => Cardinality(Trimming') = Cardinality(Trimming) + 1
         /\ pc[c] = "trim" /\ pc'[c] # "trim" => Cardinality(Trimming') = Cardinality(Trimming) - 1
<1>1. IsFiniteSet(Trimming) /\ IsFiniteSet(Trimming')
  BY MailboxAssumption, FS_Subset DEF Trimming
<1>2. Cardinality(Trimming) \in Nat /\ Cardinality(Trimming') \in Nat
  BY <1>1, FS_CardinalityType
<1>3. ASSUME pc[c] # "trim", pc'[c] # "trim" PROVE Trimming' = Trimming
  BY <1>3 DEF Trimming, Apart
<1>4. ASSUME pc[c] # "trim", pc'[c] = "trim"
      PROVE  Cardinality(Trimming') = Cardinality(Trimming) + 1
  <2>1. Trimming' = Trimming \cup {c} /\ c \notin Trimming
    BY <1>4 DEF Trimming, Apart
  <2> QED
    BY <1>1, <2>1, FS_AddElement
<1>5. ASSUME pc[c] = "trim", pc'[c] # "trim"
      PROVE  Cardinality(Trimming') = Cardinality(Trimming) - 1
  <2>1. Trimming' = Trimming \ {c} /\ c \in Trimming
    BY <1>5 DEF Trimming, Apart
  <2> QED
    BY <1>1, <2>1, FS_RemoveElement
<1> QED
  BY <1>2, <1>3, <1>4, <1>5

LEMMA BoundStep ==
  ASSUME BoxIsBounded, MailboxTypeOK, MailboxTypeOK', NEW c \in Client, Apart(c), lane' = lane,
         PointOf(c), PointOf(c)', deaths <= deaths',
         \/ /\ Len(box') <= Len(box) /\ pc'[c] # "trim"
            /\ pc[c] = "trim" => deaths' = deaths + 1
         \/ Len(box') <= MaxLimit
         \/ Len(box') = Len(box) + 1 /\ pc[c] # "trim" /\ pc'[c] = "trim"
  PROVE  BoxIsBounded'
<1> DEFINE t == Cardinality(Trimming)
           u == Cardinality(Trimming')
<1>1. /\ t \in Nat /\ u \in Nat /\ MaxLimit \in Nat /\ deaths \in Nat /\ deaths' \in Nat
      /\ Len(box) \in Nat /\ Len(box') \in Nat
  BY TrimmingFacts, Limits, SeqFacts, MailboxAssumption DEF MailboxTypeOK
<1>2. \/ lane = "file" /\ Len(box) <= MaxLimit + t
      \/ lane # "file" /\ Len(box) <= MaxLimit + t + deaths
  BY <1>1, BoundIs
<1>3. /\ pc[c] # "trim" /\ pc'[c] # "trim" => u = t
      /\ pc[c] # "trim" /\ pc'[c] = "trim" => u = t + 1
      /\ pc[c] = "trim" /\ pc'[c] # "trim" => u = t - 1
  BY TrimmingFacts
<1>4. pc[c] = "trim" => lane # "file"
  BY DEF PointOf
<1> HIDE DEF t, u
<1>5. \/ lane = "file" /\ Len(box') <= MaxLimit + u
      \/ lane # "file" /\ Len(box') <= MaxLimit + u + deaths'
  BY <1>1, <1>2, <1>3, <1>4
<1>6. BoxIsBounded' <=>
        \/ lane' = "file" /\ Len(box') <= MaxLimit + u
        \/ lane' # "file" /\ Len(box') <= MaxLimit + u + deaths'
  <2> DEFINE n == Cardinality({d \in Client : pc'[d] = "trim"})
  <2>1. u = n
    BY DEF Trimming, u
  <2>2. BoxIsBounded' <=> Len(box') <= MaxLimit + n + (IF lane' = "file" THEN 0 ELSE deaths')
    BY DEF BoxIsBounded, MaxLimit
  <2> HIDE DEF n
  <2> QED
    BY <1>1, <2>1, <2>2
<1> QED
  BY <1>5, <1>6

-----------------------------------------------------------------------------
(***************************************************************************)
(* Steps that leave the box and the deliveries alone.                      *)
(***************************************************************************)
LEMMA HandsStay ==
  ASSUME Hands, NEW c \in Client, Apart(c), lane' = lane, UNCHANGED <<box, log, gone>>,
         Hand(c)', pc'[c] = "set" => \A d \in Client : d # c => pc[d] # "set"
  PROVE  Hands'
<1> SUFFICES ASSUME NEW d \in Client, d # c PROVE Hand(d)'
  BY DEF Hands
<1>1. Hand(d) /\ pc'[d] = pc[d] /\ op'[d] = op[d] /\ seen'[d] = seen[d]
  BY DEF Hands, Apart
<1>2. ASSUME pc[d] = "set" PROVE \A b \in Client : pc'[b] = "set" => d = b
  BY <1>1, <1>2 DEF Hand, Apart
<1>3. pc[d] \notin {"write", "set"} => seen'[d] = <<>>
  BY <1>1 DEF Hand
<1>4. pc[d] = "write" => /\ seen'[d] = box' \/ box' = <<>>
                         /\ Placed(seen'[d], log')
                         /\ gone' \cap IdsOf(seen'[d]) = {}
                         /\ Len(seen'[d]) <= MaxLimit
  BY <1>1 DEF Hand
<1>5. pc[d] = "set" => seen'[d] = box' /\ op'[d].id \in IdsOf(box')
  BY <1>1 DEF Hand
<1> QED
  BY <1>1, <1>2, <1>3, <1>4, <1>5 DEF Hand, MaxLimit

LEMMA QuietStep ==
  ASSUME MailInv, NEW c \in Client, Controls', Apart(c), UNCHANGED <<lane, box, log, purged, gone>>,
         sent' \in 0..MaxSends, marks' \in 0..MaxMarks, deaths' \in 0..MaxDeaths, deaths <= deaths',
         flock \notin {c, NoClient} => flock' = flock,
         PointOf(c)', Hand(c)', Deliveries',
         pc'[c] # "trim", pc[c] = "trim" => deaths' = deaths + 1,
         pc'[c] = "set" => \A d \in Client : d # c => pc[d] # "set"
  PROVE  MailInv'
<1>1. Alone'
  BY DEF MailInv, Alone
<1>2. MailboxTypeOK'
  BY DEF MailInv, MailboxTypeOK, Controls
<1>3. Points'
  BY PointsStep DEF MailInv
<1>4. Hands'
  BY HandsStay DEF MailInv
<1>5. BoxIsPlaced' /\ DeliveredIsKept' /\ PurgedIsGone'
  BY DEF MailInv, BoxIsPlaced, DeliveredIsKept, PurgedIsGone, MinLimit
<1>6. BoxIsBounded'
  <2>1. Len(box) \in Nat /\ Len(box') = Len(box)
    BY SeqFacts DEF MailInv, MailboxTypeOK
  <2>2. PointOf(c)
    BY DEF MailInv, Points
  <2> QED
    BY <1>2, <2>1, <2>2, BoundStep DEF MailInv
<1> QED
  BY <1>1, <1>2, <1>3, <1>4, <1>5, <1>6 DEF MailInv

LEMMA ControlsHold == ASSUME MailboxTypeOK PROVE Controls
BY DEF MailboxTypeOK, Controls

\* An operation that ends, or its client, without a change.
LEMMA QuietOver ==
  ASSUME MailInv, NEW c \in Client, Over(c), UNCHANGED <<lane, box, log, purged, gone, sent, marks>>,
         deaths' \in 0..MaxDeaths, deaths <= deaths', pc[c] = "trim" => deaths' = deaths + 1
  PROVE  MailInv'
<1>1. /\ Controls' /\ Apart(c) /\ pc'[c] = "idle" /\ op'[c] = NoOperation /\ seen'[c] = <<>>
      /\ flock' = IF flock = c THEN NoClient ELSE flock
  BY ControlsHold, OverFacts DEF MailInv
<1>2. sent' \in 0..MaxSends /\ marks' \in 0..MaxMarks
  BY DEF MailInv, MailboxTypeOK
<1>3. PointOf(c)' /\ Hand(c)'
  BY <1>1 DEF PointOf, Hand
<1>4. Deliveries'
  <2>1. ~Sending(c)'
    BY <1>1 DEF Sending, NoOperation
  <2> QED
    BY <1>1, <2>1, DeliveriesStay DEF MailInv, Deliveries
<1> QED
  BY <1>1, <1>2, <1>3, <1>4, QuietStep

LEMMA DieStep == ASSUME MailInv, NEW c \in Client, Die(c) PROVE MailInv'
<1>1. /\ Over(c) /\ UNCHANGED <<lane, box, log, purged, gone, sent, marks>>
      /\ deaths' = deaths + 1 /\ deaths' \in 0..MaxDeaths /\ deaths <= deaths'
  BY MailboxAssumption DEF MailInv, MailboxTypeOK, Die
<1> QED
  BY <1>1, QuietOver

LEMMA StartStep == ASSUME MailInv, NEW c \in Client, Start(c) PROVE MailInv'
<1>1. /\ UNCHANGED <<lane, box, flock, seen, log, purged, gone, deaths>>
      /\ pc[c] = "idle" /\ pc' = [pc EXCEPT ![c] = "begin"]
  BY DEF Start
<1>2. /\ sent' \in 0..MaxSends /\ marks' \in 0..MaxMarks /\ deaths' \in 0..MaxDeaths
      /\ deaths <= deaths'
  BY <1>1, MailboxAssumption DEF MailInv, MailboxTypeOK, Start
<1>3. PICK new \in Operation :
        /\ op' = [op EXCEPT ![c] = new]
        /\ \/ new.kind = "send" /\ new.id = sent + 1 /\ sent' = sent + 1
           \/ new.kind # "send" /\ sent' = sent
  <2>1. CASE /\ sent < MaxSends /\ sent' = sent + 1
             /\ op' = [op EXCEPT ![c] = [kind |-> "send", id |-> sent + 1]]
    <3>1. [kind |-> "send", id |-> sent + 1] \in Operation
      BY <2>1, MailboxAssumption DEF MailInv, MailboxTypeOK, Operation
    <3> QED
      BY <2>1, <3>1
  <2>2. CASE /\ sent' = sent
             /\ \E id \in IdsOf(box) : op' = [op EXCEPT ![c] = [kind |-> "mark", id |-> id]]
    <3>1. PICK id \in IdsOf(box) : op' = [op EXCEPT ![c] = [kind |-> "mark", id |-> id]]
      BY <2>2
    <3>2. id \in Id
      BY IdsFacts DEF MailInv, MailboxTypeOK
    <3>3. [kind |-> "mark", id |-> id] \in Operation
      BY <3>2, MailboxAssumption DEF Operation, Id
    <3> QED
      BY <2>2, <3>1, <3>3
  <2>3. CASE sent' = sent /\ op' = [op EXCEPT ![c] = [kind |-> "purge", id |-> 0]]
    <3>1. [kind |-> "purge", id |-> 0] \in Operation
      BY MailboxAssumption DEF Operation
    <3> QED
      BY <2>3, <3>1
  <2> QED
    BY <2>1, <2>2, <2>3 DEF Start
<1>4. /\ pc'[c] = "begin" /\ op'[c] = new /\ Apart(c)
      /\ pc' \in [Client -> Point] /\ op' \in [Client -> Operation]
  <2>1. pc \in [Client -> Point] /\ op \in [Client -> Operation] /\ "begin" \in Point
    BY DEF MailInv, MailboxTypeOK, Point
  <2> QED
    BY <1>1, <1>3, <2>1 DEF Apart
<1>5. Controls'
  <2>1. flock # NoClient => flock # c
    BY <1>1 DEF MailInv, MailboxTypeOK
  <2> QED
    BY <1>1, <1>4, <2>1 DEF MailInv, MailboxTypeOK, Controls, Apart
<1>6. PointOf(c)' /\ Hand(c)'
  BY <1>1, <1>4 DEF PointOf, Hand, MailInv, Hands
<1>7. Deliveries'
  <2>1. log \in Seq(Id) /\ sent \in Nat /\ purged' \subseteq Delivered
    BY <1>1, MailboxAssumption DEF MailInv, MailboxTypeOK, Deliveries
  <2>2. CASE new.kind = "send" /\ new.id = sent + 1 /\ sent' = sent + 1
    BY <1>1, <1>4, <2>1, <2>2, DeliveriesStart DEF MailInv
  <2>3. CASE new.kind # "send" /\ sent' = sent
    BY <1>1, <1>4, <2>1, <2>3, DeliveriesStay DEF MailInv, Sending
  <2> QED
    BY <1>3, <2>2, <2>3
<1> QED
  BY <1>1, <1>2, <1>4, <1>5, <1>6, <1>7, QuietStep

\* A client goes on, or has locked, with what it has read.
LEMMA QuietOnward ==
  ASSUME MailInv, NEW c \in Client, Controls', Apart(c), op' = op, pc[c] # "trim", pc'[c] # "trim",
         UNCHANGED <<lane, box, log, purged, gone, sent, marks, deaths>>,
         flock \notin {c, NoClient} => flock' = flock,
         PointOf(c)', Hand(c)', pc'[c] = "set" => \A d \in Client : d # c => pc[d] # "set"
  PROVE  MailInv'
<1>1. sent' \in 0..MaxSends /\ marks' \in 0..MaxMarks /\ deaths' \in 0..MaxDeaths /\ deaths <= deaths'
  BY MailboxAssumption DEF MailInv, MailboxTypeOK
<1>2. Deliveries'
  BY DeliveriesStay DEF MailInv, Deliveries, Sending
<1> QED
  BY <1>1, <1>2, QuietStep

LEMMA EnterStep == ASSUME MailInv, NEW c \in Client, Enter(c) PROVE MailInv'
<1>1. /\ lane = "file" /\ pc[c] = "begin" /\ op[c].kind \in {"send", "mark"} /\ flock = NoClient
      /\ UNCHANGED <<lane, box, log, purged, gone, sent, marks, deaths>>
      /\ deaths' \in 0..MaxDeaths /\ deaths <= deaths'
  BY MailboxAssumption DEF MailInv, MailboxTypeOK, Enter, LockFree
<1>2. CASE Over(c)
  BY <1>1, <1>2, QuietOver
<1>3. CASE /\ flock' = c /\ op' = op /\ seen' = seen
           /\ pc' = [pc EXCEPT ![c] = IF box = <<>> THEN "write" ELSE "read"]
  <2>1. /\ pc'[c] = IF box = <<>> THEN "write" ELSE "read"
        /\ pc' \in [Client -> Point] /\ Apart(c)
    BY <1>3 DEF MailInv, MailboxTypeOK, Apart, Point
  <2>2. Controls'
    BY <1>3, <2>1 DEF MailInv, MailboxTypeOK, Controls
  <2>3. PointOf(c)'
    BY <1>1, <1>3, <2>1 DEF PointOf
  <2>4. seen[c] = <<>> /\ IdsOf(<<>>) = {} /\ Len(<<>>) = 0
    BY <1>1 DEF MailInv, Hands, Hand, IdsOf
  <2>5. Placed(seen'[c], log') /\ gone' \cap IdsOf(seen'[c]) = {} /\ Len(seen'[c]) <= MaxLimit
    BY <1>1, <1>3, <2>4, PlacedEmpty, Limits
  <2>6. Hand(c)'
    BY <1>1, <1>3, <2>1, <2>4, <2>5 DEF Hand, MaxLimit
  <2> QED
    BY <1>1, <1>3, <2>1, <2>2, <2>3, <2>6, QuietOnward
<1> QED
  BY <1>2, <1>3 DEF Enter

LEMMA ReadBoxStep == ASSUME MailInv, NEW c \in Client, ReadBox(c) PROVE MailInv'
<1>1. /\ pc[c] = "read" /\ UNCHANGED <<lane, box, log, purged, gone, sent, marks, deaths>>
      /\ deaths' \in 0..MaxDeaths /\ deaths <= deaths'
  BY MailboxAssumption DEF MailInv, MailboxTypeOK, ReadBox
<1>2. CASE Over(c)
  BY <1>1, <1>2, QuietOver
<1>3. CASE seen' = [seen EXCEPT ![c] = box] /\ GoOn(c, "write")
  <2>1. box \in Seq(Message) /\ "write" \in Point
    BY DEF MailInv, MailboxTypeOK, Point
  <2>2. /\ Controls' /\ Apart(c) /\ pc'[c] = "write" /\ op' = op /\ flock' = flock
        /\ seen'[c] = box
    BY <1>1, <1>3, <2>1, ControlsHold, GoOnFacts DEF MailInv, Controls
  <2>3. flock = c /\ lane = "file" /\ op[c].kind \in {"send", "mark"}
    BY <1>1 DEF MailInv, Points, PointOf
  <2>4. PointOf(c)'
    BY <1>1, <2>2, <2>3 DEF PointOf
  <2>5. Len(box) <= MaxLimit
    <3>1. {d \in Client : pc[d] = "trim"} = {}
      BY <2>3 DEF MailInv, Points, PointOf
    <3>2. Len(box) <= MaxLimit + 0 + 0
      BY <2>3, <3>1, FS_EmptySet DEF MailInv, BoxIsBounded
    <3> QED
      BY <2>1, <3>2, SeqFacts, Limits
  <2>6. Placed(box, log) /\ gone \cap IdsOf(box) = {}
    BY DEF MailInv, BoxIsPlaced, PurgedIsGone
  <2>7. Hand(c)'
    BY <1>1, <2>2, <2>5, <2>6 DEF Hand, MaxLimit
  <2> QED
    BY <1>1, <2>2, <2>4, <2>7, QuietOnward
<1> QED
  BY <1>2, <1>3 DEF ReadBox

LEMMA PurgeLookStep == ASSUME MailInv, NEW c \in Client, PurgeLook(c) PROVE MailInv'
<1>1. /\ lane = "file" /\ pc[c] = "begin" /\ op[c].kind = "purge"
      /\ UNCHANGED <<lane, box, log, purged, gone, sent, marks, deaths>>
      /\ deaths' \in 0..MaxDeaths /\ deaths <= deaths'
  BY MailboxAssumption DEF MailInv, MailboxTypeOK, PurgeLook, Begins
<1>2. CASE Over(c)
  BY <1>1, <1>2, QuietOver
<1>3. CASE GoOn(c, "unlink") /\ UNCHANGED seen
  <2>1. /\ Controls' /\ Apart(c) /\ pc'[c] = "unlink" /\ op' = op /\ flock' = flock
    BY <1>1, <1>3, ControlsHold, GoOnFacts DEF MailInv, Point
  <2>2. PointOf(c)' /\ Hand(c)'
    BY <1>1, <1>3, <2>1 DEF PointOf, Hand, MailInv, Hands
  <2> QED
    BY <1>1, <2>1, <2>2, QuietOnward
<1> QED
  BY <1>2, <1>3 DEF PurgeLook

LEMMA LRangeStep == ASSUME MailInv, NEW c \in Client, LRange(c) PROVE MailInv'
<1>1. /\ lane = "redis" /\ pc[c] = "begin" /\ op[c].kind = "mark"
      /\ UNCHANGED <<lane, box, log, purged, gone, sent, marks, deaths>>
      /\ deaths' \in 0..MaxDeaths /\ deaths <= deaths'
  BY MailboxAssumption DEF MailInv, MailboxTypeOK, LRange, Begins
<1>2. CASE Over(c)
  BY <1>1, <1>2, QuietOver
<1>3. CASE /\ op[c].id \in IdsOf(box)
           /\ seen' = [seen EXCEPT ![c] = box] /\ GoOn(c, "set")
  <2>1. box \in Seq(Message) /\ "set" \in Point
    BY DEF MailInv, MailboxTypeOK, Point
  <2>2. /\ Controls' /\ Apart(c) /\ pc'[c] = "set" /\ op' = op /\ flock' = flock
        /\ seen'[c] = box
    BY <1>1, <1>3, <2>1, ControlsHold, GoOnFacts DEF MailInv, Controls
  <2>3. \A d \in Client : d # c => pc[d] # "set"
    BY <1>1 DEF LRange, MailInv, Alone
  <2>4. PointOf(c)' /\ Hand(c)'
    BY <1>1, <1>3, <2>2, <2>3 DEF PointOf, Hand, Apart
  <2> QED
    BY <1>1, <2>2, <2>3, <2>4, QuietOnward
<1> QED
  BY <1>2, <1>3 DEF LRange

-----------------------------------------------------------------------------
(***************************************************************************)
(* Which deliveries are still there: what DeliveredIsKept says, of a list  *)
(* of identities.                                                          *)
(***************************************************************************)
Preserved(l, ids, p) ==
  \A i \in 1..Len(l) : l[i] \in ids \/ l[i] \in p \/ Len(l) - i >= MinLimit

LEMMA PreservedMore ==
  ASSUME NEW l, NEW ids, NEW ids2, NEW p, NEW p2, Preserved(l, ids, p),
         ids \subseteq ids2 \cup p2, p \subseteq p2
  PROVE  Preserved(l, ids2, p2)
BY DEF Preserved

LEMMA PreservedAppend ==
  ASSUME NEW l \in Seq(Id), NEW id \in Id, NEW ids, NEW p, Preserved(l, ids, p)
  PROVE  Preserved(Append(l, id), ids \cup {id}, p)
<1> DEFINE q == Append(l, id)
<1>1. /\ Len(l) \in Nat /\ Len(q) = Len(l) + 1 /\ q[Len(l) + 1] = id
      /\ \A i \in 1..Len(l) : q[i] = l[i]
  BY AppendProperties
<1> HIDE DEF q
<1>2. ASSUME NEW i \in 1..Len(q)
      PROVE  q[i] \in ids \cup {id} \/ q[i] \in p \/ Len(q) - i >= MinLimit
  <2>1. CASE i = Len(l) + 1
    BY <1>1, <2>1
  <2>2. CASE i # Len(l) + 1
    <3>1. i \in 1..Len(l) /\ q[i] = l[i] /\ MinLimit \in Nat
      BY <1>1, <2>2, Limits
    <3>2. CASE Len(l) - i >= MinLimit
      <4>1. Len(q) - i >= MinLimit
        BY <1>1, <3>1, <3>2
      <4> QED
        BY <4>1
    <3> QED
      BY <3>1, <3>2 DEF Preserved
  <2> QED
    BY <2>1, <2>2
<1> QED
  BY <1>2 DEF Preserved, q

LEMMA PreservedCut ==
  ASSUME NEW m \in Seq(Message), NEW l \in Seq(Id), NEW p, Placed(m, l), Once(l),
         Preserved(l, IdsOf(m), p), NEW c \in Client
  PROVE  Preserved(l, IdsOf(Kept(m, HardLimit[c])), p)
<1> DEFINE k == HardLimit[c]
<1>1. k \in Nat \ {0} /\ MinLimit \in Nat /\ MinLimit <= k /\ Len(l) \in Nat
  BY Limits, MailboxAssumption, SeqFacts
<1>2. ASSUME NEW i \in 1..Len(l)
      PROVE  l[i] \in IdsOf(Kept(m, k)) \/ l[i] \in p \/ Len(l) - i >= MinLimit
  <2>1. CASE l[i] \in IdsOf(m)
    <3>1. l[i] \in IdsOf(Kept(m, k)) \/ Len(l) - i >= k
      BY <1>1, <2>1, CutIsOld
    <3> HIDE DEF k
    <3>2. Len(l) - i >= k => Len(l) - i >= MinLimit
      BY <1>1
    <3> QED
      BY <3>1, <3>2
  <2> QED
    BY <2>1 DEF Preserved
<1> QED
  BY <1>2 DEF Preserved

LEMMA KeptIs ==
  ASSUME log \in Seq(Id) PROVE DeliveredIsKept <=> Preserved(log, IdsOf(box), purged)
BY SeqFacts DEF DeliveredIsKept, Preserved

-----------------------------------------------------------------------------
(***************************************************************************)
(* Steps that change the box.                                              *)
(***************************************************************************)
\* The others have read nothing, or nothing has changed for them.
LEMMA HandsMove ==
  ASSUME Hands, NEW c \in Client, Apart(c), \A d \in Client : d # c => pc[d] \notin {"write", "set"},
         pc'[c] \notin {"write", "set"}, seen'[c] = <<>>
  PROVE  Hands'
<1> SUFFICES ASSUME NEW d \in Client PROVE Hand(d)'
  BY DEF Hands
<1>1. pc'[d] \notin {"write", "set"} /\ seen'[d] = <<>>
  BY DEF Hands, Hand, Apart
<1> QED
  BY <1>1 DEF Hand

LEMMA BoxStep ==
  ASSUME MailInv, NEW c \in Client, Controls', Apart(c), UNCHANGED <<lane, sent, marks, deaths>>,
         flock \notin {c, NoClient} => flock' = flock, PointOf(c)', Hands', Deliveries',
         box' \in Seq(Message), log' \in Seq(Id), purged' \subseteq Id, gone' \subseteq purged',
         Placed(box', log'), Preserved(log', IdsOf(box'), purged'), gone' \cap IdsOf(box') = {},
         \/ Len(box') <= Len(box) /\ pc'[c] # "trim" /\ pc[c] # "trim"
         \/ Len(box') <= MaxLimit
         \/ Len(box') = Len(box) + 1 /\ pc[c] # "trim" /\ pc'[c] = "trim"
  PROVE  MailInv'
<1>1. Alone'
  BY DEF MailInv, Alone
<1>2. MailboxTypeOK'
  BY DEF MailInv, MailboxTypeOK, Controls
<1>3. Points'
  BY PointsStep DEF MailInv
<1>4. BoxIsPlaced' /\ PurgedIsGone'
  BY DEF BoxIsPlaced, PurgedIsGone
<1>5. DeliveredIsKept'
  BY SeqFacts DEF DeliveredIsKept, Preserved, MinLimit
<1>6. BoxIsBounded'
  <2>1. PointOf(c) /\ deaths <= deaths'
    BY MailboxAssumption DEF MailInv, Points, MailboxTypeOK
  <2> QED
    BY <1>2, <2>1, BoundStep DEF MailInv
<1> QED
  BY <1>1, <1>2, <1>3, <1>4, <1>5, <1>6 DEF MailInv

LEMMA BoxFacts ==
  ASSUME MailInv
  PROVE  /\ box \in Seq(Message) /\ log \in Seq(Id) /\ sent \in Nat
         /\ Placed(box, log) /\ Once(log) /\ Preserved(log, IdsOf(box), purged)
         /\ gone \cap IdsOf(box) = {} /\ purged \subseteq Id /\ gone \subseteq purged
         /\ purged \subseteq Delivered
BY KeptIs, MailboxAssumption
   DEF MailInv, MailboxTypeOK, BoxIsPlaced, Deliveries, PurgedIsGone

\* What a client sends is nowhere yet.
LEMMA SendingFacts ==
  ASSUME MailInv, NEW c \in Client, Sending(c)
  PROVE  /\ op[c].id \in Id /\ op[c].id \notin Delivered
         /\ [id |-> op[c].id, read |-> FALSE] \in Message
<1>1. op[c].id \in 1..sent /\ op[c].id \notin Delivered
  BY DEF MailInv, Deliveries, NewIn
<1>2. op[c].id \in Id
  BY <1>1, MailboxAssumption DEF MailInv, MailboxTypeOK, Id
<1> QED
  BY <1>1, <1>2 DEF Message

LEMMA WriteBoxStep == ASSUME MailInv, NEW c \in Client, WriteBox(c) PROVE MailInv'
<1> DEFINE id == op[c].id
           x == [id |-> id, read |-> FALSE]
           k == HardLimit[c]
<1>1. /\ pc[c] = "write" /\ Over(c) /\ UNCHANGED <<lane, sent, marks, purged, gone, deaths>>
  BY DEF WriteBox
<1>2. /\ Controls' /\ Apart(c) /\ pc'[c] = "idle" /\ op'[c] = NoOperation /\ seen'[c] = <<>>
      /\ flock' = IF flock = c THEN NoClient ELSE flock
  BY <1>1, ControlsHold, OverFacts DEF MailInv
<1>3. /\ flock = c /\ lane = "file" /\ op[c].kind \in {"send", "mark"}
      /\ \A d \in Client : d # c => pc[d] \notin {"write", "set"}
  BY <1>1 DEF MailInv, Points, PointOf
<1>4. /\ seen[c] \in Seq(Message) /\ (seen[c] = box \/ box = <<>>) /\ Placed(seen[c], log)
      /\ gone \cap IdsOf(seen[c]) = {} /\ Len(seen[c]) <= MaxLimit
  BY <1>1 DEF MailInv, MailboxTypeOK, Hands, Hand
<1>5. IdsOf(box) \subseteq IdsOf(seen[c])
  BY <1>4, BoxFacts, IdsFacts
<1>6. Preserved(log, IdsOf(seen[c]), purged)
  BY <1>5, BoxFacts, PreservedMore
<1>7. PointOf(c)' /\ Hands'
  BY <1>2, <1>3, HandsMove DEF MailInv, PointOf
<1>8. ~Sending(c)'
  BY <1>2 DEF Sending, NoOperation
<1>9. CASE /\ op[c].kind = "send" /\ log' = Append(log, id)
           /\ box' = Kept(Append(seen[c], x), k)
  <2> DEFINE m == Append(seen[c], x)
  <2>1. Sending(c)
    BY <1>1, <1>9 DEF Sending
  <2>2. id \in Id /\ x \in Message /\ x.id = id /\ id \notin Delivered
    BY <2>1, SendingFacts
  <2>3. Deliveries' /\ log' \in Seq(Id)
    BY <1>1, <1>2, <1>8, <1>9, <2>1, <2>2, BoxFacts, DeliveriesGrow, AppendProperties DEF MailInv
  <2>4. m \in Seq(Message) /\ IdsOf(m) = IdsOf(seen[c]) \cup {id}
    BY <1>4, <2>2, AppendFacts
  <2>5. Placed(m, log') /\ Preserved(log', IdsOf(m), purged)
    <3>1. Placed(m, Append(log, id))
      BY <1>4, <2>2, BoxFacts, PlacedAppend
    <3>2. Preserved(Append(log, id), IdsOf(seen[c]) \cup {id}, purged)
      BY <1>6, <2>2, BoxFacts, PreservedAppend
    <3> QED
      BY <1>9, <2>4, <3>1, <3>2
  <2>6. k \in Nat \ {0} /\ k <= MaxLimit /\ MaxLimit \in Nat
    BY Limits, MailboxAssumption
  <2>7. Once(log')
    BY <2>3 DEF Deliveries, Once
  <2> HIDE DEF m, x
  <2>8. Placed(Kept(m, k), log')
    BY <2>3, <2>4, <2>5, <2>6, PlacedKept
  <2>9. Preserved(log', IdsOf(Kept(m, k)), purged)
    BY <2>3, <2>4, <2>5, <2>7, PreservedCut
  <2>10. Kept(m, k) \in Seq(Message) /\ Len(Kept(m, k)) <= MaxLimit
    <3>1. /\ Kept(m, k) \in Seq(Message) /\ Len(Kept(m, k)) \in Nat
          /\ Len(Kept(m, k)) <= k
      BY <2>4, <2>6, KeptFacts
    <3>2. k \in Nat
      BY <2>6
    <3> HIDE DEF k
    <3> QED
      BY <2>6, <3>1, <3>2
  <2>11. gone \cap IdsOf(Kept(m, k)) = {}
    <3>1. id \notin gone
      BY <2>2, BoxFacts
    <3> QED
      BY <1>4, <2>4, <2>6, <3>1, KeptIds
  <2>12. box' = Kept(m, k)
    BY <1>9 DEF m, x
  <2> HIDE DEF k, id
  <2> QED
    BY <1>1, <1>2, <1>7, <2>3, <2>8, <2>9, <2>10, <2>11, <2>12, BoxFacts, BoxStep
<1>10. CASE box' = Marked(seen[c], id) /\ log' = log
  <2>1. /\ box' \in Seq(Message) /\ Len(box') = Len(seen[c]) /\ IdsOf(box') = IdsOf(seen[c])
        /\ \A i \in 1..Len(seen[c]) : box'[i].id = seen[c][i].id
    BY <1>4, <1>10, MarkedFacts
  <2>2. Placed(box', log)
    BY <1>4, <2>1, PlacedSame
  <2>3. Deliveries'
    BY <1>1, <1>2, <1>8, <1>10, BoxFacts, DeliveriesStay DEF MailInv
  <2>4. Len(box') <= MaxLimit
    BY <1>4, <2>1
  <2> QED
    BY <1>1, <1>2, <1>4, <1>6, <1>7, <1>10, <2>1, <2>2, <2>3, <2>4, BoxFacts, BoxStep
<1> QED
  BY <1>9, <1>10 DEF WriteBox, Deliver

\* Nobody is between its lrange and its lset, or has read the file.
LEMMA NobodyHolds ==
  ASSUME MailInv, NEW c \in Client, lane # "file", Undisturbed(c)
  PROVE  \A d \in Client : d # c => pc[d] \notin {"write", "set"}
BY DEF MailInv, Alone, Points, PointOf, Undisturbed

LEMMA AddedStep ==
  ASSUME MailInv, NEW c \in Client, lane \in {"redis", "postgres"}, Added(c)
  PROVE  MailInv'
<1> DEFINE id == op[c].id
           x == [id |-> id, read |-> FALSE]
<1>1. /\ pc[c] = "begin" /\ op[c].kind = "send" /\ Undisturbed(c) /\ GoOn(c, "trim")
      /\ UNCHANGED <<lane, seen, sent, marks, purged, gone, deaths>>
      /\ box' = Append(box, x) /\ log' = Append(log, id)
  BY DEF Added, Begins, Deliver
<1>2. /\ Controls' /\ Apart(c) /\ pc'[c] = "trim" /\ op' = op /\ flock' = flock
  BY <1>1, ControlsHold, GoOnFacts DEF MailInv, Point
<1>3. seen'[c] = <<>>
  BY <1>1 DEF MailInv, Hands, Hand
<1>4. PointOf(c)' /\ Hands'
  BY <1>1, <1>2, <1>3, NobodyHolds, HandsMove DEF MailInv, PointOf
<1>5. Sending(c) /\ ~Sending(c)'
  BY <1>1, <1>2 DEF Sending
<1>6. id \in Id /\ x \in Message /\ x.id = id /\ id \notin Delivered
  BY <1>5, SendingFacts
<1>7. Deliveries' /\ log' \in Seq(Id)
  BY <1>1, <1>2, <1>5, <1>6, BoxFacts, DeliveriesGrow, AppendProperties DEF MailInv
<1>8. box' \in Seq(Message) /\ IdsOf(box') = IdsOf(box) \cup {id} /\ Len(box') = Len(box) + 1
  BY <1>1, <1>6, BoxFacts, AppendFacts
<1>9. Placed(box', log') /\ Preserved(log', IdsOf(box'), purged')
  <2>1. Placed(Append(box, x), Append(log, id))
    BY <1>6, BoxFacts, PlacedAppend
  <2>2. Preserved(Append(log, id), IdsOf(box) \cup {id}, purged)
    BY <1>6, BoxFacts, PreservedAppend
  <2> QED
    BY <1>1, <1>8, <2>1, <2>2
<1>10. gone' \cap IdsOf(box') = {}
  BY <1>1, <1>6, <1>8, BoxFacts
<1> HIDE DEF id, x
<1> QED
  BY <1>1, <1>2, <1>4, <1>7, <1>8, <1>9, <1>10, BoxFacts, BoxStep

LEMMA CutStep ==
  ASSUME MailInv, NEW c \in Client, lane \in {"redis", "postgres"}, Cut(c)
  PROVE  MailInv'
<1> DEFINE k == HardLimit[c]
<1>1. /\ pc[c] = "trim" /\ Undisturbed(c) /\ Over(c) /\ box' = Kept(box, k)
      /\ UNCHANGED <<lane, sent, marks, log, purged, gone, deaths>>
  BY DEF Cut
<1>2. /\ Controls' /\ Apart(c) /\ pc'[c] = "idle" /\ op'[c] = NoOperation /\ seen'[c] = <<>>
      /\ flock' = IF flock = c THEN NoClient ELSE flock
  BY <1>1, ControlsHold, OverFacts DEF MailInv
<1>3. PointOf(c)' /\ Hands'
  BY <1>1, <1>2, NobodyHolds, HandsMove DEF MailInv, PointOf
<1>4. Deliveries'
  <2>1. ~Sending(c)'
    BY <1>2 DEF Sending, NoOperation
  <2> QED
    BY <1>1, <1>2, <2>1, BoxFacts, DeliveriesStay DEF MailInv
<1>5. k \in Nat \ {0} /\ k <= MaxLimit /\ MaxLimit \in Nat
  BY Limits, MailboxAssumption
<1>6. Placed(box', log') /\ Preserved(log', IdsOf(box'), purged')
  BY <1>1, <1>5, BoxFacts, PlacedKept, PreservedCut
<1>7. gone' \cap IdsOf(box') = {}
  BY <1>1, <1>5, BoxFacts, KeptIds
<1>8. box' \in Seq(Message) /\ Len(box') <= MaxLimit
  <2>1. box' \in Seq(Message) /\ Len(box') \in Nat /\ Len(box') <= k
    BY <1>1, <1>5, BoxFacts, KeptFacts
  <2>2. k \in Nat
    BY <1>5
  <2> HIDE DEF k
  <2> QED
    BY <1>5, <2>1, <2>2
<1> HIDE DEF k
<1> QED
  BY <1>1, <1>2, <1>3, <1>4, <1>6, <1>7, <1>8, BoxFacts, BoxStep

\* A box with the same messages, some of them marked.
LEMMA MarkStep ==
  ASSUME MailInv, NEW c \in Client, Over(c), UNCHANGED <<lane, sent, marks, log, purged, gone, deaths>>,
         pc[c] # "trim", \A d \in Client : d # c => pc[d] \notin {"write", "set"},
         box' \in Seq(Message), Len(box') = Len(box), \A i \in 1..Len(box) : box'[i].id = box[i].id
  PROVE  MailInv'
<1>1. /\ Controls' /\ Apart(c) /\ pc'[c] = "idle" /\ op'[c] = NoOperation /\ seen'[c] = <<>>
      /\ flock' = IF flock = c THEN NoClient ELSE flock
  BY ControlsHold, OverFacts DEF MailInv
<1>2. PointOf(c)' /\ Hands'
  BY <1>1, HandsMove DEF MailInv, PointOf
<1>3. Deliveries'
  <2>1. ~Sending(c)'
    BY <1>1 DEF Sending, NoOperation
  <2> QED
    BY <1>1, <2>1, BoxFacts, DeliveriesStay DEF MailInv
<1>4. IdsOf(box') = IdsOf(box) /\ Placed(box', log)
  BY BoxFacts, SameIds, PlacedSame
<1>5. Len(box') <= Len(box)
  BY BoxFacts, SeqFacts
<1> QED
  BY <1>1, <1>2, <1>3, <1>4, <1>5, BoxFacts, BoxStep

LEMMA MarkRowStep == ASSUME MailInv, NEW c \in Client, MarkRow(c) PROVE MailInv'
<1>1. /\ lane = "postgres" /\ pc[c] = "begin" /\ Over(c) /\ box' = Marked(box, op[c].id)
      /\ UNCHANGED <<lane, sent, marks, log, purged, gone, deaths>>
  BY DEF MarkRow, Begins
<1>2. \A d \in Client : d # c => pc[d] \notin {"write", "set"}
  BY <1>1 DEF MailInv, Points, PointOf
<1>3. /\ box' \in Seq(Message) /\ Len(box') = Len(box)
      /\ \A i \in 1..Len(box) : box'[i].id = box[i].id
  BY <1>1, BoxFacts, MarkedFacts
<1> QED
  BY <1>1, <1>2, <1>3, MarkStep

\* The index that the client has found holds the message still.
LEMMA LSetFacts ==
  ASSUME MailInv, NEW c \in Client, LSet(c)
  PROVE  /\ \A d \in Client : d # c => pc[d] \notin {"write", "set"}
         /\ box' \in Seq(Message) /\ Len(box') = Len(box) /\ Len(box) \in Nat
         /\ \A i \in 1..Len(box) : box'[i].id = box[i].id /\ (box[i].read => box'[i].read)
<1> DEFINE id == op[c].id
           n == IndexOf(seen[c], id)
           x == [id |-> id, read |-> TRUE]
<1>1. /\ pc[c] = "set"
      /\ box' = IF n \in DOMAIN box THEN [box EXCEPT ![n] = x] ELSE box
  BY DEF LSet
<1>2. /\ lane = "redis" /\ seen[c] = box /\ id \in IdsOf(box)
      /\ \A d \in Client : d # c => pc[d] # "set"
  BY <1>1 DEF MailInv, Points, PointOf, Hands, Hand
<1>3. \A d \in Client : pc[d] # "write"
  BY <1>2 DEF MailInv, Points, PointOf
<1>4. box \in Seq(Message) /\ Len(box) \in Nat /\ DOMAIN box = 1..Len(box)
  BY BoxFacts, SeqFacts
<1>5. n \in DOMAIN box /\ box[n].id = id
  <2>1. \E i \in DOMAIN box : box[i].id = id
    BY <1>2 DEF IdsOf
  <2> QED
    BY <1>2, <2>1 DEF IndexOf
<1>6. x \in Message
  BY <1>2, <1>4, IdsFacts DEF Message
<1> HIDE DEF n
<1>7. box' = [box EXCEPT ![n] = x]
  BY <1>1, <1>5
<1>8. box' \in Seq(Message) /\ Len(box') = Len(box)
  BY <1>4, <1>5, <1>6, <1>7, ExceptSeq
<1>9. ASSUME NEW i \in 1..Len(box) PROVE box'[i].id = box[i].id /\ (box[i].read => box'[i].read)
  <2>1. CASE i = n
    BY <1>4, <1>5, <1>7, <2>1
  <2>2. CASE i # n
    BY <1>4, <1>7, <2>2
  <2> QED
    BY <2>1, <2>2
<1> QED
  BY <1>2, <1>3, <1>4, <1>8, <1>9

LEMMA LSetStep == ASSUME MailInv, NEW c \in Client, LSet(c) PROVE MailInv'
<1>1. /\ pc[c] = "set" /\ Over(c) /\ UNCHANGED <<lane, sent, marks, log, purged, gone, deaths>>
  BY DEF LSet
<1> QED
  BY <1>1, LSetFacts, MarkStep

\* A purge, by a client that holds no lock.
LEMMA EmptiedStep ==
  ASSUME MailInv, NEW c \in Client, Over(c), Emptied, UNCHANGED <<lane, sent, marks, log, deaths>>,
         pc[c] \notin {"trim", "read", "write", "set"},
         \A d \in Client : d # c => pc[d] # "set"
  PROVE  MailInv'
<1>1. /\ Controls' /\ Apart(c) /\ pc'[c] = "idle" /\ op'[c] = NoOperation /\ seen'[c] = <<>>
      /\ flock' = IF flock = c THEN NoClient ELSE flock
  BY ControlsHold, OverFacts DEF MailInv
<1>2. /\ box' = <<>> /\ purged' = purged \cup IdsOf(box)
      /\ gone' = gone \cup (IdsOf(box) \ (IF flock = NoClient THEN {} ELSE IdsOf(seen[flock])))
  BY DEF Emptied
<1>3. /\ box' \in Seq(Message) /\ Len(box') = 0 /\ IdsOf(box') = {} /\ IdsOf(box) \subseteq Id
      /\ Len(box') <= MaxLimit
  <2>1. <<>> \in Seq(Message) /\ Len(<<>>) = 0 /\ IdsOf(<<>>) = {}
    BY DEF IdsOf
  <2>2. IdsOf(box) \subseteq Id /\ 0 <= MaxLimit
    BY BoxFacts, IdsFacts, Limits
  <2> QED
    BY <1>2, <2>1, <2>2
<1>4. IdsOf(box) \subseteq Delivered
  BY BoxFacts, PlacedFacts DEF Delivered
<1>5. Deliveries'
  <2>1. ~Sending(c)'
    BY <1>1 DEF Sending, NoOperation
  <2>2. purged' \subseteq Delivered
    BY <1>2, <1>4, BoxFacts
  <2> QED
    BY <1>1, <2>1, <2>2, DeliveriesStay DEF MailInv
<1>6. PointOf(c)'
  BY <1>1 DEF PointOf
<1>7. Hands'
  <2> SUFFICES ASSUME NEW d \in Client PROVE Hand(d)'
    BY DEF Hands
  <2>1. CASE d = c
    BY <1>1, <2>1 DEF Hand
  <2>2. CASE d # c
    <3>1. pc'[d] = pc[d] /\ op'[d] = op[d] /\ seen'[d] = seen[d] /\ pc[d] # "set" /\ Hand(d)
      BY <1>1, <2>2 DEF Apart, MailInv, Hands
    <3>2. pc[d] = "write" => gone' \cap IdsOf(seen[d]) = {}
      <4>1. pc[d] = "write" => flock = d /\ d # NoClient /\ gone \cap IdsOf(seen[d]) = {}
        BY <3>1, MailboxAssumption DEF MailInv, Points, PointOf, Hand
      <4> QED
        BY <1>2, <4>1
    <3> QED
      BY <1>2, <3>1, <3>2 DEF Hand, MaxLimit
  <2> QED
    BY <2>1, <2>2
<1>8. Placed(box', log') /\ Preserved(log', IdsOf(box'), purged') /\ gone' \cap IdsOf(box') = {}
  <2>1. Preserved(log, IdsOf(box'), purged')
    BY <1>2, BoxFacts, PreservedMore
  <2> QED
    BY <1>2, <1>3, <2>1, PlacedEmpty
<1>9. purged' \subseteq Id /\ gone' \subseteq purged'
  BY <1>2, <1>3, BoxFacts
<1> QED
  BY <1>1, <1>3, <1>5, <1>6, <1>7, <1>8, <1>9, BoxFacts, BoxStep

LEMMA UnlinkStep == ASSUME MailInv, NEW c \in Client, Unlink(c) PROVE MailInv'
<1>1. /\ pc[c] = "unlink" /\ Emptied /\ Over(c) /\ UNCHANGED <<lane, sent, marks, log, deaths>>
  BY DEF Unlink
<1>2. \A d \in Client : pc[d] # "set"
  BY <1>1 DEF MailInv, Points, PointOf
<1> QED
  BY <1>1, <1>2, EmptiedStep

LEMMA DeleteStep == ASSUME MailInv, NEW c \in Client, Delete(c) PROVE MailInv'
<1>1. /\ lane # "file" /\ pc[c] = "begin" /\ Undisturbed(c) /\ Emptied /\ Over(c)
      /\ UNCHANGED <<lane, sent, marks, log, deaths>>
  BY DEF Delete, Begins
<1>2. \A d \in Client : d # c => pc[d] # "set"
  BY <1>1, NobodyHolds
<1> QED
  BY <1>1, <1>2, EmptiedStep

-----------------------------------------------------------------------------
(***************************************************************************)
(* The theorems.                                                           *)
(***************************************************************************)
LEMMA MailStep == MailInv /\ [Next]_vars => MailInv'
<1> SUFFICES ASSUME MailInv, [Next]_vars PROVE MailInv'
  OBVIOUS
<1>1. CASE UNCHANGED vars
  <2>1. Alone' /\ MailboxTypeOK' /\ Points'
    BY <1>1 DEF vars, MailInv, Alone, MailboxTypeOK, Points, PointOf
  <2>2. Deliveries'
    BY <1>1 DEF vars, MailInv, Deliveries, Once, NewIn, Sending, Delivered
  <2>3. Hands'
    BY <1>1 DEF vars, MailInv, Hands, Hand, MaxLimit
  <2>4. BoxIsPlaced' /\ DeliveredIsKept' /\ PurgedIsGone'
    BY <1>1 DEF vars, MailInv, BoxIsPlaced, DeliveredIsKept, PurgedIsGone, MinLimit
  <2>5. BoxIsBounded'
    BY <1>1 DEF vars, MailInv, BoxIsBounded, MaxLimit
  <2> QED
    BY <2>1, <2>2, <2>3, <2>4, <2>5 DEF MailInv
<1>2. ASSUME NEW c \in Client, Start(c) PROVE MailInv'
  BY <1>2, StartStep
<1>3. ASSUME NEW c \in Client, Die(c) PROVE MailInv'
  BY <1>3, DieStep
<1>4. ASSUME NEW c \in Client, Enter(c) PROVE MailInv'
  BY <1>4, EnterStep
<1>5. ASSUME NEW c \in Client, ReadBox(c) PROVE MailInv'
  BY <1>5, ReadBoxStep
<1>6. ASSUME NEW c \in Client, WriteBox(c) PROVE MailInv'
  BY <1>6, WriteBoxStep
<1>7. ASSUME NEW c \in Client, PurgeLook(c) PROVE MailInv'
  BY <1>7, PurgeLookStep
<1>8. ASSUME NEW c \in Client, Unlink(c) PROVE MailInv'
  BY <1>8, UnlinkStep
<1>9. ASSUME NEW c \in Client, Push(c) \/ Insert(c) PROVE MailInv'
  BY <1>9, AddedStep DEF Push, Insert
<1>10. ASSUME NEW c \in Client, LTrim(c) \/ DeleteOldest(c) PROVE MailInv'
  BY <1>10, CutStep DEF LTrim, DeleteOldest
<1>11. ASSUME NEW c \in Client, LRange(c) PROVE MailInv'
  BY <1>11, LRangeStep
<1>12. ASSUME NEW c \in Client, LSet(c) PROVE MailInv'
  BY <1>12, LSetStep
<1>13. ASSUME NEW c \in Client, MarkRow(c) PROVE MailInv'
  BY <1>13, MarkRowStep
<1>14. ASSUME NEW c \in Client, Delete(c) PROVE MailInv'
  BY <1>14, DeleteStep
<1> QED
  BY <1>1, <1>2, <1>3, <1>4, <1>5, <1>6, <1>7, <1>8, <1>9, <1>10, <1>11, <1>12, <1>13, <1>14
     DEF Next

LEMMA MailInvHolds == Spec /\ Alone => []MailInv
<1>1. Init /\ Alone => MailInv
  BY InitIsGood
<1>2. MailInv /\ [Next]_vars => MailInv'
  BY MailStep
<1> QED
  BY <1>1, <1>2, PTL DEF Spec

\* On the file and the Postgres lanes, and on Redis while nothing overlaps
\* with a mark_read, the box lists messages in the order of their delivery,
\* none of them twice, and outgrows the limit only by the messages whose
\* senders have yet to trim or died before they did.
THEOREM BoxIsInOrder == Spec /\ Alone => []MailboxInv
<1>1. MailInv => MailboxInv
  <2> SUFFICES ASSUME MailInv PROVE InDeliveryOrder
    BY DEF MailInv, MailboxInv
  <2>1. DOMAIN box = 1..Len(box) /\ DOMAIN log = 1..Len(log) /\ Placed(box, log)
    BY BoxFacts, SeqFacts
  <2>2. ASSUME NEW i \in 1..Len(box), NEW j \in 1..Len(box), i < j
        PROVE  DeliveredBefore(box[i].id, box[j].id)
    <3>1. PICK a \in 1..Len(log), b \in 1..Len(log) :
               a < b /\ log[a] = box[i].id /\ log[b] = box[j].id
      BY <2>1, <2>2 DEF Placed
    <3> QED
      BY <2>1, <3>1 DEF DeliveredBefore
  <2> QED
    BY <2>1, <2>2 DEF InDeliveryOrder
<1> QED
  BY <1>1, MailInvHolds, PTL

\* And a delivered message leaves the box only by a purge, or when as many
\* newer ones have come as the smallest limit in use.
THEOREM NoMailIsLost == Spec /\ Alone => []DeliveredIsKept
<1>1. MailInv => DeliveredIsKept
  BY DEF MailInv
<1> QED
  BY <1>1, MailInvHolds, PTL

\* And a purge, which takes no lock, is undone by at most the one operation
\* in progress, which can bring back only what it had read.
THEOREM PurgeIsFinal == Spec /\ Alone => []PurgedIsGone
<1>1. MailInv => PurgedIsGone
  BY DEF MailInv
<1> QED
  BY <1>1, MailInvHolds, PTL

-----------------------------------------------------------------------------
(***************************************************************************)
(* What is read stays read.                                                *)
(***************************************************************************)
\* r has the messages of m, marked at least as they were there, and new ones.
Keeps(m, r) ==
  \A j \in 1..Len(r) :
    \/ r[j].id \notin IdsOf(m)
    \/ \E i \in 1..Len(m) : r[j].id = m[i].id /\ (m[i].read => r[j].read)

ReadStays ==
  \A i \in DOMAIN box, j \in DOMAIN box' :
    box[i].id = box'[j].id /\ box[i].read => box'[j].read

LEMMA KeepsIsEnough ==
  ASSUME MailInv, box' \in Seq(Message), Keeps(box, box')
  PROVE  ReadStays
<1>1. DOMAIN box = 1..Len(box) /\ DOMAIN box' = 1..Len(box')
  BY BoxFacts, SeqFacts
<1>2. \A i, h \in 1..Len(box) : box[i].id = box[h].id => i = h
  BY BoxFacts, PlacedFacts
<1>3. \A i \in 1..Len(box) : box[i].id \in IdsOf(box)
  BY BoxFacts, IdsFacts
<1> QED
  BY <1>1, <1>2, <1>3 DEF Keeps, ReadStays

LEMMA KeepsPointwise ==
  ASSUME NEW m, NEW r, Len(r) = Len(m),
         \A i \in 1..Len(m) : r[i].id = m[i].id /\ (m[i].read => r[i].read)
  PROVE  Keeps(m, r)
BY DEF Keeps

LEMMA KeepsAppend ==
  ASSUME NEW m \in Seq(Message), NEW x \in Message, x.id \notin IdsOf(m)
  PROVE  Keeps(m, Append(m, x))
<1> DEFINE r == Append(m, x)
<1>1. /\ Len(m) \in Nat /\ Len(r) = Len(m) + 1 /\ r[Len(m) + 1] = x
      /\ \A i \in 1..Len(m) : r[i] = m[i]
  BY AppendProperties
<1> HIDE DEF r
<1>2. ASSUME NEW j \in 1..Len(r)
      PROVE  \/ r[j].id \notin IdsOf(m)
             \/ \E i \in 1..Len(m) : r[j].id = m[i].id /\ (m[i].read => r[j].read)
  <2>1. j = Len(m) + 1 \/ j \in 1..Len(m)
    BY <1>1
  <2> QED
    BY <1>1, <2>1
<1> QED
  BY <1>2 DEF Keeps, r

LEMMA KeepsCut ==
  ASSUME NEW m, NEW r \in Seq(Message), NEW k \in Nat \ {0}, Keeps(m, r)
  PROVE  Keeps(m, Kept(r, k))
<1> DEFINE q == Kept(r, k)
<1>1. /\ Len(q) \in Nat /\ Len(r) \in Nat /\ Len(q) <= Len(r)
      /\ \A j \in 1..Len(q) : q[j] = r[j + Len(r) - Len(q)]
  BY KeptFacts, SeqFacts
<1> HIDE DEF q
<1>2. ASSUME NEW j \in 1..Len(q)
      PROVE  \/ q[j].id \notin IdsOf(m)
             \/ \E i \in 1..Len(m) : q[j].id = m[i].id /\ (m[i].read => q[j].read)
  <2>1. j + Len(r) - Len(q) \in 1..Len(r)
    BY <1>1
  <2> QED
    BY <1>1, <2>1 DEF Keeps
<1> QED
  BY <1>2 DEF Keeps, q

LEMMA NewIsNotInBox ==
  ASSUME MailInv, NEW c \in Client, Sending(c)
  PROVE  op[c].id \notin IdsOf(box)
<1>1. IdsOf(box) \subseteq Delivered
  BY BoxFacts, PlacedFacts DEF Delivered
<1> QED
  BY <1>1, SendingFacts

LEMMA WriteBoxReads == ASSUME MailInv, NEW c \in Client, WriteBox(c) PROVE Keeps(box, box')
<1> DEFINE id == op[c].id
           x == [id |-> id, read |-> FALSE]
           k == HardLimit[c]
<1>1. pc[c] = "write" /\ (seen[c] = box \/ box = <<>>)
  BY DEF WriteBox, MailInv, Hands, Hand
<1>2. CASE box = <<>>
  <2>1. IdsOf(box) = {}
    BY <1>2 DEF IdsOf
  <2> QED
    BY <2>1 DEF Keeps
<1>3. CASE seen[c] = box /\ op[c].kind = "send" /\ box' = Kept(Append(seen[c], x), k)
  <2>1. Sending(c)
    BY <1>1, <1>3 DEF Sending
  <2>2. x \in Message /\ x.id \notin IdsOf(box)
    BY <2>1, SendingFacts, NewIsNotInBox
  <2>3. Keeps(box, Append(box, x)) /\ Append(box, x) \in Seq(Message)
    BY <2>2, BoxFacts, KeepsAppend, AppendFacts
  <2>4. k \in Nat \ {0}
    BY MailboxAssumption
  <2> HIDE DEF x, k
  <2> QED
    BY <1>3, <2>3, <2>4, KeepsCut
<1>4. CASE seen[c] = box /\ box' = Marked(seen[c], id)
  BY <1>4, BoxFacts, MarkedFacts, KeepsPointwise
<1> QED
  BY <1>1, <1>2, <1>3, <1>4 DEF WriteBox, Deliver

LEMMA AddedReads == ASSUME MailInv, NEW c \in Client, Added(c) PROVE Keeps(box, box')
<1> DEFINE x == [id |-> op[c].id, read |-> FALSE]
<1>1. Sending(c) /\ box' = Append(box, x)
  BY DEF Added, Begins, Deliver, Sending
<1>2. x \in Message /\ x.id \notin IdsOf(box)
  BY <1>1, SendingFacts, NewIsNotInBox
<1> HIDE DEF x
<1> QED
  BY <1>1, <1>2, BoxFacts, KeepsAppend

LEMMA NextReads == ASSUME MailInv, Next PROVE Keeps(box, box')
<1>1. Keeps(box, box)
  BY KeepsPointwise
<1>2. PICK c \in Client :
        \/ UNCHANGED box \/ WriteBox(c) \/ Added(c) \/ Cut(c) \/ LSet(c) \/ MarkRow(c) \/ Emptied
  BY DEF Next, Start, Die, Enter, ReadBox, PurgeLook, Unlink, Push, LTrim, LRange, Insert,
     DeleteOldest, Delete
<1>3. CASE Cut(c)
  <2>1. HardLimit[c] \in Nat \ {0} /\ box' = Kept(box, HardLimit[c])
    BY <1>3, MailboxAssumption DEF Cut
  <2> QED
    BY <1>1, <2>1, BoxFacts, KeepsCut
<1>4. CASE LSet(c)
  BY <1>4, LSetFacts, KeepsPointwise
<1>5. CASE MarkRow(c)
  <2>1. box' = Marked(box, op[c].id)
    BY <1>5 DEF MarkRow
  <2> QED
    BY <2>1, BoxFacts, MarkedFacts, KeepsPointwise
<1>6. CASE Emptied
  <2>1. box' = <<>>
    BY <1>6 DEF Emptied
  <2> QED
    BY <2>1 DEF Keeps
<1> QED
  BY <1>1, <1>2, <1>3, <1>4, <1>5, <1>6, WriteBoxReads, AddedReads

\* And a message that has been read is never unread again.
THEOREM ReadIsForGood == Spec /\ Alone => ReadStaysRead
<1>1. MailInv /\ MailInv' /\ [Next]_vars => [ReadStays]_vars
  <2> SUFFICES ASSUME MailInv, MailInv', Next PROVE ReadStays
    OBVIOUS
  <2>1. box' \in Seq(Message)
    BY DEF MailInv, MailboxTypeOK
  <2> QED
    BY <2>1, NextReads, KeepsIsEnough
<1>2. Spec /\ Alone => [][ReadStays]_vars
  BY <1>1, MailInvHolds, PTL DEF Spec
<1> QED
  BY <1>2 DEF ReadStaysRead, ReadStays
=============================================================================
