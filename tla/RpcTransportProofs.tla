------------------------- MODULE RpcTransportProofs -------------------------
(***************************************************************************)
(* What is proved of the connections of src/rpc.rs, for any number of      *)
(* them, any requests, batches and multicalls and any capacity of the      *)
(* channel: clients are answered in turn and by permission, before they    *)
(* hear of what their requests did, and miss only what was overwritten.    *)
(***************************************************************************)
EXTENDS RpcTransport, FiniteSetTheorems, SequenceTheorems, TLAPS

Labels == {"none", "select", "serve", "note", "done"}
Fields == DOMAIN Absent

Typed(x) ==
  /\ DOMAIN x = Fields /\ x.pc \in Labels
  /\ x.inbox \in Seq(Values) /\ x.taken \in Seq(Values)
  /\ IsList(x.sent) /\ IsList(x.reply)
  /\ x.item \in Nat \ {0} /\ x.call \in Nat /\ x.next \in Nat /\ x.hand \in Nat
  /\ x.kind = "socket" => x.next # 0
  /\ x.pc # "none" => x.kind # "none"

\* Call k of an item pauses the download.
PausesBy(r, k, basic) ==
  /\ r.object
  /\ IF k = 0 THEN r.method = "pause" /\ Permitted(r, basic)
     ELSE r.calls[k].method = "pause" /\ Permitted(r.calls[k], FALSE)

\* What is due to the frame in place f, as a reply and as its effects.
FrameDone(x, f, reply) ==
  /\ f \in DOMAIN x.taken /\ IsDue(reply, x.taken[f], x.basic)
  /\ \A i \in DOMAIN Items(x.taken[f]) : \A k \in 0 .. Len(x.taken[f].items[i].calls) :
       <<f, i, k>> \in x.changed <=> PausesBy(x.taken[f].items[i], k, x.basic)

FramesDone(x) == \A n \in DOMAIN x.sent :
  x.sent[n].answer => FrameDone(x, Answers(x, n), x.sent[n].reply)

\* The answer to an item of which the request and the entries up to k - 1 are processed.
Begun(r, basic, k) ==
  [id |-> r.id, ok |-> Permitted(r, basic),
   inner |-> [m \in 1 .. (k - 1) |->
                r.calls[m].method # "multicall" /\ Permitted(r.calls[m], FALSE)]]

\* A batch that is served as far as call k of item i.
Served(x, f, i, k) ==
  LET value == x.taken[f]
      items == value.items
  IN IF Whole(value)
     THEN /\ i \in 1 .. (Len(items) + 1)
          /\ k > 0 => i <= Len(items) /\ items[i].object /\ k <= Len(items[i].calls)
          /\ Len(x.reply) = Objects(value, i - 1) + (IF k > 0 THEN 1 ELSE 0)
          /\ \A j \in 1 .. (i - 1) : items[j].object =>
               x.reply[Objects(value, j)] = Due(items[j], x.basic)
          /\ k > 0 => x.reply[Len(x.reply)] = Begun(items[i], x.basic, k)
          /\ \A j \in DOMAIN items : \A m \in 0 .. Len(items[j].calls) :
               <<f, j, m>> \in x.changed <=>
                 (j < i \/ (j = i /\ m < k)) /\ PausesBy(items[j], m, x.basic)
     ELSE x.reply = <<Refused>> /\ i = 1

\* As many answers were sent as frames were taken, but for the one that is served.
InTurn(x) ==
  /\ x.pc \in {"select", "note"} => Answers(x, Len(x.sent)) = Len(x.taken)
  /\ x.pc = "serve" => /\ Len(x.taken) # 0
                       /\ Answers(x, Len(x.sent)) = Len(x.taken) - 1
                       /\ Served(x, Len(x.taken), x.item, x.call)
  /\ x.pc = "none" => x = Absent

\* Effects are those of calls that were taken.
Effects(x) == \A e \in x.changed :
  \E f \in DOMAIN x.taken : \E i \in DOMAIN Items(x.taken[f]) :
    \E k \in 0 .. Len(x.taken[f].items[i].calls) : e = <<f, i, k>>

\* What a client was told of its own request is behind the request's answer, and the
\* notification in hand is one of the channel.
Heard(x, c, notes) ==
  /\ \A n \in DOMAIN x.sent : ~x.sent[n].answer =>
       /\ x.sent[n].index \in DOMAIN notes
       /\ notes[x.sent[n].index].by = c => Answers(x, n) >= notes[x.sent[n].index].frame
  /\ x.pc = "note" => x.hand \in DOMAIN notes
  /\ x.pc \in {"none", "select", "serve"} => x.hand = 0
  /\ x.owed => x.pc = "serve"

ConnInv(c) == LET x == conn[c] IN
  Typed(x) /\ FramesDone(x) /\ InTurn(x) /\ Effects(x) /\ Heard(x, c, bus)
BusInv ==
  /\ IsList(bus)
  /\ \A b \in DOMAIN bus : bus[b].by \in Conns =>
       bus[b].frame \in Nat /\ bus[b].frame <= Len(conn[bus[b].by].taken)

Inv == DOMAIN conn = Conns /\ BusInv /\ \A c \in Conns : ConnInv(c)

-----------------------------------------------------------------------------
(* Lists and counts.                                                         *)

\* A list keeps its members when one is appended.
LEMMA Longer ==
  ASSUME NEW q, IsList(q), NEW e
  PROVE  /\ IsList(Append(q, e)) /\ Len(q) \in Nat /\ DOMAIN q = 1 .. Len(q)
         /\ Len(Append(q, e)) = Len(q) + 1 /\ DOMAIN Append(q, e) = 1 .. (Len(q) + 1)
         /\ \A n \in 1 .. Len(q) : Append(q, e)[n] = q[n]
         /\ Append(q, e)[Len(q) + 1] = e
<1> DEFINE S == Range(q) \cup {e}
           a == Append(q, e)
<1>1. q \in Seq(S)
  <2>1. q \in Seq(Range(q)) /\ Len(q) \in Nat /\ DOMAIN q = 1 .. Len(q)
    BY LenProperties DEF IsList
  <2>2. \A n \in 1 .. Len(q) : q[n] \in S
    BY <2>1 DEF Range
  <2> HIDE DEF S
  <2> QED BY <2>1, <2>2, SeqMonotonic
<1>2. Len(q) \in Nat /\ DOMAIN q = 1 .. Len(q) /\ e \in S
  BY <1>1, LenProperties
<1> HIDE DEF S
<1>3. /\ a \in Seq(S) /\ Len(a) = Len(q) + 1
      /\ \A n \in 1 .. Len(q) : a[n] = q[n]
      /\ a[Len(q) + 1] = e
  BY <1>1, <1>2
<1>4. DOMAIN a = 1 .. (Len(q) + 1)
  BY <1>3, LenProperties
<1>5. \A n \in 1 .. Len(a) : a[n] \in Range(a)
  BY <1>3, <1>4 DEF Range
<1>6. a \in Seq(Range(a))
  BY <1>3, <1>5, SeqMonotonic
<1> QED BY <1>2, <1>3, <1>4, <1>6 DEF IsList

LEMMA EmptyList == IsList(<<>>) /\ Len(<<>>) = 0 /\ DOMAIN <<>> = {}
BY DEF IsList

\* How many of the first numbers belong to a set.
Count(T, n) == Cardinality({m \in 1 .. n : m \in T})

LEMMA CountNone == ASSUME NEW T PROVE Cardinality({m \in 1 .. 0 : m \in T}) = 0
<1>1. {m \in 1 .. 0 : m \in T} = {}
  OBVIOUS
<1> QED BY <1>1, FS_EmptySet

LEMMA CountIsNat ==
  ASSUME NEW T, NEW n \in Nat
  PROVE  IsFiniteSet({m \in 1 .. n : m \in T}) /\ Cardinality({m \in 1 .. n : m \in T}) \in 0 .. n
<1>1. IsFiniteSet(1 .. n) /\ Cardinality(1 .. n) = n
  BY FS_Interval
<1>2. {m \in 1 .. n : m \in T} \subseteq 1 .. n
  OBVIOUS
<1>3. /\ IsFiniteSet({m \in 1 .. n : m \in T})
      /\ Cardinality({m \in 1 .. n : m \in T}) <= Cardinality(1 .. n)
  BY <1>1, <1>2, FS_Subset
<1> QED BY <1>1, <1>3, FS_CardinalityType

LEMMA CountNext ==
  ASSUME NEW T, NEW n \in Nat
  PROVE  Cardinality({m \in 1 .. (n + 1) : m \in T}) =
           Cardinality({m \in 1 .. n : m \in T}) + (IF n + 1 \in T THEN 1 ELSE 0)
<1> DEFINE A == {m \in 1 .. n : m \in T}
           B == {m \in 1 .. (n + 1) : m \in T}
<1>1. IsFiniteSet(A) /\ Cardinality(A) \in Nat
  BY CountIsNat
<1>2. CASE n + 1 \in T
  <2>1. B = A \cup {n + 1} /\ n + 1 \notin A
    BY <1>2
  <2> QED BY <1>1, <1>2, <2>1, FS_AddElement
<1>3. CASE n + 1 \notin T
  <2>1. B = A
    BY <1>3
  <2> QED BY <1>1, <1>3, <2>1
<1> QED BY <1>2, <1>3

LEMMA CountGrows ==
  ASSUME NEW T, NEW n \in Nat, NEW k \in Nat, k <= n
  PROVE  Cardinality({m \in 1 .. k : m \in T}) <= Cardinality({m \in 1 .. n : m \in T})
<1>1. IsFiniteSet({m \in 1 .. n : m \in T})
  BY CountIsNat
<1>2. {m \in 1 .. k : m \in T} \subseteq {m \in 1 .. n : m \in T}
  OBVIOUS
<1> QED BY <1>1, <1>2, FS_Subset

LEMMA Counting ==
  ASSUME NEW T, NEW n \in Nat
  PROVE  /\ Count(T, 0) = 0 /\ Count(T, n) \in 0 .. n
         /\ Count(T, n + 1) = Count(T, n) + (IF n + 1 \in T THEN 1 ELSE 0)
         /\ \A k \in 0 .. n : Count(T, k) <= Count(T, n)
<1>1. Count(T, 0) = 0
  BY CountNone DEF Count
<1>2. Count(T, n) \in 0 .. n
  BY CountIsNat DEF Count
<1>3. Count(T, n + 1) = Count(T, n) + (IF n + 1 \in T THEN 1 ELSE 0)
  BY CountNext DEF Count
<1>4. ASSUME NEW k \in 0 .. n PROVE Count(T, k) <= Count(T, n)
  BY CountGrows DEF Count
<1> QED BY <1>1, <1>2, <1>3, <1>4

LEMMA AnswersCount ==
  ASSUME NEW x, NEW n \in Nat
  PROVE  /\ Answers(x, n) \in 0 .. n /\ Answers(x, 0) = 0
         /\ Answers(x, n + 1) = Answers(x, n) + (IF x.sent[n + 1].answer THEN 1 ELSE 0)
         /\ \A k \in 0 .. n : Answers(x, k) <= Answers(x, n)
<1> DEFINE T == {m \in 1 .. (n + 1) : x.sent[m].answer}
<1>1. ASSUME NEW k \in 0 .. (n + 1)
      PROVE  {m \in 1 .. k : x.sent[m].answer} = {m \in 1 .. k : m \in T}
  OBVIOUS
<1>2. x.sent[n + 1].answer <=> n + 1 \in T
  OBVIOUS
<1> HIDE DEF T
<1>3. \A k \in 0 .. (n + 1) : Answers(x, k) = Count(T, k)
  BY <1>1 DEF Answers, Count
<1> QED BY <1>2, <1>3, Counting

LEMMA ObjectsCount ==
  ASSUME NEW v, NEW n \in Nat
  PROVE  /\ Objects(v, n) \in 0 .. n /\ Objects(v, 0) = 0
         /\ Objects(v, n + 1) = Objects(v, n) + (IF v.items[n + 1].object THEN 1 ELSE 0)
         /\ \A k \in 0 .. n : Objects(v, k) <= Objects(v, n)
<1> DEFINE T == {m \in 1 .. (n + 1) : v.items[m].object}
<1>1. ASSUME NEW k \in 0 .. (n + 1)
      PROVE  {m \in 1 .. k : v.items[m].object} = {m \in 1 .. k : m \in T}
  OBVIOUS
<1>2. v.items[n + 1].object <=> n + 1 \in T
  OBVIOUS
<1> HIDE DEF T
<1>3. \A k \in 0 .. (n + 1) : Objects(v, k) = Count(T, k)
  BY <1>1 DEF Objects, Count
<1> QED BY <1>2, <1>3, Counting

\* An item has its place among the answers.
LEMMA Place ==
  ASSUME NEW v, NEW n \in Nat, NEW i \in 1 .. n, v.items[i].object
  PROVE  Objects(v, i) \in 1 .. Objects(v, n) /\ Objects(v, i) = Objects(v, i - 1) + 1
<1>1. i - 1 \in Nat /\ (i - 1) + 1 = i /\ i \in 0 .. n
  OBVIOUS
<1>2. Objects(v, (i - 1) + 1) = Objects(v, i - 1) + 1
  BY <1>1, ObjectsCount
<1>3. Objects(v, i - 1) \in Nat /\ Objects(v, i) <= Objects(v, n) /\ Objects(v, n) \in Nat
  BY <1>1, ObjectsCount
<1> QED BY <1>1, <1>2, <1>3

LEMMA AnswersSame ==
  ASSUME NEW x, NEW y, NEW n, \A m \in 1 .. n : y.sent[m] = x.sent[m]
  PROVE  Answers(y, n) = Answers(x, n)
<1>1. {m \in 1 .. n : y.sent[m].answer} = {m \in 1 .. n : x.sent[m].answer}
  OBVIOUS
<1> QED BY <1>1 DEF Answers

\* Permission, said of a request and of a call to process.
LEMMA Permission ==
  ASSUME NEW r, NEW k, NEW basic
  PROVE  /\ Succeeds(Call(r, 0, basic)) <=> Permitted(r, basic)
         /\ k # 0 => (Succeeds(Call(r, k, basic)) <=>
                        r.calls[k].method # "multicall" /\ Permitted(r.calls[k], FALSE))
         /\ Changes(Call(r, 0, basic)) <=> r.method = "pause" /\ Permitted(r, basic)
         /\ k # 0 => (Changes(Call(r, k, basic)) <=>
                        r.calls[k].method = "pause" /\ Permitted(r.calls[k], FALSE))
BY DEF Succeeds, Changes, Call, Permitted, Allowed, Methods, Public

LEMMA PausesAsCalled ==
  ASSUME NEW r, NEW k, NEW basic, r.object
  PROVE  Changes(Call(r, k, basic)) <=> PausesBy(r, k, basic)
<1>1. CASE k = 0
  BY <1>1, Permission DEF PausesBy
<1>2. CASE k # 0
  BY <1>2, Permission DEF PausesBy
<1> QED BY <1>1, <1>2

LEMMA ConfigKept ==
  ASSUME config' = config
  PROVE  /\ \A r, basic : Permitted(r, basic)' <=> Permitted(r, basic)
         /\ \A r, basic : Due(r, basic)' = Due(r, basic)
         /\ \A r, basic, k : PausesBy(r, k, basic)' <=> PausesBy(r, k, basic)
         /\ \A r, basic, k : Begun(r, basic, k)' = Begun(r, basic, k)
         /\ \A reply, value, basic : IsDue(reply, value, basic)' <=> IsDue(reply, value, basic)
         /\ \A x, f, reply : FrameDone(x, f, reply)' <=> FrameDone(x, f, reply)
         /\ \A x, f, i, k : Served(x, f, i, k)' <=> Served(x, f, i, k)
         /\ \A x : FramesDone(x)' <=> FramesDone(x)
         /\ \A x : InTurn(x)' <=> InTurn(x)
<1>1. \A r, basic : Permitted(r, basic)' <=> Permitted(r, basic)
  BY DEF Permitted
<1>2. \A r, basic : Due(r, basic)' = Due(r, basic)
  BY <1>1 DEF Due
<1>3. \A r, basic, k : PausesBy(r, k, basic)' <=> PausesBy(r, k, basic)
  BY <1>1 DEF PausesBy
<1>4. \A r, basic, k : Begun(r, basic, k)' = Begun(r, basic, k)
  BY <1>1 DEF Begun
<1>5. \A reply, value, basic : IsDue(reply, value, basic)' <=> IsDue(reply, value, basic)
  BY <1>2 DEF IsDue
<1>6. \A x, f, reply : FrameDone(x, f, reply)' <=> FrameDone(x, f, reply)
  BY <1>3, <1>5 DEF FrameDone
<1>7. \A x, f, i, k : Served(x, f, i, k)' <=> Served(x, f, i, k)
  BY <1>2, <1>3, <1>4 DEF Served
<1>8. \A x : FramesDone(x)' <=> FramesDone(x)
  BY <1>6 DEF FramesDone
<1>9. \A x : InTurn(x)' <=> InTurn(x)
  BY <1>7 DEF InTurn
<1> QED BY <1>1, <1>2, <1>3, <1>4, <1>5, <1>6, <1>7, <1>8, <1>9

\* A connection that a step leaves alone is unharmed by what others send.
LEMMA OthersKept ==
  ASSUME Inv, config' = config, NEW c \in Conns, conn'[c] = conn[c],
         bus' = bus \/ \E b : bus' = Append(bus, b)
  PROVE  ConnInv(c)'
<1>1. /\ DOMAIN bus \subseteq DOMAIN bus'
      /\ \A n \in DOMAIN bus : bus'[n] = bus[n]
  BY Longer DEF Inv, BusInv
<1>2. FramesDone(conn[c])' /\ InTurn(conn[c])'
  BY ConfigKept DEF Inv, ConnInv
<1>3. Typed(conn[c])' /\ Effects(conn[c])'
  BY DEF Inv, ConnInv
<1>4. Heard(conn[c], c, bus)
  BY DEF Inv, ConnInv
<1>5. \A n : Answers(conn[c], n)' = Answers(conn[c], n)
  BY DEF Answers
<1>6. Heard(conn[c], c, bus)'
  <2>1. ASSUME NEW n \in DOMAIN conn[c].sent, ~conn[c].sent[n].answer
        PROVE  LET m == conn[c].sent[n].index
               IN m \in DOMAIN bus' /\ (bus'[m].by = c => Answers(conn[c], n) >= bus'[m].frame)
    BY <1>1, <1>4, <2>1 DEF Heard
  <2> QED BY <1>1, <1>4, <1>5, <2>1 DEF Heard
<1> QED BY <1>2, <1>3, <1>6 DEF ConnInv

-----------------------------------------------------------------------------
(* Steps of a connection.                                                    *)

LEMMA BusKept ==
  ASSUME Inv, DOMAIN conn' = Conns,
         bus' = bus \/ \E b : /\ bus' = Append(bus, b)
                              /\ b.by \in Conns => b.frame \in Nat /\ b.frame <= Len(conn'[b.by].taken),
         \A c \in Conns : Len(conn'[c].taken) \in Nat /\ Len(conn[c].taken) \in Nat
                          /\ Len(conn[c].taken) <= Len(conn'[c].taken)
  PROVE  BusInv'
<1>1. ASSUME NEW b \in DOMAIN bus, bus[b].by \in Conns
      PROVE  bus[b].frame \in Nat /\ bus[b].frame <= Len(conn'[bus[b].by].taken)
  BY <1>1 DEF Inv, BusInv
<1>2. CASE bus' = bus
  BY <1>1, <1>2 DEF Inv, BusInv
<1>3. ASSUME NEW b, bus' = Append(bus, b),
             b.by \in Conns => b.frame \in Nat /\ b.frame <= Len(conn'[b.by].taken)
      PROVE  BusInv'
  <2>1. /\ IsList(bus') /\ Len(bus) \in Nat /\ DOMAIN bus = 1 .. Len(bus)
        /\ DOMAIN bus' = 1 .. (Len(bus) + 1)
        /\ \A n \in 1 .. Len(bus) : bus'[n] = bus[n]
        /\ bus'[Len(bus) + 1] = b
    BY <1>3, Longer DEF Inv, BusInv
  <2>2. ASSUME NEW n \in DOMAIN bus', bus'[n].by \in Conns
        PROVE  bus'[n].frame \in Nat /\ bus'[n].frame <= Len(conn'[bus'[n].by].taken)
    <3>1. CASE n = Len(bus) + 1
      BY <1>3, <2>1, <2>2, <3>1
    <3>2. CASE n \in DOMAIN bus
      BY <1>1, <2>1, <2>2, <3>2
    <3> QED BY <2>1, <3>1, <3>2
  <2> QED BY <2>1, <2>2 DEF BusInv
<1> QED BY <1>2, <1>3

\* Only one connection changes in a step.
LEMMA StepOf ==
  ASSUME Inv, NEW c \in Conns, NEW y, conn' = [conn EXCEPT ![c] = y], config' = config,
         bus' = bus \/ \E b : /\ bus' = Append(bus, b)
                              /\ b.by = c /\ b.frame \in Nat /\ b.frame <= Len(y.taken),
         Len(conn[c].taken) <= Len(y.taken),
         Typed(y), FramesDone(y), InTurn(y), Effects(y), Heard(y, c, bus')
  PROVE  Inv'
<1>1. /\ DOMAIN conn' = Conns /\ conn'[c] = y
      /\ \A d \in Conns : d # c => conn'[d] = conn[d]
  BY DEF Inv
<1>2. ConnInv(c)'
  <2>1. FramesDone(y)' /\ InTurn(y)'
    BY ConfigKept
  <2> QED BY <1>1, <2>1 DEF ConnInv
<1>3. ASSUME NEW d \in Conns, d # c PROVE ConnInv(d)'
  BY <1>1, <1>3, OthersKept
<1>4. \A d \in Conns : Len(conn[d].taken) \in Nat
  BY LenProperties DEF Inv, ConnInv, Typed
<1>5. Len(y.taken) \in Nat
  BY LenProperties DEF Typed
<1>6. BusInv'
  BY <1>1, <1>4, <1>5, BusKept
<1> QED BY <1>1, <1>2, <1>3, <1>6 DEF Inv

\* What a client heard is not changed by what others are told.
LEMMA BusGrows ==
  ASSUME Inv, bus' = bus \/ \E b : bus' = Append(bus, b)
  PROVE  DOMAIN bus \subseteq DOMAIN bus' /\ \A n \in DOMAIN bus : bus'[n] = bus[n]
BY Longer DEF Inv, BusInv

\* A step that touches none of what the invariant is about.
LEMMA Untouched ==
  ASSUME Inv, NEW c \in Conns, NEW y, conn' = [conn EXCEPT ![c] = y], config' = config,
         bus' = bus \/ bus' = Append(bus, [by |-> c, frame |-> Len(conn[c].taken)]),
         conn[c].pc # "none",
         LET x == conn[c]
         IN /\ y.taken = x.taken /\ y.sent = x.sent /\ y.reply = x.reply /\ y.changed = x.changed
            /\ y.basic = x.basic /\ y.item = x.item /\ y.call = x.call
            /\ y.owed => x.owed
            /\ y.hand = x.hand
            /\ y.pc = x.pc \/ (y.pc = "done" /\ ~x.owed),
         Typed(y)
  PROVE  Inv'
<1> DEFINE x == conn[c]
<1>1. ConnInv(c)
  BY DEF Inv
<1>2. \A n : Answers(y, n) = Answers(x, n)
  BY DEF Answers
<1>3. \A f, reply : FrameDone(y, f, reply) <=> FrameDone(x, f, reply)
  BY DEF FrameDone
<1>4. \A f, i, k : Served(y, f, i, k) <=> Served(x, f, i, k)
  BY DEF Served
<1>5. FramesDone(y)
  BY <1>1, <1>2, <1>3 DEF ConnInv, FramesDone
<1>6. InTurn(y)
  BY <1>1, <1>2, <1>4 DEF ConnInv, InTurn
<1>7. Effects(y)
  BY <1>1 DEF ConnInv, Effects
<1>8. Heard(y, c, bus)
  BY <1>1, <1>2 DEF ConnInv, Heard
<1>9. Heard(y, c, bus')
  <2>1. DOMAIN bus \subseteq DOMAIN bus' /\ \A n \in DOMAIN bus : bus'[n] = bus[n]
    BY BusGrows
  <2>2. ASSUME NEW n \in DOMAIN y.sent, ~y.sent[n].answer
        PROVE  LET m == y.sent[n].index
               IN m \in DOMAIN bus' /\ (bus'[m].by = c => Answers(y, n) >= bus'[m].frame)
    BY <1>8, <2>1, <2>2 DEF Heard
  <2> QED BY <1>8, <2>1, <2>2 DEF Heard
<1>10. Len(x.taken) \in Nat /\ Len(x.taken) <= Len(y.taken)
  BY <1>1, LenProperties DEF ConnInv, Typed
<1>11. bus' = bus \/ \E b : /\ bus' = Append(bus, b)
                           /\ b.by = c /\ b.frame \in Nat /\ b.frame <= Len(y.taken)
  <2> DEFINE b == [by |-> c, frame |-> Len(x.taken)]
  <2>1. b.by = c /\ b.frame \in Nat /\ b.frame <= Len(y.taken)
    BY <1>10
  <2> HIDE DEF b
  <2>2. bus' = bus \/ bus' = Append(bus, b)
    BY DEF b
  <2> QED BY <2>1, <2>2
<1> QED BY <1>5, <1>6, <1>7, <1>9, <1>10, <1>11, StepOf

LEMMA ClientKeeps ==
  ASSUME Inv, NEW c \in Sockets, ClientSends(c) \/ ClientReads(c) \/ ClientLeaves(c)
  PROVE  Inv'
<1> DEFINE x == conn[c]
<1>1. c \in Conns /\ ConnInv(c) /\ UNCHANGED <<config, bus>>
  BY DEF Inv, Conns, ClientSends, ClientReads, ClientLeaves, Known
<1>2. CASE ClientSends(c)
  <2>1. PICK value \in Frames :
          conn' = [conn EXCEPT ![c] = [x EXCEPT !.inbox = Append(@, value), !.frames = @ + 1]]
    BY <1>2 DEF ClientSends, Inv
  <2> DEFINE y == [x EXCEPT !.inbox = Append(@, value), !.frames = @ + 1]
  <2>2. x.kind = "socket" /\ DOMAIN x = Fields /\ x.inbox \in Seq(Values) /\ value \in Values
    BY <1>1, <1>2 DEF ClientSends, ConnInv, Typed, Values
  <2>3. Append(x.inbox, value) \in Seq(Values)
    BY <2>2
  <2>4. Typed(y)
    BY <1>1, <2>2, <2>3 DEF ConnInv, Typed, Fields, Absent
  <2>5. x.pc # "none"
    BY <1>1, <2>2 DEF ConnInv, InTurn, Absent
  <2> QED BY <1>1, <2>1, <2>2, <2>4, <2>5, Untouched DEF Fields, Absent
<1>3. CASE ClientReads(c)
  <2> DEFINE y == [x EXCEPT !.read = @ + 1]
  <2>1. conn' = [conn EXCEPT ![c] = y] /\ DOMAIN x = Fields
    BY <1>1, <1>3 DEF ClientReads, Inv, ConnInv, Typed
  <2>2. Typed(y)
    BY <1>1, <2>1 DEF ConnInv, Typed, Fields, Absent
  <2>3. x.pc # "none"
    BY <1>1, <1>3 DEF ClientReads, ConnInv, InTurn, Absent
  <2> QED BY <1>1, <2>1, <2>2, <2>3, Untouched DEF Fields, Absent
<1>4. CASE ClientLeaves(c)
  <2> DEFINE y == [x EXCEPT !.left = TRUE]
  <2>1. conn' = [conn EXCEPT ![c] = y] /\ DOMAIN x = Fields /\ x.kind = "socket"
    BY <1>1, <1>4 DEF ClientLeaves, Inv, ConnInv, Typed
  <2>2. Typed(y)
    BY <1>1, <2>1 DEF ConnInv, Typed, Fields, Absent
  <2>3. x.pc # "none"
    BY <1>1, <2>1 DEF ConnInv, InTurn, Absent
  <2> QED BY <1>1, <2>1, <2>2, <2>3, Untouched DEF Fields, Absent
<1> QED BY <1>2, <1>3, <1>4

LEMMA ConnectKeeps ==
  ASSUME Inv, NEW c \in Conns, ConnectSocket(c) \/ ConnectRequest(c)
  PROVE  Inv'
<1>1. /\ ConnInv(c) /\ UNCHANGED <<config, bus>> /\ conn[c] = Absent
  BY DEF Inv, ConnInv, InTurn, ConnectSocket, ConnectRequest, Known
<1>2. Len(bus) \in Nat
  BY LenProperties DEF Inv, BusInv, IsList
<1>3. ASSUME NEW y, conn' = [conn EXCEPT ![c] = y], Typed(y),
             y.pc = "select", y.taken = <<>>, y.sent = <<>>, y.changed = {}, y.hand = 0, ~y.owed
      PROVE  Inv'
  <2>1. Answers(y, 0) = 0
    BY AnswersCount
  <2>2. FramesDone(y) /\ InTurn(y) /\ Effects(y) /\ Heard(y, c, bus')
    BY <1>3, <2>1, EmptyList DEF FramesDone, InTurn, Effects, Heard
  <2>3. Len(conn[c].taken) <= Len(y.taken)
    BY <1>1, <1>3, EmptyList DEF Absent
  <2> QED BY <1>1, <1>3, <2>2, <2>3, StepOf
<1>4. <<>> \in Seq(Values)
  BY EmptySeq
<1>5. CASE ConnectSocket(c)
  <2>1. PICK basic \in Headers :
          conn' = [conn EXCEPT ![c] = [Absent EXCEPT !.kind = "socket", !.basic = basic,
                                         !.pc = "select", !.next = Len(bus) + 1]]
    BY <1>5 DEF ConnectSocket
  <2> DEFINE y == [Absent EXCEPT !.kind = "socket", !.basic = basic, !.pc = "select",
                                 !.next = Len(bus) + 1]
  <2>2. Typed(y)
    BY <1>2, <1>4, EmptyList DEF Typed, Absent, Fields, Labels
  <2> QED BY <1>3, <2>1, <2>2 DEF Absent
<1>6. CASE ConnectRequest(c)
  <2>1. PICK basic \in Headers, value \in Values :
          conn' = [conn EXCEPT ![c] = [Absent EXCEPT !.kind = "request", !.basic = basic,
                                         !.pc = "select", !.inbox = <<value>>, !.frames = 1]]
    BY <1>6 DEF ConnectRequest, Values
  <2> DEFINE y == [Absent EXCEPT !.kind = "request", !.basic = basic, !.pc = "select",
                                 !.inbox = <<value>>, !.frames = 1]
  <2>2. <<value>> \in Seq(Values)
    OBVIOUS
  <2>3. Typed(y)
    BY <1>4, <2>2, EmptyList DEF Typed, Absent, Fields, Labels
  <2> QED BY <1>3, <2>1, <2>3 DEF Absent
<1> QED BY <1>5, <1>6

LEMMA TakeKeeps ==
  ASSUME Inv, NEW c \in Conns, TakeFrame(c)
  PROVE  Inv'
<1> DEFINE x == conn[c]
           value == Head(x.inbox)
           reply == IF Whole(value) THEN <<>> ELSE <<Refused>>
           y == [x EXCEPT !.inbox = Tail(@), !.taken = Append(@, value), !.pc = "serve",
                          !.item = 1, !.call = 0, !.reply = reply]
           F == Len(x.taken) + 1
<1>1. /\ ConnInv(c) /\ UNCHANGED <<config, bus>> /\ x.pc = "select" /\ x.inbox # <<>>
      /\ x.inbox \in Seq(Values) /\ x.taken \in Seq(Values) /\ DOMAIN x = Fields
  BY DEF TakeFrame, Inv, ConnInv, Typed, Known
<1>2. conn' = [conn EXCEPT ![c] = y]
  BY <1>1 DEF TakeFrame, Inv, Fields, Absent
<1>3. value \in Values /\ Tail(x.inbox) \in Seq(Values)
  BY <1>1, HeadTailProperties
<1> HIDE DEF value
<1>4. /\ y.taken = Append(x.taken, value) /\ y.pc = "serve" /\ y.item = 1 /\ y.call = 0
      /\ y.reply = reply /\ y.sent = x.sent /\ y.changed = x.changed /\ y.basic = x.basic
      /\ y.hand = x.hand /\ y.owed = x.owed
  BY <1>1 DEF Fields, Absent
<1>5. /\ y.taken \in Seq(Values) /\ Len(x.taken) \in Nat /\ Len(y.taken) = F
      /\ DOMAIN x.taken = 1 .. Len(x.taken) /\ DOMAIN y.taken = 1 .. F
      /\ \A f \in 1 .. Len(x.taken) : y.taken[f] = x.taken[f]
      /\ y.taken[F] = value
  <2>1. Append(x.taken, value) \in Seq(Values) /\ Len(x.taken) \in Nat
    BY <1>1, <1>3, LenProperties
  <2>2. /\ Len(Append(x.taken, value)) = F
        /\ \A f \in 1 .. Len(x.taken) : Append(x.taken, value)[f] = x.taken[f]
        /\ Append(x.taken, value)[F] = value
    BY <1>1, <1>3
  <2>3. DOMAIN x.taken = 1 .. Len(x.taken) /\ DOMAIN Append(x.taken, value) = 1 .. F
    BY <1>1, <2>1, <2>2, LenProperties
  <2> QED BY <1>4, <2>1, <2>2, <2>3
<1>6. IsList(reply) /\ (Whole(value) => Len(reply) = 0)
  <2>1. IsList(<<Refused>>)
    BY DEF IsList, Range
  <2> QED BY <2>1, EmptyList
<1>7. Typed(y)
  BY <1>1, <1>3, <1>5, <1>6 DEF ConnInv, Typed, Fields, Absent, Labels
<1> HIDE DEF y, reply
<1>8. \A n : Answers(y, n) = Answers(x, n)
  BY <1>4 DEF Answers
<1>9. FramesDone(y)
  <2>1. ASSUME NEW f, NEW r, FrameDone(x, f, r) PROVE FrameDone(y, f, r)
    <3>1. f \in 1 .. Len(x.taken) /\ f \in 1 .. F
      BY <1>5, <2>1 DEF FrameDone
    <3> QED BY <1>4, <1>5, <2>1, <3>1 DEF FrameDone
  <2> QED BY <1>1, <1>4, <1>8, <2>1 DEF ConnInv, FramesDone
<1>10. ASSUME NEW i, NEW k PROVE <<F, i, k>> \notin y.changed
  BY <1>1, <1>4, <1>5 DEF ConnInv, Effects
<1>11. Served(y, F, 1, 0)
  <2>1. CASE Whole(value)
    <3>1. IsList(value.items)
      BY <1>3, <2>1, ValuesAssumption
    <3>2. Len(value.items) \in Nat /\ DOMAIN value.items = 1 .. Len(value.items)
      BY <3>1, LenProperties DEF IsList
    <3>3. Objects(value, 0) = 0 /\ 1 - 1 = 0
      BY ObjectsCount
    <3>4. \A j \in DOMAIN value.items : \A m \in 0 .. Len(value.items[j].calls) :
            ~(j < 1 \/ (j = 1 /\ m < 0))
      BY <3>2
    <3> QED BY <1>4, <1>5, <1>6, <1>10, <2>1, <3>2, <3>3, <3>4 DEF Served
  <2>2. CASE ~Whole(value)
    BY <1>4, <1>5, <2>2 DEF Served, reply
  <2> QED BY <2>1, <2>2
<1>12. InTurn(y)
  BY <1>1, <1>4, <1>5, <1>8, <1>11 DEF ConnInv, InTurn
<1>13. Effects(y)
  <2>1. ASSUME NEW e \in y.changed
        PROVE  \E f \in DOMAIN y.taken : \E i \in DOMAIN Items(y.taken[f]) :
                 \E k \in 0 .. Len(y.taken[f].items[i].calls) : e = <<f, i, k>>
    <3>1. PICK f \in DOMAIN x.taken : \E i \in DOMAIN Items(x.taken[f]) :
            \E k \in 0 .. Len(x.taken[f].items[i].calls) : e = <<f, i, k>>
      BY <1>1, <1>4 DEF ConnInv, Effects
    <3>2. f \in DOMAIN y.taken /\ y.taken[f] = x.taken[f]
      BY <1>5
    <3> QED BY <3>1, <3>2
  <2> QED BY <2>1 DEF Effects
<1>14. Heard(y, c, bus')
  <2>1. Heard(x, c, bus) /\ bus' = bus
    BY <1>1 DEF ConnInv
  <2>2. x.hand = 0 /\ ~x.owed
    BY <1>1, <2>1 DEF Heard
  <2>3. ASSUME NEW n \in DOMAIN y.sent, ~y.sent[n].answer
        PROVE  /\ y.sent[n].index \in DOMAIN bus
               /\ bus[y.sent[n].index].by = c => Answers(y, n) >= bus[y.sent[n].index].frame
    BY <1>4, <1>8, <2>1, <2>3 DEF Heard
  <2> QED BY <1>4, <2>1, <2>2, <2>3 DEF Heard
<1>15. Len(x.taken) <= Len(y.taken) /\ config' = config /\ bus' = bus
  BY <1>1, <1>5
<1> HIDE DEF F, x
<1>16. conn' = [conn EXCEPT ![c] = y] /\ Len(conn[c].taken) <= Len(y.taken)
  BY <1>2, <1>15 DEF x
<1> QED BY <1>7, <1>9, <1>12, <1>13, <1>14, <1>15, <1>16, StepOf

-----------------------------------------------------------------------------
(* Serving a frame.                                                          *)

\* A step within a frame leaves the frames before it as they were answered.
LEMMA Serving ==
  ASSUME Inv, NEW c \in Conns, NEW y, conn' = [conn EXCEPT ![c] = y], config' = config,
         bus' = bus, conn[c].pc = "serve", Typed(y), Effects(y),
         LET x == conn[c]
         IN /\ y.taken = x.taken /\ y.sent = x.sent /\ y.basic = x.basic
            /\ y.hand = x.hand /\ y.pc = "serve"
            /\ \A f, i, k : f # Len(x.taken) =>
                 (<<f, i, k>> \in y.changed <=> <<f, i, k>> \in x.changed)
            /\ Served(y, Len(x.taken), y.item, y.call)
  PROVE  Inv'
<1> DEFINE x == conn[c]
           F == Len(x.taken)
<1>1. /\ Typed(x) /\ FramesDone(x) /\ InTurn(x) /\ Heard(x, c, bus)
      /\ F \in Nat /\ F # 0 /\ Answers(x, Len(x.sent)) = F - 1
      /\ Len(x.sent) \in Nat /\ DOMAIN x.sent = 1 .. Len(x.sent)
  <2>1. Typed(x) /\ FramesDone(x) /\ InTurn(x) /\ Heard(x, c, bus)
    BY DEF Inv, ConnInv
  <2> QED BY <2>1, LenProperties DEF InTurn, Typed, IsList
<1>2. \A n : Answers(y, n) = Answers(x, n)
  BY DEF Answers
<1>3. FramesDone(y)
  <2>1. ASSUME NEW n \in DOMAIN y.sent, y.sent[n].answer
        PROVE  FrameDone(y, Answers(y, n), y.sent[n].reply)
    <3>1. n \in 0 .. Len(x.sent)
      BY <1>1
    <3>2. Answers(x, n) <= F - 1 /\ Answers(x, n) \in Nat
      <4>1. n \in Nat /\ n \in 0 .. Len(x.sent) /\ Len(x.sent) \in Nat
        BY <1>1, <3>1
      <4> HIDE DEF x
      <4>2. Answers(x, n) \in 0 .. n
        BY <4>1, AnswersCount
      <4>3. \A k \in 0 .. Len(x.sent) : Answers(x, k) <= Answers(x, Len(x.sent))
        BY <4>1, AnswersCount
      <4> QED BY <1>1, <4>1, <4>2, <4>3
    <3>3. Answers(x, n) # F
      BY <1>1, <3>2
    <3>4. FrameDone(x, Answers(x, n), y.sent[n].reply)
      BY <1>1, <2>1 DEF FramesDone
    <3> HIDE DEF x
    <3> QED BY <1>2, <3>3, <3>4 DEF FrameDone, x
  <2> QED BY <2>1 DEF FramesDone
<1>4. InTurn(y)
  BY <1>1, <1>2 DEF InTurn
<1>5. Heard(y, c, bus')
  <2>1. y.hand = 0
    BY <1>1 DEF Heard
  <2>2. ASSUME NEW n \in DOMAIN y.sent, ~y.sent[n].answer
        PROVE  /\ y.sent[n].index \in DOMAIN bus
               /\ bus[y.sent[n].index].by = c => Answers(y, n) >= bus[y.sent[n].index].frame
    BY <1>1, <1>2, <2>2 DEF Heard
  <2> QED BY <2>1, <2>2 DEF Heard
<1>6. Len(conn[c].taken) <= Len(y.taken)
  BY <1>1
<1> QED BY <1>3, <1>4, <1>5, <1>6, StepOf

LEMMA PassOverKeeps ==
  ASSUME Inv, NEW c \in Conns, PassOver(c)
  PROVE  Inv'
<1> DEFINE x == conn[c]
           F == Len(x.taken)
           value == Value(c)
           y == [x EXCEPT !.item = @ + 1]
<1>1. /\ Typed(x) /\ Effects(x) /\ InTurn(x) /\ UNCHANGED <<config, bus>> /\ x.pc = "serve"
      /\ conn' = [conn EXCEPT ![c] = y]
      /\ InWork(c) /\ ~value.items[x.item].object
  <2>1. conn' = [conn EXCEPT ![c] = y] /\ InWork(c)
    BY DEF PassOver, Inv
  <2>2. Items(value) = value.items
    BY <2>1 DEF InWork, Items, ConnInv, Inv, Typed
  <2> QED BY <2>1, <2>2 DEF PassOver, Inv, ConnInv, Current, Known
<1>2. /\ F \in Nat \ {0} /\ Served(x, F, x.item, x.call) /\ value = x.taken[F]
      /\ value \in Values /\ x.item \in Nat \ {0} /\ x.call \in Nat
  <2>1. F \in Nat \ {0} /\ x.taken \in Seq(Values) /\ Served(x, F, x.item, x.call)
    BY <1>1, LenProperties DEF InTurn, Typed
  <2> QED BY <1>1, <2>1, ElementOfSeq DEF Value, Last, Typed
<1>3. Whole(value) /\ x.item <= Len(value.items)
  BY <1>1, <1>2, EmptyList DEF InWork, Items
<1>4. Len(value.items) \in Nat /\ DOMAIN value.items = 1 .. Len(value.items)
  BY <1>2, <1>3, ValuesAssumption, LenProperties DEF IsList
<1>5. /\ y.taken = x.taken /\ y.sent = x.sent /\ y.basic = x.basic /\ y.changed = x.changed
      /\ y.hand = x.hand /\ y.pc = x.pc /\ y.reply = x.reply
      /\ y.item = x.item + 1 /\ y.call = x.call
  BY <1>1 DEF Typed, Fields, Absent
<1>6. Typed(y) /\ Effects(y)
  <2>1. Typed(y)
    BY <1>1, <1>2 DEF Typed, Fields, Absent
  <2> HIDE DEF y
  <2>2. Effects(y)
    BY <1>1, <1>5 DEF Effects
  <2> QED BY <2>1, <2>2
<1> HIDE DEF y, value, x, F
<1>7. Served(y, F, x.item + 1, x.call)
  <2> DEFINE i == x.item
  <2>1. /\ i \in 1 .. (Len(value.items) + 1)
        /\ x.call > 0 => value.items[i].object
        /\ Len(x.reply) = Objects(value, i - 1) + (IF x.call > 0 THEN 1 ELSE 0)
        /\ \A j \in 1 .. (i - 1) : value.items[j].object =>
             x.reply[Objects(value, j)] = Due(value.items[j], x.basic)
        /\ \A j \in DOMAIN value.items : \A m \in 0 .. Len(value.items[j].calls) :
             <<F, j, m>> \in x.changed <=>
               (j < i \/ (j = i /\ m < x.call)) /\ PausesBy(value.items[j], m, x.basic)
    BY <1>2, <1>3 DEF Served
  <2>2. x.call = 0
    BY <1>1, <1>2, <2>1
  <2>3. Objects(value, (i - 1) + 1) = Objects(value, i - 1) /\ (i - 1) + 1 = i /\ i - 1 \in Nat
    BY <1>1, <1>2, ObjectsCount
  <2>4. \A j \in 1 .. i : value.items[j].object =>
          x.reply[Objects(value, j)] = Due(value.items[j], x.basic)
    <3>1. ASSUME NEW j \in 1 .. i, value.items[j].object PROVE j \in 1 .. (i - 1)
      BY <1>1, <1>2, <3>1
    <3> QED BY <2>1, <3>1
  <2>5. ASSUME NEW j \in DOMAIN value.items, NEW m \in 0 .. Len(value.items[j].calls)
        PROVE  <<F, j, m>> \in x.changed <=>
                 (j < i + 1 \/ (j = i + 1 /\ m < 0)) /\ PausesBy(value.items[j], m, x.basic)
    <3>1. ~PausesBy(value.items[i], m, x.basic)
      BY <1>1 DEF PausesBy
    <3>2. m \in Int /\ ~(m < 0) /\ j \in Nat /\ i \in Nat
      BY <1>2, <1>4
    <3>3. j < i + 1 <=> j < i \/ j = i
      BY <3>2
    <3>4. <<F, j, m>> \in x.changed <=>
               (j < i \/ (j = i /\ m < x.call)) /\ PausesBy(value.items[j], m, x.basic)
      BY <2>1
    <3> QED BY <2>2, <3>1, <3>2, <3>3, <3>4
  <2>6. (i + 1) - 1 = i /\ i + 1 \in 1 .. (Len(value.items) + 1)
    BY <1>2, <1>3, <1>4
  <2>7. Len(y.reply) = Objects(value, (i + 1) - 1)
    BY <1>5, <2>1, <2>2, <2>3, <2>6, ObjectsCount
  <2> HIDE DEF i
  <2> QED BY <1>2, <1>3, <1>5, <2>2, <2>4, <2>5, <2>6, <2>7 DEF Served, i
<1>8. conn[c].pc = "serve" /\ bus' = bus /\ config' = config
  BY <1>1 DEF x
<1>9. LET z == conn[c]
      IN /\ y.taken = z.taken /\ y.sent = z.sent /\ y.basic = z.basic
         /\ y.hand = z.hand /\ y.pc = "serve"
         /\ \A f, i, k : f # Len(z.taken) =>
              (<<f, i, k>> \in y.changed <=> <<f, i, k>> \in z.changed)
         /\ Served(y, Len(z.taken), y.item, y.call)
  BY <1>1, <1>5, <1>7 DEF x, F
<1> QED BY <1>1, <1>6, <1>8, <1>9, Serving

\* The answer to an item grows with every call of it, and is complete with the last one.
Extended(answer, ok) == [answer EXCEPT !.inner = Append(@, ok)]

LEMMA BegunGrows ==
  ASSUME NEW r, NEW basic, NEW k \in Nat \ {0}, NEW answer, answer = Begun(r, basic, k)
  PROVE  Extended(answer, Succeeds(Call(r, k, basic))) = Begun(r, basic, k + 1)
<1> DEFINE P(m) == r.calls[m].method # "multicall" /\ Permitted(r.calls[m], FALSE)
           f == [m \in 1 .. (k - 1) |-> P(m)]
           g == [m \in 1 .. k |-> P(m)]
<1>1. Succeeds(Call(r, k, basic)) = P(k)
  <2>1. Succeeds(Call(r, k, basic)) <=> P(k)
    BY Permission
  <2>2. Succeeds(Call(r, k, basic)) \in BOOLEAN /\ P(k) \in BOOLEAN
    BY DEF Succeeds
  <2> HIDE DEF P
  <2> QED BY <2>1, <2>2
<1>2. \A m : P(m) \in BOOLEAN
  OBVIOUS
<1>3. answer = [id |-> r.id, ok |-> Permitted(r, basic), inner |-> f]
  BY DEF Begun
<1>4. Begun(r, basic, k + 1) = [id |-> r.id, ok |-> Permitted(r, basic), inner |-> g]
  <2>1. (k + 1) - 1 = k
    OBVIOUS
  <2> QED BY <2>1 DEF Begun
<1> HIDE DEF P
<1>5. Append(f, P(k)) = g
  <2>1. f \in Seq(BOOLEAN) /\ Len(f) = k - 1
    BY <1>2
  <2>2. /\ Append(f, P(k)) \in Seq(BOOLEAN) /\ Len(Append(f, P(k))) = k
        /\ \A m \in 1 .. (k - 1) : Append(f, P(k))[m] = P(m)
        /\ Append(f, P(k))[k] = P(k)
    BY <1>2, <2>1
  <2>3. \A m \in 1 .. k : Append(f, P(k))[m] = P(m)
    <3>1. \A m \in 1 .. k : m = k \/ m \in 1 .. (k - 1)
      OBVIOUS
    <3> QED BY <2>2, <3>1
  <2>4. g \in Seq(BOOLEAN) /\ Len(g) = k /\ \A m \in 1 .. k : g[m] = P(m)
    BY <1>2
  <2> HIDE DEF f, g
  <2>5. \A m \in 1 .. Len(g) : Append(f, P(k))[m] = g[m]
    BY <2>3, <2>4
  <2> QED BY <2>2, <2>4, <2>5, SeqEqual
<1> HIDE DEF f, g
<1> DEFINE s == Succeeds(Call(r, k, basic))
<1>6. Append(f, s) = g
  BY <1>1, <1>5
<1> HIDE DEF s
<1>7. Extended(answer, s) = [id |-> r.id, ok |-> Permitted(r, basic), inner |-> Append(f, s)]
  BY <1>3 DEF Extended
<1>8. Extended(answer, s) = Begun(r, basic, k + 1)
  BY <1>4, <1>6, <1>7
<1> QED BY <1>8 DEF s

LEMMA BegunFirst ==
  ASSUME NEW r, NEW basic
  PROVE  [id |-> r.id, ok |-> Succeeds(Call(r, 0, basic)), inner |-> <<>>] = Begun(r, basic, 1)
<1> DEFINE P(m) == r.calls[m].method # "multicall" /\ Permitted(r.calls[m], FALSE)
<1>1. Succeeds(Call(r, 0, basic)) = Permitted(r, basic)
  <2>1. Succeeds(Call(r, 0, basic)) <=> Permitted(r, basic)
    BY Permission
  <2>2. Succeeds(Call(r, 0, basic)) \in BOOLEAN /\ Permitted(r, basic) \in BOOLEAN
    BY DEF Succeeds, Permitted
  <2> QED BY <2>1, <2>2
<1>2. Begun(r, basic, 1) = [id |-> r.id, ok |-> Permitted(r, basic), inner |-> [m \in 1 .. 0 |-> P(m)]]
  BY DEF Begun
<1> HIDE DEF P
<1>3. [m \in 1 .. 0 |-> P(m)] = <<>>
  OBVIOUS
<1> QED BY <1>1, <1>2, <1>3

LEMMA BegunIsDue ==
  ASSUME NEW r, NEW basic, IsList(r.calls)
  PROVE  Begun(r, basic, Len(r.calls) + 1) = Due(r, basic)
<1>1. Len(r.calls) \in Nat /\ DOMAIN r.calls = 1 .. Len(r.calls)
  BY LenProperties DEF IsList
<1>2. (Len(r.calls) + 1) - 1 = Len(r.calls)
  BY <1>1
<1> QED BY <1>1, <1>2 DEF Begun, Due

\* What processing a call does to the reply.
Grown(reply, z, r, basic, k) ==
  LET n == IF k > 0 THEN Len(reply) ELSE Len(reply) + 1
  IN /\ IsList(z) /\ n \in Nat \ {0} /\ Len(z) = n /\ z[n] = Begun(r, basic, k + 1)
     /\ \A m \in 1 .. (n - 1) : z[m] = reply[m]

LEMMA AnsweredReply ==
  ASSUME NEW reply, IsList(reply), NEW r, NEW basic, NEW k \in Nat,
         k > 0 => Len(reply) # 0 /\ reply[Len(reply)] = Begun(r, basic, k)
  PROVE  Grown(reply, Answered(reply, Call(r, k, basic)), r, basic, k)
<1>1. Len(reply) \in Nat /\ DOMAIN reply = 1 .. Len(reply)
  BY Longer
<1>2. CASE k = 0
  <2> DEFINE e == [id |-> r.id, ok |-> Succeeds(Call(r, 0, basic)), inner |-> <<>>]
  <2>1. Answered(reply, Call(r, k, basic)) = Append(reply, e)
    BY <1>2 DEF Answered, Call
  <2>2. e = Begun(r, basic, 1)
    BY BegunFirst
  <2> HIDE DEF e
  <2> DEFINE z == Append(reply, e)
  <2>3. /\ IsList(z) /\ Len(z) = Len(reply) + 1 /\ z[Len(reply) + 1] = e
        /\ \A m \in 1 .. Len(reply) : z[m] = reply[m]
    BY Longer
  <2>4. Answered(reply, Call(r, k, basic)) = z /\ e = Begun(r, basic, k + 1)
    BY <1>2, <2>1, <2>2
  <2> HIDE DEF z
  <2>5. ~(k > 0) /\ (Len(reply) + 1) - 1 = Len(reply) /\ Len(reply) + 1 \in Nat \ {0}
    BY <1>1, <1>2
  <2>6. Grown(reply, z, r, basic, k)
    BY <1>2, <2>3, <2>4, <2>5 DEF Grown
  <2> QED BY <2>4, <2>6
<1>3. CASE k > 0
  <2> DEFINE n == Len(reply)
             e == Extended(reply[n], Succeeds(Call(r, k, basic)))
             z == [reply EXCEPT ![n] = e]
  <2>1. Answered(reply, Call(r, k, basic)) = z
    BY <1>3 DEF Answered, Call, Extended
  <2>2. e = Begun(r, basic, k + 1)
    <3>1. k \in Nat \ {0} /\ reply[n] = Begun(r, basic, k)
      BY <1>3
    <3> HIDE DEF n
    <3> QED BY <3>1, BegunGrows
  <2> HIDE DEF e
  <2>3. DOMAIN z = 1 .. n /\ z[n] = e /\ \A m \in 1 .. (n - 1) : z[m] = reply[m]
    BY <1>1, <1>3
  <2>4. IsList(z) /\ Len(z) = n
    <3>1. \A m \in 1 .. n : z[m] \in Range(z)
      BY <2>3 DEF Range
    <3>2. z = [m \in 1 .. n |-> z[m]]
      BY <1>1
    <3> HIDE DEF z
    <3>3. z \in Seq(Range(z)) /\ Len(z) = n
      BY <1>1, <3>1, <3>2
    <3> QED BY <3>3 DEF IsList
  <2> HIDE DEF z
  <2>5. Grown(reply, z, r, basic, k)
    BY <1>1, <1>3, <2>2, <2>3, <2>4 DEF Grown
  <2> QED BY <2>1, <2>5
<1> QED BY <1>2, <1>3

\* Call k of item i, of the value that is served, is processed.
Processed(x, y, F, i, k, value, r) ==
  /\ value = x.taken[F] /\ r = value.items[i] /\ Served(x, F, i, k)
  /\ Whole(value) /\ IsList(value.items) /\ i <= Len(value.items)
  /\ r.object /\ IsList(r.calls)
  /\ IsList(x.reply) /\ y.taken = x.taken /\ y.basic = x.basic
  /\ y.reply = Answered(x.reply, Call(r, k, x.basic))
  /\ \A j, m : <<F, j, m>> \in y.changed <=>
       <<F, j, m>> \in x.changed \/ (j = i /\ m = k /\ Changes(Call(r, k, x.basic)))

\* A batch served as far as one call is served as far as the next when it is processed.
LEMMA ServedNext ==
  ASSUME NEW x, NEW y, NEW F, NEW i \in Nat \ {0}, NEW k \in Nat, NEW value, NEW r,
         Processed(x, y, F, i, k, value, r)
  PROVE  /\ IsList(y.reply)
         /\ k < Len(r.calls) => Served(y, F, i, k + 1)
         /\ k >= Len(r.calls) => Served(y, F, i + 1, 0)
<1> DEFINE items == value.items
           L == Len(items)
           o == Objects(value, i - 1)
           n == o + 1
<1>0. /\ y.taken = x.taken /\ y.basic = x.basic /\ value = x.taken[F] /\ r = items[i]
      /\ IsList(r.calls) /\ r.object /\ Whole(value)
  BY DEF Processed
<1>1. /\ L \in Nat /\ DOMAIN items = 1 .. L /\ Len(r.calls) \in Nat
      /\ i - 1 \in Nat /\ (i - 1) + 1 = i /\ i <= L
  BY LenProperties DEF IsList, Processed
<1>2. /\ k > 0 => k <= Len(r.calls)
      /\ Len(x.reply) = o + (IF k > 0 THEN 1 ELSE 0)
      /\ \A j \in 1 .. (i - 1) : items[j].object =>
           x.reply[Objects(value, j)] = Due(items[j], x.basic)
      /\ k > 0 => x.reply[Len(x.reply)] = Begun(r, x.basic, k)
      /\ \A j \in DOMAIN items : \A m \in 0 .. Len(items[j].calls) :
           <<F, j, m>> \in x.changed <=>
             (j < i \/ (j = i /\ m < k)) /\ PausesBy(items[j], m, x.basic)
  BY DEF Served, Processed
<1>3. o \in Nat /\ Objects(value, i) = n /\ n \in Nat \ {0}
  <2> DEFINE h == i - 1
  <2>1. h \in Nat /\ i \in 1 .. i /\ i \in Nat /\ value.items[i].object
    BY <1>0, <1>1
  <2> HIDE DEF h
  <2>2. Objects(value, h) \in 0 .. h
    BY <2>1, ObjectsCount
  <2>3. Objects(value, i) = Objects(value, i - 1) + 1
    BY <2>1, Place
  <2> QED BY <2>1, <2>2, <2>3 DEF h
<1>4. n = IF k > 0 THEN Len(x.reply) ELSE Len(x.reply) + 1
  BY <1>2, <1>3
<1>5. /\ k > 0 => Len(x.reply) # 0 /\ x.reply[Len(x.reply)] = Begun(r, x.basic, k)
      /\ IsList(x.reply)
  BY <1>2, <1>3 DEF Processed
<1>6. /\ IsList(y.reply) /\ Len(y.reply) = n /\ y.reply[n] = Begun(r, x.basic, k + 1)
      /\ \A m \in 1 .. o : y.reply[m] = x.reply[m]
  <2> DEFINE z == Answered(x.reply, Call(r, k, x.basic))
             w == IF k > 0 THEN Len(x.reply) ELSE Len(x.reply) + 1
  <2>1. n - 1 = o /\ w = n /\ y.reply = z
    BY <1>3, <1>4 DEF Processed
  <2>2. Grown(x.reply, z, r, x.basic, k)
    BY <1>5, AnsweredReply
  <2> HIDE DEF z
  <2>3. /\ IsList(z) /\ w \in Nat \ {0} /\ Len(z) = w /\ z[w] = Begun(r, x.basic, k + 1)
        /\ \A m \in 1 .. (w - 1) : z[m] = x.reply[m]
    BY <2>2 DEF Grown
  <2> HIDE DEF n, w, o
  <2> QED BY <2>1, <2>3
<1>7. ASSUME NEW j \in 1 .. (i - 1), items[j].object
      PROVE  y.reply[Objects(value, j)] = Due(items[j], y.basic)
  <2>1. j \in 1 .. (i - 1) /\ i - 1 \in Nat
    BY <1>1
  <2>2. Objects(value, j) \in 1 .. o
    BY <1>7, <2>1, Place
  <2> QED BY <1>0, <1>2, <1>6, <1>7, <2>2
<1>8. Changes(Call(r, k, x.basic)) <=> PausesBy(r, k, x.basic)
  BY <1>0, PausesAsCalled
<1>9. ASSUME NEW j \in DOMAIN items, NEW m \in 0 .. Len(items[j].calls)
      PROVE  <<F, j, m>> \in y.changed <=>
               (j < i \/ (j = i /\ m < k + 1)) /\ PausesBy(items[j], m, y.basic)
  <2>1. <<F, j, m>> \in y.changed <=>
          \/ (j < i \/ (j = i /\ m < k)) /\ PausesBy(items[j], m, x.basic)
          \/ j = i /\ m = k /\ PausesBy(r, k, x.basic)
    BY <1>2, <1>8 DEF Processed
  <2>2. m < k + 1 <=> m < k \/ m = k
    OBVIOUS
  <2> QED BY <1>0, <2>1, <2>2
<1>10. ASSUME k < Len(r.calls) PROVE Served(y, F, i, k + 1)
  <2>1. i \in 1 .. (L + 1) /\ k + 1 > 0 /\ k + 1 <= Len(r.calls) /\ L \in Nat
    BY <1>1, <1>10
  <2>2. Len(y.reply) = Objects(value, i - 1) + (IF k + 1 > 0 THEN 1 ELSE 0)
    BY <1>6, <2>1
  <2>3. y.reply[Len(y.reply)] = Begun(r, y.basic, k + 1)
    BY <1>0, <1>6
  <2> HIDE DEF o, n
  <2> QED BY <1>0, <1>1, <1>7, <1>9, <2>1, <2>2, <2>3 DEF Served
<1>11. ASSUME k >= Len(r.calls) PROVE Served(y, F, i + 1, 0)
  <2>1. k = Len(r.calls) /\ i + 1 \in 1 .. (L + 1) /\ (i + 1) - 1 = i
    <3>1. k = Len(r.calls)
      BY <1>1, <1>2, <1>11
    <3>2. i <= L /\ L \in Nat
      BY <1>1
    <3> HIDE DEF L
    <3> QED BY <3>1, <3>2
  <2>2. Len(y.reply) = Objects(value, (i + 1) - 1)
    BY <1>3, <1>6, <2>1
  <2>3. y.reply[Objects(value, i)] = Due(r, y.basic)
    <3>1. y.reply[n] = Begun(r, y.basic, Len(r.calls) + 1)
      BY <1>0, <1>6, <2>1
    <3> HIDE DEF n
    <3> QED BY <1>0, <1>3, <3>1, BegunIsDue
  <2>4. ASSUME NEW j \in 1 .. ((i + 1) - 1), items[j].object
        PROVE  y.reply[Objects(value, j)] = Due(items[j], y.basic)
    <3>1. j = i \/ j \in 1 .. (i - 1)
      BY <2>1
    <3> QED BY <1>0, <1>7, <2>3, <2>4, <3>1
  <2>5. ASSUME NEW j \in DOMAIN items, NEW m \in 0 .. Len(items[j].calls)
        PROVE  <<F, j, m>> \in y.changed <=>
                 (j < i + 1 \/ (j = i + 1 /\ m < 0)) /\ PausesBy(items[j], m, y.basic)
    <3>1. j \in Nat /\ m \in Nat /\ ~(m < 0)
      BY <1>1
    <3>2. j < i + 1 <=> j < i \/ j = i
      BY <3>1
    <3>3. j = i => m < k + 1
      BY <1>0, <1>1, <2>1
    <3> QED BY <1>9, <3>1, <3>2, <3>3
  <2>6. y.taken[F] = value /\ ~(0 > 0) /\ Len(y.reply) = Objects(value, (i + 1) - 1) + 0
    BY <1>0, <1>3, <1>6, <2>1, <2>2
  <2> HIDE DEF o, n
  <2> QED BY <1>0, <2>1, <2>4, <2>5, <2>6 DEF Served
<1> QED BY <1>6, <1>10, <1>11

\* Where the task of a connection is in the frame it serves.
LEMMA InFrame ==
  ASSUME Inv, NEW c \in Conns, conn[c].pc = "serve"
  PROVE  LET x == conn[c]
             F == Len(x.taken)
         IN /\ F \in Nat \ {0} /\ Value(c) = x.taken[F] /\ Value(c) \in Values
            /\ F \in DOMAIN x.taken
            /\ Served(x, F, x.item, x.call)
            /\ Answers(x, Len(x.sent)) = F - 1
            /\ InWork(c) => /\ Whole(Value(c)) /\ Items(Value(c)) = Value(c).items
                            /\ x.item <= Len(Value(c).items)
                            /\ x.item \in DOMAIN Value(c).items
                            /\ IsList(Value(c).items)
                            /\ IsList(Value(c).items[x.item].calls)
<1> DEFINE x == conn[c]
           F == Len(x.taken)
           value == x.taken[F]
<1>1. Typed(x) /\ InTurn(x)
  BY DEF Inv, ConnInv
<1>2. /\ F \in Nat \ {0} /\ DOMAIN x.taken = 1 .. F /\ Served(x, F, x.item, x.call)
      /\ Answers(x, F) = Answers(x, F) /\ Answers(x, Len(x.sent)) = F - 1
  BY <1>1, LenProperties DEF InTurn, Typed
<1>3. Value(c) = value /\ value \in Values
  <2>1. F \in 1 .. F
    BY <1>2
  <2> QED BY <1>1, <2>1, ElementOfSeq DEF Value, Last, Typed
<1> HIDE DEF value
<1>4. ASSUME InWork(c)
      PROVE  /\ Whole(value) /\ Items(value) = value.items
             /\ x.item <= Len(value.items) /\ x.item \in DOMAIN value.items
             /\ IsList(value.items) /\ IsList(value.items[x.item].calls)
  <2>1. Whole(value) /\ x.item <= Len(value.items) /\ x.item \in Nat \ {0}
    BY <1>1, <1>3, <1>4, EmptyList DEF InWork, Items, Typed
  <2>2. IsList(value.items) /\ \A i \in DOMAIN value.items : IsList(value.items[i].calls)
    BY <1>3, <2>1, ValuesAssumption
  <2>3. Len(value.items) \in Nat /\ DOMAIN value.items = 1 .. Len(value.items)
    BY <2>2, LenProperties DEF IsList
  <2> QED BY <2>1, <2>2, <2>3 DEF Items
<1>5. F \in DOMAIN x.taken /\ Value(c) = x.taken[F]
  BY <1>2, <1>3 DEF value
<1> QED BY <1>2, <1>3, <1>4, <1>5

LEMMA ServeCallKeeps ==
  ASSUME Inv, NEW c \in Conns, ServeCall(c)
  PROVE  Inv'
<1> DEFINE x == conn[c]
           F == Len(x.taken)
           i == x.item
           k == x.call
           value == Value(c)
           r == Current(c)
           call == Call(r, k, x.basic)
           more == k < Len(r.calls)
           changed == IF Changes(call) THEN x.changed \cup {<<F, i, k>>} ELSE x.changed
           y == [x EXCEPT !.item = IF more THEN @ ELSE @ + 1,
                          !.call = IF more THEN @ + 1 ELSE 0,
                          !.reply = Answered(@, call), !.owed = Changes(call),
                          !.changed = changed]
<1>1. /\ Typed(x) /\ Effects(x) /\ UNCHANGED <<config, bus>> /\ x.pc = "serve"
      /\ InWork(c) /\ r.object
  BY DEF ServeCall, Inv, ConnInv, Known
<1>2. conn' = [conn EXCEPT ![c] = y]
  BY DEF ServeCall, Inv
<1>3. /\ F \in Nat \ {0} /\ value = x.taken[F] /\ F \in DOMAIN x.taken
      /\ Served(x, F, i, k) /\ Whole(value) /\ Items(value) = value.items
      /\ i <= Len(value.items) /\ i \in DOMAIN value.items
      /\ IsList(value.items) /\ IsList(value.items[i].calls)
      /\ i \in Nat \ {0} /\ k \in Nat /\ IsList(x.reply) /\ DOMAIN x = Fields
  BY <1>1, InFrame DEF Typed
<1>4. r = value.items[i]
  BY <1>3 DEF Current
<1> HIDE DEF value, r, call, changed
<1>5. /\ y.taken = x.taken /\ y.sent = x.sent /\ y.basic = x.basic /\ y.changed = changed
      /\ y.hand = x.hand /\ y.pc = x.pc /\ y.reply = Answered(x.reply, call)
      /\ y.item = (IF more THEN i ELSE i + 1) /\ y.call = (IF more THEN k + 1 ELSE 0)
      /\ y.inbox = x.inbox /\ y.next = x.next /\ y.kind = x.kind
      /\ DOMAIN y = Fields
  BY <1>3 DEF Fields, Absent
<1> HIDE DEF y, x
<1>6. \A f, j, m : <<f, j, m>> \in y.changed <=>
        <<f, j, m>> \in x.changed \/ (f = F /\ j = i /\ m = k /\ Changes(call))
  BY <1>5 DEF changed
<1>7. Len(r.calls) \in Nat /\ k <= Len(r.calls)
  <2>1. Len(r.calls) \in Nat
    BY <1>3, <1>4, LenProperties DEF IsList
  <2>2. k > 0 => k <= Len(r.calls)
    BY <1>3, <1>4 DEF Served
  <2> QED BY <1>3, <2>1, <2>2
<1>8. /\ IsList(y.reply)
      /\ more => Served(y, F, i, k + 1)
      /\ ~more => Served(y, F, i + 1, 0)
  <2>1. \A j, m : <<F, j, m>> \in y.changed <=>
          <<F, j, m>> \in x.changed \/ (j = i /\ m = k /\ Changes(call))
    BY <1>6
  <2>2. ~more <=> k >= Len(r.calls)
    BY <1>3, <1>7
  <2> HIDE DEF i, k, F, more
  <2>3. i \in Nat \ {0} /\ k \in Nat /\ Processed(x, y, F, i, k, value, r)
    <3>1. \A j, m : <<F, j, m>> \in y.changed <=>
             <<F, j, m>> \in x.changed \/ (j = i /\ m = k /\ Changes(Call(r, k, x.basic)))
      BY <2>1 DEF call
    <3>2. IsList(r.calls)
      BY <1>3, <1>4
    <3>3. y.reply = Answered(x.reply, Call(r, k, x.basic))
      BY <1>5 DEF call
    <3> QED BY <1>1, <1>3, <1>4, <1>5, <3>1, <3>2, <3>3 DEF Processed
  <2>4. /\ IsList(y.reply)
        /\ k < Len(r.calls) => Served(y, F, i, k + 1)
        /\ k >= Len(r.calls) => Served(y, F, i + 1, 0)
    BY <2>3, ServedNext
  <2> QED BY <2>2, <2>4 DEF more
<1>9. Served(y, F, y.item, y.call)
  BY <1>5, <1>8
<1>10. Typed(y)
  BY <1>1, <1>3, <1>5, <1>8 DEF Typed
<1>11. Effects(y)
  <2>1. ASSUME NEW e \in y.changed
        PROVE  \E f \in DOMAIN y.taken : \E j \in DOMAIN Items(y.taken[f]) :
                 \E m \in 0 .. Len(y.taken[f].items[j].calls) : e = <<f, j, m>>
    <3>1. CASE e \in x.changed
      BY <1>1, <1>5, <3>1 DEF Effects
    <3>2. CASE e = <<F, i, k>>
      <4>1. F \in DOMAIN y.taken /\ y.taken[F] = value
        BY <1>3, <1>5
      <4>2. i \in DOMAIN Items(value) /\ k \in 0 .. Len(value.items[i].calls)
        BY <1>3, <1>4, <1>7
      <4> HIDE DEF F, i, k
      <4> QED BY <3>2, <4>1, <4>2
    <3> QED BY <1>5, <2>1, <3>1, <3>2 DEF changed
  <2> QED BY <2>1 DEF Effects
<1>12. conn[c].pc = "serve" /\ bus' = bus /\ config' = config
  BY <1>1 DEF x
<1>13. LET z == conn[c]
       IN /\ y.taken = z.taken /\ y.sent = z.sent /\ y.basic = z.basic
          /\ y.hand = z.hand /\ y.pc = "serve"
          /\ \A f, j, m : f # Len(z.taken) =>
               (<<f, j, m>> \in y.changed <=> <<f, j, m>> \in z.changed)
          /\ Served(y, Len(z.taken), y.item, y.call)
  BY <1>1, <1>5, <1>6, <1>9 DEF x
<1> QED BY <1>2, <1>10, <1>11, <1>12, <1>13, Serving

-----------------------------------------------------------------------------
(* What a task tells the client and the others.                              *)

LEMMA SendLifecycleKeeps ==
  ASSUME Inv, NEW c \in Conns, SendLifecycle(c)
  PROVE  Inv'
<1> DEFINE x == conn[c]
           y == [x EXCEPT !.owed = FALSE]
<1>1. /\ Typed(x) /\ Heard(x, c, bus) /\ config' = config /\ x.owed
      /\ conn' = [conn EXCEPT ![c] = y]
      /\ bus' = Append(bus, [by |-> c, frame |-> Len(x.taken)])
  BY DEF SendLifecycle, Inv, ConnInv, Known
<1>2. Typed(y)
  BY <1>1 DEF Typed, Fields, Absent
<1>3. x.pc # "none"
  BY <1>1 DEF Heard
<1>4. /\ y.taken = x.taken /\ y.sent = x.sent /\ y.reply = x.reply /\ y.changed = x.changed
      /\ y.basic = x.basic /\ y.item = x.item /\ y.call = x.call /\ ~y.owed
      /\ y.hand = x.hand /\ y.pc = x.pc
  BY <1>1 DEF Typed, Fields, Absent
<1> HIDE DEF y
<1> QED BY <1>1, <1>2, <1>3, <1>4, Untouched

LEMMA SocketClosesKeeps ==
  ASSUME Inv, NEW c \in Conns, SocketCloses(c)
  PROVE  Inv'
<1> DEFINE x == conn[c]
           y == [x EXCEPT !.pc = "done"]
<1>1. /\ Typed(x) /\ Heard(x, c, bus) /\ config' = config /\ bus' = bus /\ x.pc = "select"
      /\ conn' = [conn EXCEPT ![c] = y]
  BY DEF SocketCloses, Inv, ConnInv, Known
<1>2. Typed(y)
  BY <1>1 DEF Typed, Fields, Absent, Labels
<1>3. ~x.owed
  BY <1>1 DEF Heard
<1>4. /\ y.taken = x.taken /\ y.sent = x.sent /\ y.reply = x.reply /\ y.changed = x.changed
      /\ y.basic = x.basic /\ y.item = x.item /\ y.call = x.call /\ y.owed = x.owed
      /\ y.hand = x.hand /\ y.pc = "done"
  BY <1>1 DEF Typed, Fields, Absent
<1> HIDE DEF y
<1> QED BY <1>1, <1>2, <1>3, <1>4, Untouched

\* A message that is due, as an answer or as a notification, keeps the invariant.
LEMMA Told ==
  ASSUME Inv, NEW c \in Conns, NEW y, conn' = [conn EXCEPT ![c] = y], config' = config,
         bus' = bus, NEW m, Typed(y),
         LET x == conn[c]
             told == Answers(x, Len(x.sent))
         IN /\ x.pc # "none" /\ ~x.owed
            /\ y.taken = x.taken /\ y.sent = Append(x.sent, m) /\ y.changed = x.changed
            /\ y.basic = x.basic /\ y.pc \in {"select", "done"} /\ y.hand = 0 /\ ~y.owed
            /\ m.answer => FrameDone(x, told + 1, m.reply) /\ told + 1 = Len(x.taken)
            /\ ~m.answer => /\ told = Len(x.taken) /\ m.index \in DOMAIN bus
                            /\ bus[m.index].by = c => told >= bus[m.index].frame
  PROVE  Inv'
<1> DEFINE x == conn[c]
           L == Len(x.sent)
           told == Answers(x, L)
<1>1. ConnInv(c) /\ IsList(x.sent)
  BY DEF Inv, ConnInv, Typed
<1>2. /\ L \in Nat /\ DOMAIN x.sent = 1 .. L /\ Len(y.sent) = L + 1 /\ DOMAIN y.sent = 1 .. (L + 1)
      /\ \A n \in 1 .. L : y.sent[n] = x.sent[n]
      /\ y.sent[L + 1] = m
  BY <1>1, Longer
<1>3. ASSUME NEW n \in 0 .. L PROVE Answers(y, n) = Answers(x, n)
  <2>1. \A j \in 1 .. n : y.sent[j] = x.sent[j]
    BY <1>2
  <2> QED BY <2>1, AnswersSame
<1>4. Answers(y, L + 1) = told + (IF m.answer THEN 1 ELSE 0) /\ told \in Nat
  <2>1. Answers(y, L + 1) = Answers(y, L) + (IF y.sent[L + 1].answer THEN 1 ELSE 0)
    BY <1>2, AnswersCount
  <2>2. L \in 0 .. L /\ told \in Nat
    BY <1>2, AnswersCount
  <2>3. Answers(y, L) = told
    BY <1>3, <2>2
  <2> QED BY <1>2, <2>1, <2>2, <2>3
<1>5. \A f, reply : FrameDone(y, f, reply) <=> FrameDone(x, f, reply)
  BY DEF FrameDone
<1>6. FramesDone(y)
  <2>1. ASSUME NEW n \in DOMAIN y.sent, y.sent[n].answer
        PROVE  FrameDone(x, Answers(y, n), y.sent[n].reply)
    <3>1. CASE n = L + 1
      BY <1>2, <1>4, <2>1, <3>1
    <3>2. CASE n \in 1 .. L
      BY <1>1, <1>2, <1>3, <2>1, <3>2 DEF ConnInv, FramesDone
    <3> QED BY <1>2, <3>1, <3>2
  <2> QED BY <1>5, <2>1 DEF FramesDone
<1>7. InTurn(y)
  <2>1. Answers(y, Len(y.sent)) = Len(y.taken)
    BY <1>2, <1>4
  <2> QED BY <2>1 DEF InTurn
<1>8. Effects(y)
  BY <1>1 DEF ConnInv, Effects
<1>9. Heard(y, c, bus')
  <2>1. ASSUME NEW n \in DOMAIN y.sent, ~y.sent[n].answer
        PROVE  /\ y.sent[n].index \in DOMAIN bus
               /\ bus[y.sent[n].index].by = c => Answers(y, n) >= bus[y.sent[n].index].frame
    <3>1. CASE n = L + 1
      BY <1>2, <1>4, <2>1, <3>1
    <3>2. CASE n \in 1 .. L
      <4>1. y.sent[n] = x.sent[n] /\ Answers(y, n) = Answers(x, n) /\ n \in DOMAIN x.sent
        BY <1>2, <1>3, <3>2
      <4>2. Heard(x, c, bus)
        BY <1>1 DEF ConnInv
      <4> HIDE DEF x
      <4> QED BY <2>1, <4>1, <4>2 DEF Heard
    <3> QED BY <1>2, <3>1, <3>2
  <2> QED BY <2>1 DEF Heard
<1>10. Len(conn[c].taken) <= Len(y.taken)
  BY <1>1, LenProperties DEF ConnInv, Typed
<1> QED BY <1>6, <1>7, <1>8, <1>9, <1>10, StepOf

\* A frame that is served to its end is answered as is due.
LEMMA ServedWhole ==
  ASSUME NEW x, NEW F \in DOMAIN x.taken, NEW i, NEW k \in Nat, Served(x, F, i, k),
         x.taken[F] \in Values, i > Len(Items(x.taken[F]))
  PROVE  FrameDone(x, F, x.reply)
<1> DEFINE value == x.taken[F]
           items == value.items
<1>1. CASE Whole(value)
  <2>1. Items(value) = items /\ IsList(items)
    BY <1>1, ValuesAssumption DEF Items
  <2>2. Len(items) \in Nat /\ DOMAIN items = 1 .. Len(items)
    BY <2>1, LenProperties DEF IsList
  <2>3. /\ i \in 1 .. (Len(items) + 1)
        /\ k > 0 => i <= Len(items)
    BY <1>1 DEF Served
  <2>4. i = Len(items) + 1 /\ k = 0 /\ i - 1 = Len(items)
    BY <2>1, <2>2, <2>3
  <2>5. /\ Len(x.reply) = Objects(value, i - 1) + (IF k > 0 THEN 1 ELSE 0)
        /\ \A j \in 1 .. (i - 1) : items[j].object =>
             x.reply[Objects(value, j)] = Due(items[j], x.basic)
        /\ \A j \in DOMAIN items : \A m \in 0 .. Len(items[j].calls) :
             <<F, j, m>> \in x.changed <=>
               (j < i \/ (j = i /\ m < k)) /\ PausesBy(items[j], m, x.basic)
    BY <1>1 DEF Served
  <2>6. Len(x.reply) = Objects(value, Len(items))
    <3> DEFINE n == Len(items)
    <3>1. n \in Nat
      BY <2>2
    <3> HIDE DEF n, value
    <3>2. Objects(value, n) \in Nat
      BY <3>1, ObjectsCount
    <3>3. Len(x.reply) = Objects(value, n) + 0
      BY <2>4, <2>5 DEF n
    <3> QED BY <3>2, <3>3 DEF n
  <2>7. IsDue(x.reply, value, x.basic)
    BY <1>1, <2>2, <2>4, <2>5, <2>6 DEF IsDue
  <2>8. \A j \in DOMAIN items : j < i
    BY <2>2, <2>4
  <2> HIDE DEF items, value
  <2> QED BY <2>1, <2>5, <2>7, <2>8 DEF FrameDone, value, items
<1>2. CASE ~Whole(value)
  <2>1. IsDue(x.reply, value, x.basic)
    BY <1>2 DEF Served, IsDue
  <2>2. DOMAIN Items(value) = {}
    BY <1>2 DEF Items
  <2> QED BY <2>1, <2>2 DEF FrameDone
<1> QED BY <1>1, <1>2

\* A task that cannot send ends without having changed anything.
LEMMA Ends ==
  ASSUME Inv, NEW c \in Conns, conn[c].pc # "none", ~conn[c].owed, config' = config, bus' = bus,
         conn' = [conn EXCEPT ![c].pc = "done"]
  PROVE  Inv'
<1> DEFINE x == conn[c]
           y == [x EXCEPT !.pc = "done"]
<1>1. Typed(x) /\ conn' = [conn EXCEPT ![c] = y]
  BY DEF Inv, ConnInv
<1>2. Typed(y)
  BY <1>1 DEF Typed, Fields, Absent, Labels
<1>3. /\ y.taken = x.taken /\ y.sent = x.sent /\ y.reply = x.reply /\ y.changed = x.changed
      /\ y.basic = x.basic /\ y.item = x.item /\ y.call = x.call /\ y.owed = x.owed
      /\ y.hand = x.hand /\ y.pc = "done"
  BY <1>1 DEF Typed, Fields, Absent
<1> HIDE DEF y
<1> QED BY <1>1, <1>2, <1>3, Untouched

LEMMA SendAnswerKeeps ==
  ASSUME Inv, NEW c \in Conns, SendAnswer(c)
  PROVE  Inv'
<1> DEFINE x == conn[c]
           F == Len(x.taken)
           m == [answer |-> TRUE, reply |-> x.reply]
           then == IF x.kind = "socket" THEN "select" ELSE "done"
           y == [x EXCEPT !.sent = Append(@, m), !.pc = then, !.hand = 0]
<1>1. /\ Typed(x) /\ x.pc = "serve" /\ ~x.owed /\ ~InWork(c) /\ UNCHANGED <<config, bus>>
      /\ Send(c, m, then)
  BY DEF SendAnswer, Inv, ConnInv, Known
<1>2. CASE x.left
  BY <1>1, <1>2, Ends DEF Send
<1>3. CASE ~x.left
  <2>1. conn' = [conn EXCEPT ![c] = y]
    BY <1>1, <1>3 DEF Send, Inv
  <2>2. /\ F \in Nat \ {0} /\ Value(c) = x.taken[F] /\ Value(c) \in Values
        /\ F \in DOMAIN x.taken /\ Served(x, F, x.item, x.call)
        /\ Answers(x, Len(x.sent)) = F - 1
    BY <1>1, InFrame
  <2>3. x.item > Len(Items(x.taken[F])) /\ x.call \in Nat
    <3>1. IsList(Items(Value(c)))
      BY <2>2, ValuesAssumption, EmptyList DEF Items
    <3>2. Len(Items(Value(c))) \in Nat /\ x.item \in Nat /\ x.call \in Nat
      BY <1>1, <3>1, Longer DEF Typed
    <3>3. ~(x.item <= Len(Items(Value(c))))
      BY <1>1 DEF InWork
    <3>4. x.item > Len(Items(Value(c)))
      BY <3>2, <3>3
    <3> QED BY <2>2, <3>2, <3>4
  <2>4. FrameDone(x, F, x.reply)
    BY <2>2, <2>3, ServedWhole
  <2> HIDE DEF m
  <2>5. /\ y.taken = x.taken /\ y.sent = Append(x.sent, m) /\ y.changed = x.changed
        /\ y.basic = x.basic /\ y.pc \in {"select", "done"} /\ y.hand = 0 /\ ~y.owed
    BY <1>1 DEF Typed, Fields, Absent
  <2>6. Typed(y)
    <3>1. IsList(Append(x.sent, m))
      BY <1>1, Longer DEF Typed
    <3> QED BY <1>1, <3>1 DEF Typed, Fields, Absent, Labels
  <2>7. m.answer /\ m.reply = x.reply /\ (F - 1) + 1 = F
    BY <2>2 DEF m
  <2> HIDE DEF y, F
  <2>8. /\ m.answer => FrameDone(x, Answers(x, Len(x.sent)) + 1, m.reply)
                       /\ Answers(x, Len(x.sent)) + 1 = Len(x.taken)
        /\ ~m.answer => FALSE
    BY <2>2, <2>4, <2>7 DEF F
  <2>9. x.pc # "none" /\ ~x.owed
    BY <1>1
  <2> QED BY <1>1, <2>1, <2>5, <2>6, <2>8, <2>9, Told
<1> QED BY <1>2, <1>3

LEMMA SendNoteKeeps ==
  ASSUME Inv, NEW c \in Conns, SendNote(c)
  PROVE  Inv'
<1> DEFINE x == conn[c]
           m == [answer |-> FALSE, index |-> x.hand]
           y == [x EXCEPT !.sent = Append(@, m), !.pc = "select", !.hand = 0]
<1>1. /\ Typed(x) /\ InTurn(x) /\ Heard(x, c, bus) /\ x.pc = "note" /\ UNCHANGED <<config, bus>>
      /\ Send(c, m, "select")
  BY DEF SendNote, Inv, ConnInv, Known
<1>2. x.pc # "none" /\ ~x.owed /\ x.hand \in DOMAIN bus
  BY <1>1 DEF Heard
<1>3. CASE x.left
  BY <1>1, <1>2, <1>3, Ends DEF Send
<1>4. CASE ~x.left
  <2>1. conn' = [conn EXCEPT ![c] = y]
    BY <1>1, <1>4 DEF Send, Inv
  <2>2. Answers(x, Len(x.sent)) = Len(x.taken) /\ Len(x.taken) \in Nat
    BY <1>1, LenProperties DEF InTurn, Typed
  <2>3. bus[x.hand].by = c => Len(x.taken) >= bus[x.hand].frame
    BY <1>2, <2>2 DEF Inv, BusInv
  <2> HIDE DEF m
  <2>4. /\ y.taken = x.taken /\ y.sent = Append(x.sent, m) /\ y.changed = x.changed
        /\ y.basic = x.basic /\ y.pc \in {"select", "done"} /\ y.hand = 0 /\ ~y.owed
    BY <1>1, <1>2 DEF Typed, Fields, Absent
  <2>5. Typed(y)
    <3>1. IsList(Append(x.sent, m))
      BY <1>1, Longer DEF Typed
    <3> QED BY <1>1, <3>1 DEF Typed, Fields, Absent, Labels
  <2>6. ~m.answer /\ m.index = x.hand
    BY DEF m
  <2> HIDE DEF y
  <2>7. /\ m.answer => FALSE
        /\ ~m.answer => /\ Answers(x, Len(x.sent)) = Len(x.taken) /\ m.index \in DOMAIN bus
                        /\ bus[m.index].by = c => Answers(x, Len(x.sent)) >= bus[m.index].frame
    BY <1>2, <2>2, <2>3, <2>6
  <2> QED BY <1>1, <1>2, <2>1, <2>4, <2>5, <2>7, Told
<1> QED BY <1>3, <1>4

LEMMA OldestIsNat ==
  ASSUME BusInv
  PROVE  Oldest \in Nat \ {0} /\ Len(bus) \in Nat /\ DOMAIN bus = 1 .. Len(bus)
         /\ \A n \in Nat \ {0} : n < Oldest => n + Capacity <= Len(bus)
<1>1. Len(bus) \in Nat /\ DOMAIN bus = 1 .. Len(bus)
  BY LenProperties DEF BusInv, IsList
<1>2. Oldest \in Nat \ {0}
  BY <1>1, CapacityAssumption DEF Oldest
<1>3. ASSUME NEW n \in Nat \ {0}, n < Oldest PROVE n + Capacity <= Len(bus)
  BY <1>1, <1>3, CapacityAssumption DEF Oldest
<1> QED BY <1>1, <1>2, <1>3

LEMMA ReceiveNoteKeeps ==
  ASSUME Inv, NEW c \in Conns, ReceiveNote(c)
  PROVE  Inv'
<1> DEFINE x == conn[c]
<1>1. /\ ConnInv(c) /\ Typed(x) /\ Heard(x, c, bus) /\ x.pc = "select" /\ x.kind = "socket"
      /\ UNCHANGED <<config, bus>> /\ x.next <= Len(bus)
  BY DEF ReceiveNote, Inv, ConnInv, Known
<1>2. CASE Overrun(c)
  <2> DEFINE y == [x EXCEPT !.next = Oldest]
  <2>1. conn' = [conn EXCEPT ![c] = y] /\ Oldest \in Nat \ {0}
    BY <1>2, OldestIsNat DEF ReceiveNote, AfterOverrun, Inv
  <2>2. Typed(y)
    BY <1>1, <2>1 DEF Typed, Fields, Absent
  <2>3. /\ y.taken = x.taken /\ y.sent = x.sent /\ y.reply = x.reply /\ y.changed = x.changed
        /\ y.basic = x.basic /\ y.item = x.item /\ y.call = x.call /\ y.owed = x.owed
        /\ y.hand = x.hand /\ y.pc = x.pc
    BY <1>1 DEF Typed, Fields, Absent
  <2> HIDE DEF y
  <2> QED BY <1>1, <2>1, <2>2, <2>3, Untouched
<1>3. CASE ~Overrun(c)
  <2> DEFINE y == [x EXCEPT !.pc = "note", !.next = @ + 1, !.hand = x.next]
  <2>1. conn' = [conn EXCEPT ![c] = y]
    BY <1>3 DEF ReceiveNote, Take, Inv
  <2>2. x.next \in DOMAIN bus /\ x.next \in Nat \ {0}
    BY <1>1, OldestIsNat DEF Typed, Inv
  <2>3. Typed(y)
    BY <1>1, <2>2 DEF Typed, Fields, Absent, Labels
  <2>4. /\ y.taken = x.taken /\ y.sent = x.sent /\ y.reply = x.reply /\ y.changed = x.changed
        /\ y.basic = x.basic /\ y.item = x.item /\ y.call = x.call /\ y.owed = x.owed
        /\ y.hand = x.next /\ y.pc = "note"
    BY <1>1 DEF Typed, Fields, Absent
  <2> HIDE DEF y
  <2>5. \A n : Answers(y, n) = Answers(x, n)
    BY <2>4 DEF Answers
  <2>6. \A f, reply : FrameDone(y, f, reply) <=> FrameDone(x, f, reply)
    BY <2>4 DEF FrameDone
  <2>7. FramesDone(y)
    BY <1>1, <2>4, <2>5, <2>6 DEF ConnInv, FramesDone
  <2>8. InTurn(y)
    BY <1>1, <2>4, <2>5 DEF ConnInv, InTurn
  <2>9. Effects(y)
    BY <1>1, <2>4 DEF ConnInv, Effects
  <2>10. Heard(y, c, bus')
    <3>1. ASSUME NEW n \in DOMAIN y.sent, ~y.sent[n].answer
          PROVE  /\ y.sent[n].index \in DOMAIN bus
                 /\ bus[y.sent[n].index].by = c => Answers(y, n) >= bus[y.sent[n].index].frame
      BY <1>1, <2>4, <2>5, <3>1 DEF Heard
    <3>2. ~y.owed
      BY <1>1, <2>4 DEF Heard
    <3> QED BY <1>1, <2>2, <2>4, <3>1, <3>2 DEF Heard
  <2>11. Len(conn[c].taken) <= Len(y.taken)
    BY <1>1, <2>4, LenProperties DEF Typed
  <2> QED BY <1>1, <2>1, <2>3, <2>7, <2>8, <2>9, <2>10, <2>11, StepOf
<1> QED BY <1>2, <1>3

-----------------------------------------------------------------------------
(* The invariant.                                                            *)

LEMMA RunKeeps ==
  ASSUME Inv, RecordEvent \/ SendProgress \/ StopAccepting \/ Exit
  PROVE  Inv'
<1>1. /\ conn' = conn /\ config' = config
      /\ bus' = bus \/ bus' = Append(bus, [by |-> "run", frame |-> events])
  BY DEF RecordEvent, SendProgress, StopAccepting, Exit, Known
<1>2. ASSUME NEW c \in Conns PROVE ConnInv(c)'
  BY <1>1, OthersKept
<1>3. \A c \in Conns : Len(conn[c].taken) \in Nat
  BY LenProperties DEF Inv, ConnInv, Typed
<1>4. BusInv'
  <2> DEFINE b == [by |-> "run", frame |-> events]
  <2>1. b.by \notin Conns
    BY ConnsAssumption DEF Conns
  <2> HIDE DEF b
  <2>2. bus' = bus \/ bus' = Append(bus, b)
    BY <1>1 DEF b
  <2> QED BY <1>1, <1>3, <2>1, <2>2, BusKept DEF Inv
<1> QED BY <1>1, <1>2, <1>4 DEF Inv

LEMMA StutterKeeps == ASSUME Inv, UNCHANGED vars PROVE Inv'
<1>1. conn' = conn /\ config' = config /\ bus' = bus
  BY DEF vars
<1>2. ASSUME NEW c \in Conns PROVE ConnInv(c)'
  BY <1>1, OthersKept
<1>3. BusInv'
  BY <1>1 DEF Inv, BusInv
<1> QED BY <1>1, <1>2, <1>3 DEF Inv

LEMMA InitHolds == ASSUME Init PROVE Inv
<1>1. conn = [c \in Conns |-> Absent] /\ bus = <<>>
  BY DEF Init
<1>2. <<>> \in Seq(Values) /\ IsList(<<>>) /\ DOMAIN <<>> = {} /\ Len(<<>>) = 0
  BY EmptySeq, EmptyList
<1>3. Typed(Absent)
  BY <1>2 DEF Typed, Fields, Absent, Labels
<1>4. FramesDone(Absent) /\ InTurn(Absent) /\ Effects(Absent) /\ \A c : Heard(Absent, c, bus)
  BY <1>2 DEF FramesDone, InTurn, Effects, Heard, Absent
<1>5. BusInv
  BY <1>1, <1>2 DEF BusInv
<1>6. \A c \in Conns : ConnInv(c)
  BY <1>1, <1>3, <1>4 DEF ConnInv
<1> QED BY <1>1, <1>5, <1>6 DEF Inv

LEMMA StepKeeps == ASSUME Inv, [Next]_vars PROVE Inv'
<1>1. ASSUME NEW c \in Sockets, ConnectSocket(c) \/ ClientSends(c) \/ ClientReads(c) \/ ClientLeaves(c)
      PROVE  Inv'
  BY <1>1, ConnectKeeps, ClientKeeps DEF Conns
<1>2. ASSUME NEW c \in Requests, ConnectRequest(c) PROVE Inv'
  BY <1>2, ConnectKeeps DEF Conns
<1>3. ASSUME NEW c \in Conns, Task(c) PROVE Inv'
  BY <1>3, TakeKeeps, PassOverKeeps, ServeCallKeeps, SendLifecycleKeeps, SendAnswerKeeps,
     SocketClosesKeeps, ReceiveNoteKeeps, SendNoteKeeps DEF Task
<1> QED BY <1>1, <1>2, <1>3, RunKeeps, StutterKeeps DEF Next

THEOREM InvHolds == Spec => []Inv
<1>1. Init => Inv
  BY InitHolds
<1>2. Inv /\ [Next]_vars => Inv'
  BY StepKeeps
<1> QED BY <1>1, <1>2, PTL DEF Spec

-----------------------------------------------------------------------------
(* Answers.                                                                  *)

\* The answer to a frame says of every call whether it paused the download.
LEMMA SaysWhatPaused ==
  ASSUME NEW value, NEW reply, NEW basic, IsDue(reply, value, basic),
         NEW i \in DOMAIN Items(value), NEW k \in 0 .. Len(value.items[i].calls),
         value \in Values
  PROVE  SaysPaused(reply, value, i, k) <=> PausesBy(value.items[i], k, basic)
<1> DEFINE r == value.items[i]
<1>1. Whole(value) /\ Items(value) = value.items
  BY DEF Items
<1>2. IsList(r.calls)
  BY <1>1, ValuesAssumption
<1>3. Len(r.calls) \in Nat /\ DOMAIN r.calls = 1 .. Len(r.calls)
  BY <1>2, LenProperties DEF IsList
<1>4. r.object => reply[Objects(value, i)] = Due(r, basic)
  BY <1>1 DEF IsDue
<1>5. CASE k = 0
  <2>1. Due(r, basic).ok <=> Permitted(r, basic)
    BY DEF Due
  <2> QED BY <1>4, <1>5, <2>1 DEF SaysPaused, PausesBy
<1>6. CASE k # 0
  <2>1. k \in DOMAIN r.calls
    BY <1>3, <1>6
  <2>2. Due(r, basic).inner[k] <=> r.calls[k].method # "multicall" /\ Permitted(r.calls[k], FALSE)
    BY <2>1 DEF Due
  <2> QED BY <1>4, <1>6, <2>2 DEF SaysPaused, PausesBy
<1> QED BY <1>5, <1>6

LEMMA InvAnswers == ASSUME Inv PROVE AnsweredInTurn
<1>1. ASSUME NEW c \in Conns, NEW n \in DOMAIN conn[c].sent, conn[c].sent[n].answer
      PROVE  LET x == conn[c]
                 f == Answers(x, n)
                 value == x.taken[f]
                 reply == x.sent[n].reply
             IN /\ f \in DOMAIN x.taken
                /\ IsDue(reply, value, x.basic)
                /\ \A i \in DOMAIN Items(value) : \A k \in 0 .. Len(value.items[i].calls) :
                     <<f, i, k>> \in x.changed <=> SaysPaused(reply, value, i, k)
  <2> DEFINE x == conn[c]
             f == Answers(x, n)
             value == x.taken[f]
             reply == x.sent[n].reply
  <2>1. Typed(x) /\ FrameDone(x, f, reply)
    BY <1>1 DEF Inv, ConnInv, FramesDone
  <2>2. f \in DOMAIN x.taken /\ IsDue(reply, value, x.basic)
    BY <2>1 DEF FrameDone
  <2>3. value \in Values
    <3>1. x.taken \in Seq(Values) /\ DOMAIN x.taken = 1 .. Len(x.taken)
      BY <2>1, LenProperties DEF Typed
    <3> HIDE DEF f, x
    <3> QED BY <2>2, <3>1, ElementOfSeq
  <2>4. \A i \in DOMAIN Items(value) : \A k \in 0 .. Len(value.items[i].calls) :
          <<f, i, k>> \in x.changed <=> PausesBy(value.items[i], k, x.basic)
    BY <2>1 DEF FrameDone
  <2> HIDE DEF f, x, value, reply
  <2>5. \A i \in DOMAIN Items(value) : \A k \in 0 .. Len(value.items[i].calls) :
          SaysPaused(reply, value, i, k) <=> PausesBy(value.items[i], k, x.basic)
    BY <2>2, <2>3, SaysWhatPaused
  <2>6. \A i \in DOMAIN Items(value) : \A k \in 0 .. Len(value.items[i].calls) :
          <<f, i, k>> \in x.changed <=> SaysPaused(reply, value, i, k)
    BY <2>4, <2>5
  <2> QED BY <2>2, <2>6 DEF f, x, value, reply
<1>2. ASSUME NEW c \in Conns, conn[c].pc \in {"select", "note"}
      PROVE  LET x == conn[c]
             IN /\ Answers(x, Len(x.sent)) = Len(x.taken)
                /\ \A e \in x.changed :
                     /\ e[1] \in DOMAIN x.taken /\ e[2] \in DOMAIN Items(x.taken[e[1]])
                     /\ e[3] \in 0 .. Len(x.taken[e[1]].items[e[2]].calls)
  <2>1. InTurn(conn[c]) /\ Effects(conn[c])
    BY DEF Inv, ConnInv
  <2>2. ASSUME NEW e \in conn[c].changed
        PROVE  /\ e[1] \in DOMAIN conn[c].taken
               /\ e[2] \in DOMAIN Items(conn[c].taken[e[1]])
               /\ e[3] \in 0 .. Len(conn[c].taken[e[1]].items[e[2]].calls)
    <3>1. PICK f \in DOMAIN conn[c].taken : \E i \in DOMAIN Items(conn[c].taken[f]) :
            \E k \in 0 .. Len(conn[c].taken[f].items[i].calls) : e = <<f, i, k>>
      BY <2>1 DEF Effects
    <3>2. PICK i \in DOMAIN Items(conn[c].taken[f]) :
            \E k \in 0 .. Len(conn[c].taken[f].items[i].calls) : e = <<f, i, k>>
      BY <3>1
    <3>3. PICK k \in 0 .. Len(conn[c].taken[f].items[i].calls) : e = <<f, i, k>>
      BY <3>2
    <3> QED BY <3>3
  <2> QED BY <1>2, <2>1, <2>2 DEF InTurn
<1>3. AnswersAreDue
  BY <1>1, <1>2 DEF AnswersAreDue
<1>4. AnswerComesFirst
  <2>1. ASSUME NEW c \in Conns, NEW n \in DOMAIN conn[c].sent, ~conn[c].sent[n].answer,
               bus[conn[c].sent[n].index].by = c
        PROVE  Answers(conn[c], n) >= bus[conn[c].sent[n].index].frame
    BY <2>1 DEF Inv, ConnInv, Heard
  <2> QED BY <2>1 DEF AnswerComesFirst
<1> QED BY <1>3, <1>4 DEF AnsweredInTurn

\* Every client is answered frame by frame and in order, a batch with one answer for each
\* of its objects, success meaning permission and nothing else; the download was paused by
\* exactly the calls whose answers say so; and a client hears of what its request did only
\* behind the request's answer (process_request, strip_auth, handle_jsonrpc_batch,
\* system_multicall, handle_websocket).
THEOREM AnswersInTurn == Spec => []AnsweredInTurn
BY InvHolds, InvAnswers, PTL

-----------------------------------------------------------------------------
(* Notifications.                                                            *)

\* What a step may do to a socket's place in the notifications.
Moves(x, y) ==
  x.kind = "socket" =>
    /\ y.next >= x.next
    /\ \A n \in x.next .. (y.next - 1) : n = y.hand \/ n + Capacity <= Len(bus)
    /\ y.next > x.next => x.hand = 0
    /\ x.hand # 0 /\ y.hand # x.hand =>
         y.hand = 0 /\ y.sent = Append(x.sent, [answer |-> FALSE, index |-> x.hand])

LEMMA Stays ==
  ASSUME NEW x, NEW y, x.next \in Nat, y.next = x.next, y.hand = x.hand
  PROVE  Moves(x, y)
BY DEF Moves

LEMMA TaskMoves ==
  ASSUME Inv, NEW c \in Conns, Task(c)
  PROVE  Moves(conn[c], conn'[c])
<1> DEFINE x == conn[c]
<1>1. /\ DOMAIN conn = Conns /\ DOMAIN x = Fields /\ x.next \in Nat
      /\ x.pc \in {"none", "select", "serve"} => x.hand = 0
      /\ x.kind = "socket" => x.next # 0
  BY DEF Inv, ConnInv, Typed, Heard
<1>2. CASE TakeFrame(c)
  <2>1. x'.next = x.next /\ x'.hand = x.hand
    BY <1>1, <1>2 DEF TakeFrame, Fields, Absent
  <2> QED BY <1>1, <2>1, Stays
<1>3. CASE PassOver(c)
  <2>1. x'.next = x.next /\ x'.hand = x.hand
    BY <1>1, <1>3 DEF PassOver, Fields, Absent
  <2> QED BY <1>1, <2>1, Stays
<1>4. CASE ServeCall(c)
  <2>1. x'.next = x.next /\ x'.hand = x.hand
    BY <1>1, <1>4 DEF ServeCall, Fields, Absent
  <2> QED BY <1>1, <2>1, Stays
<1>5. CASE SendLifecycle(c)
  <2>1. x'.next = x.next /\ x'.hand = x.hand
    BY <1>1, <1>5 DEF SendLifecycle, Fields, Absent
  <2> QED BY <1>1, <2>1, Stays
<1>6. CASE SendAnswer(c)
  <2>1. x'.next = x.next /\ x'.hand = 0 /\ x.hand = 0
    BY <1>1, <1>6 DEF SendAnswer, Send, Fields, Absent
  <2> QED BY <1>1, <2>1, Stays
<1>7. CASE SocketCloses(c)
  <2>1. x'.next = x.next /\ x'.hand = x.hand
    BY <1>1, <1>7 DEF SocketCloses, Fields, Absent
  <2> QED BY <1>1, <2>1, Stays
<1>8. CASE ReceiveNote(c)
  <2>1. x.hand = 0 /\ x.next # 0
    BY <1>1, <1>8 DEF ReceiveNote
  <2>2. CASE Overrun(c)
    <3>1. x'.next = Oldest /\ x'.hand = 0
      BY <1>1, <1>8, <2>1, <2>2 DEF ReceiveNote, AfterOverrun, Fields, Absent
    <3>2. /\ Oldest \in Nat /\ x.next < Oldest
          /\ \A n \in Nat \ {0} : n < Oldest => n + Capacity <= Len(bus)
      BY <2>2, OldestIsNat DEF Inv, Overrun
    <3>3. ASSUME NEW n \in x.next .. (Oldest - 1) PROVE n + Capacity <= Len(bus)
      <4>1. n \in Nat \ {0} /\ n < Oldest
        BY <1>1, <2>1, <3>2
      <4> QED BY <3>2, <4>1
    <3> QED BY <1>1, <2>1, <3>1, <3>2, <3>3 DEF Moves
  <2>3. CASE ~Overrun(c)
    <3>1. x'.next = x.next + 1 /\ x'.hand = x.next
      BY <1>1, <1>8, <2>3 DEF ReceiveNote, Take, Fields, Absent
    <3>2. \A n \in x.next .. ((x.next + 1) - 1) : n = x.next
      BY <1>1
    <3> QED BY <1>1, <2>1, <3>1, <3>2 DEF Moves
  <2> QED BY <2>2, <2>3
<1>9. CASE SendNote(c)
  <2> DEFINE m == [answer |-> FALSE, index |-> x.hand]
  <2>1. \/ x'.next = x.next /\ x'.hand = x.hand
        \/ x'.next = x.next /\ x'.hand = 0 /\ x'.sent = Append(x.sent, m)
    BY <1>1, <1>9 DEF SendNote, Send, Fields, Absent
  <2>2. CASE x'.next = x.next /\ x'.hand = x.hand
    BY <1>1, <2>2, Stays
  <2>3. CASE x'.next = x.next /\ x'.hand = 0 /\ x'.sent = Append(x.sent, m)
    <3>1. x'.next >= x.next /\ x.next .. (x.next - 1) = {} /\ ~(x'.next > x.next)
      BY <1>1, <2>3
    <3> QED BY <2>3, <3>1 DEF Moves
  <2> QED BY <2>1, <2>2, <2>3
<1> QED BY <1>2, <1>3, <1>4, <1>5, <1>6, <1>7, <1>8, <1>9 DEF Task

LEMMA ClientMoves ==
  ASSUME Inv, NEW c \in Conns,
         ConnectSocket(c) \/ ConnectRequest(c) \/ ClientSends(c) \/ ClientReads(c) \/ ClientLeaves(c)
  PROVE  Moves(conn[c], conn'[c])
<1> DEFINE x == conn[c]
<1>1. /\ DOMAIN conn = Conns /\ DOMAIN x = Fields /\ x.next \in Nat
      /\ x.pc = "none" => x = Absent
  BY DEF Inv, ConnInv, Typed, InTurn
<1>2. CASE ConnectSocket(c) \/ ConnectRequest(c)
  <2>1. x.pc = "none"
    BY <1>2 DEF ConnectSocket, ConnectRequest
  <2>2. x.kind = "none"
    BY <1>1, <2>1 DEF Absent
  <2> QED BY <2>2 DEF Moves
<1>3. CASE ClientSends(c)
  <2>1. x'.next = x.next /\ x'.hand = x.hand
    <3>1. PICK value \in Frames :
            conn' = [conn EXCEPT ![c].inbox = Append(@, value), ![c].frames = @ + 1]
      BY <1>3 DEF ClientSends
    <3>2. x' = [x EXCEPT !.inbox = Append(@, value), !.frames = @ + 1]
      BY <1>1, <3>1
    <3> QED BY <1>1, <3>2 DEF Fields, Absent
  <2> QED BY <1>1, <2>1, Stays
<1>4. CASE ClientReads(c)
  <2>1. x'.next = x.next /\ x'.hand = x.hand
    BY <1>1, <1>4 DEF ClientReads, Fields, Absent
  <2> QED BY <1>1, <2>1, Stays
<1>5. CASE ClientLeaves(c)
  <2>1. x'.next = x.next /\ x'.hand = x.hand
    BY <1>1, <1>5 DEF ClientLeaves, Fields, Absent
  <2> QED BY <1>1, <2>1, Stays
<1> QED BY <1>2, <1>3, <1>4, <1>5

\* A step of one connection leaves the others where they are.
LEMMA OthersStay ==
  ASSUME Inv, [Next]_vars
  PROVE  \A c \in Conns :
           \/ conn'[c] = conn[c]
           \/ Task(c) \/ ConnectSocket(c) \/ ConnectRequest(c)
           \/ ClientSends(c) \/ ClientReads(c) \/ ClientLeaves(c)
<1>1. ASSUME NEW d \in Conns, NEW c \in Conns, c # d,
             Task(d) \/ ConnectSocket(d) \/ ConnectRequest(d)
               \/ ClientSends(d) \/ ClientReads(d) \/ ClientLeaves(d)
      PROVE  conn'[c] = conn[c]
  <2> DOMAIN conn = Conns
    BY DEF Inv
  <2>1. CASE ConnectSocket(d)
    BY <1>1, <2>1 DEF ConnectSocket
  <2>2. CASE ConnectRequest(d)
    BY <1>1, <2>2 DEF ConnectRequest
  <2>3. CASE ClientSends(d)
    BY <1>1, <2>3 DEF ClientSends
  <2>4. CASE ClientReads(d)
    BY <1>1, <2>4 DEF ClientReads
  <2>5. CASE ClientLeaves(d)
    BY <1>1, <2>5 DEF ClientLeaves
  <2>6. CASE TakeFrame(d)
    BY <1>1, <2>6 DEF TakeFrame
  <2>7. CASE PassOver(d)
    BY <1>1, <2>7 DEF PassOver
  <2>8. CASE ServeCall(d)
    BY <1>1, <2>8 DEF ServeCall
  <2>9. CASE SendLifecycle(d)
    BY <1>1, <2>9 DEF SendLifecycle
  <2>10. CASE SendAnswer(d)
    BY <1>1, <2>10 DEF SendAnswer, Send
  <2>11. CASE SocketCloses(d)
    BY <1>1, <2>11 DEF SocketCloses
  <2>12. CASE ReceiveNote(d)
    BY <1>1, <2>12 DEF ReceiveNote, AfterOverrun, Take
  <2>13. CASE SendNote(d)
    BY <1>1, <2>13 DEF SendNote, Send
  <2> QED BY <1>1, <2>1, <2>2, <2>3, <2>4, <2>5, <2>6, <2>7, <2>8,
       <2>9, <2>10, <2>11, <2>12, <2>13 DEF Task
<1>2. ASSUME RecordEvent \/ SendProgress \/ StopAccepting \/ Exit \/ UNCHANGED vars
      PROVE  conn' = conn
  BY <1>2 DEF RecordEvent, SendProgress, StopAccepting, Exit, vars
<1> QED BY <1>1, <1>2 DEF Next, Conns

LEMMA StepMoves ==
  ASSUME Inv, [Next]_vars, NEW c \in Conns
  PROVE  Moves(conn[c], conn'[c])
<1>1. conn[c].next \in Nat
  BY DEF Inv, ConnInv, Typed
<1>2. CASE conn'[c] = conn[c]
  BY <1>1, <1>2, Stays
<1> QED BY <1>2, OthersStay, TaskMoves, ClientMoves

\* Whatever the capacity and however fast events come, a websocket client is told every
\* notification once and in order, but for those that the channel has overwritten when its
\* task falls behind (handle_websocket, broadcast::channel).
THEOREM OnlyOverrunIsMissed == Spec => MissedByOverrunOnly
<1> DEFINE Action == \A c \in Sockets : Moves(conn[c], conn'[c])
<1>1. Inv /\ [Next]_vars => Action
  BY StepMoves DEF Conns
<1>2. Action => \A c \in Sockets :
       LET x == conn[c]
           y == conn'[c]
       IN x.kind = "socket" =>
            /\ y.next >= x.next
            /\ \A n \in x.next .. (y.next - 1) : n = y.hand \/ n + Capacity <= Len(bus)
            /\ y.next > x.next => x.hand = 0
            /\ x.hand # 0 /\ y.hand # x.hand =>
                 y.hand = 0 /\ y.sent = Append(x.sent, [answer |-> FALSE, index |-> x.hand])
  BY DEF Moves
<1> HIDE DEF Action
<1> QED BY <1>1, <1>2, InvHolds, PTL DEF Spec, MissedByOverrunOnly
=============================================================================
