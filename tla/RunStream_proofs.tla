--------------------------- MODULE RunStream_proofs ---------------------------
(***************************************************************************)
(* The screen follows the run, for any items, limits and bounds: nothing    *)
(* strands, no text is missing, what is shown when all is quiet is what the *)
(* server has, and nothing shown goes back.                                 *)
(*                                                                         *)
(* A step of the server is classified by what it does to the queue of       *)
(* messages (Served): it leaves it alone, changes a row, cuts it, pushes an *)
(* update, publishes one after a row, or fills the slot of a snapshot.  A   *)
(* step of the client takes the head (Taken), and message k + 1 becomes     *)
(* message k.  Replayed is a function over a queue, and what holds of its   *)
(* last value is proved with the induction over a set in SetInduction.      *)
(***************************************************************************)
EXTENDS RunStream, WellFoundedInduction, SequenceTheorems, TLAPS

\* Induction over an initial segment of the naturals, for a set.
LEMMA SetInduction ==
    ASSUME NEW N \in Nat, NEW S, 0 \in S,
           \A n \in 0..N : n \in S /\ n + 1 \in 0..N => n + 1 \in S
    PROVE  \A n \in 0..N : n \in S
<1> DEFINE T == {n \in 0..N : n \notin S}
<1> SUFFICES ASSUME T # {} PROVE FALSE
  OBVIOUS
<1>1. T \subseteq Nat
  OBVIOUS
<1>2. PICK x \in T : \A y \in T : <<y, x>> \notin OpToRel(<, Nat)
  <2> HIDE DEF T
  <2> QED
    BY <1>1, NatLessThanWellFounded, WFMin
<1>3. x \in 0..N /\ x # 0 /\ x - 1 \in 0..N
  OBVIOUS
<1>4. x - 1 \in T
  BY <1>3
<1>5. <<x - 1, x>> \in OpToRel(<, Nat)
  BY <1>3 DEF OpToRel
<1> QED
  BY <1>2, <1>4, <1>5

\* Replaying is what its recursion says.
LEMMA ReplayedDef ==
    ASSUME NEW a, NEW q, Len(q) \in Nat
    PROVE  /\ Replayed(a, q)[0] = a
           /\ \A n \in 1..Len(q) : Replayed(a, q)[n] = Replay(Replayed(a, q)[n - 1], q[n])
<1> DEFINE G(f, N) == [n \in 0..N |-> IF n = 0 THEN a ELSE Replay(f[n - 1], q[n])]
<1> DEFINE S == {N \in 0..Len(q) : \E f : f = G(f, N)}
<1> HIDE DEF G
<1>1. 0 \in S
  <2>1. [n \in 0..0 |-> a] = G([n \in 0..0 |-> a], 0)
    BY DEF G
  <2> QED
    BY <2>1
<1>2. ASSUME NEW N \in 0..Len(q), N \in S, N + 1 \in 0..Len(q)
      PROVE  N + 1 \in S
  <2>1. PICK f : f = G(f, N)
    BY <1>2
  <2> DEFINE g == [n \in 0..(N + 1) |-> IF n \in 0..N THEN f[n] ELSE Replay(f[N], q[N + 1])]
  <2>2. \A n \in 0..N : f[n] = IF n = 0 THEN a ELSE Replay(f[n - 1], q[n])
    BY <2>1 DEF G
  <2>3. \A n \in 0..(N + 1) : g[n] = IF n = 0 THEN a ELSE Replay(g[n - 1], q[n])
    <3> TAKE n \in 0..(N + 1)
    <3>1. CASE n = 0
      BY <2>2, <3>1
    <3>2. CASE n \in 1..N
      BY <2>2, <3>2
    <3>3. CASE n = N + 1
      BY <3>3
    <3> QED
      BY <3>1, <3>2, <3>3
  <2>4. g = G(g, N + 1)
    BY <2>3 DEF G
  <2> HIDE DEF g
  <2> QED
    BY <1>2, <2>4
<1> HIDE DEF S
<1>3. \A n \in 0..Len(q) : n \in S
  BY <1>1, <1>2, SetInduction
<1>4. \E f : f = G(f, Len(q))
  BY <1>3 DEF S
<1>5. Replayed(a, q) = G(Replayed(a, q), Len(q))
  BY <1>4 DEF Replayed, G
<1>6. \A n \in 0..Len(q) : Replayed(a, q)[n] = IF n = 0 THEN a ELSE Replay(Replayed(a, q)[n - 1], q[n])
  BY <1>5 DEF G
<1> QED
  BY <1>6

-----------------------------------------------------------------------------
(* The operators of the model                                               *)

Lives    == [on : BOOLEAN, id : Nat, items : Contents]
Views    == [stream : Streams, items : Contents, run : Runs \cup {"none"}]
Captures == [phase : {"idle", "cloned", "read"}, stream : Streams, items : Contents,
             run : Runs \cup {"none"}]
Wired    == Updates \cup Snapshots \cup Words
Waiting  == Updates \cup Slots

\* A nonempty set of numbers has a least one.
LEMMA MinOfNats ==
    ASSUME NEW S, S \subseteq Nat, S # {}
    PROVE  Min(S) \in S /\ \A y \in S : Min(S) <= y
<1>1. PICK x \in S : \A y \in S : <<y, x>> \notin OpToRel(<, Nat)
  BY NatLessThanWellFounded, WFMin
<1>2. ASSUME NEW y \in S, y < x
      PROVE  FALSE
  <2>1. <<y, x>> \in OpToRel(<, Nat)
    BY <1>2 DEF OpToRel
  <2> QED
    BY <1>1, <2>1
<1>3. \A y \in S : x <= y
  BY <1>2
<1> QED
  BY <1>3 DEF Min

\* What leaves the FIFO is what stands before the first reserved slot.
LEMMA DrainedDef ==
    ASSUME NEW T, NEW q \in Seq(T)
    PROVE  \E n \in 0..Len(q) :
              /\ Drained(q) = [out |-> SubSeq(q, 1, n), left |-> SubSeq(q, n + 1, Len(q))]
              /\ \A k \in 1..n : q[k].kind # "reserved"
              /\ n < Len(q) => q[n + 1].kind = "reserved"
<1> DEFINE B == {k \in DOMAIN q : q[k].kind = "reserved"}
<1> DEFINE n == IF B = {} THEN Len(q) ELSE Min(B) - 1
<1>1. Drained(q) = [out |-> SubSeq(q, 1, n), left |-> SubSeq(q, n + 1, Len(q))]
  BY DEF Drained
<1>2. B # {} => Min(B) \in B /\ \A y \in B : Min(B) <= y
  <2>1. B \subseteq Nat
    OBVIOUS
  <2> HIDE DEF B
  <2> QED
    BY <2>1, MinOfNats
<1>3. /\ n \in 0..Len(q)
      /\ \A k \in 1..n : q[k].kind # "reserved"
      /\ n < Len(q) => q[n + 1].kind = "reserved"
  <2>1. CASE B = {}
    BY <2>1
  <2>2. CASE B # {}
    <3> HIDE DEF B
    <3>1. Min(B) \in B /\ (\A y \in B : Min(B) <= y) /\ n = Min(B) - 1
      BY <1>2, <2>2
    <3> HIDE DEF n
    <3>2. Min(B) \in Nat \ {0}
      BY <3>1 DEF B
    <3>3. n \in Nat /\ n + 1 \in B /\ \A y \in B : n + 1 <= y
      BY <3>1, <3>2
    <3>4. n + 1 \in 1..Len(q) /\ q[n + 1].kind = "reserved"
      BY <3>3 DEF B
    <3>5. ASSUME NEW k \in 1..n, q[k].kind = "reserved"
          PROVE  FALSE
      <4>1. k \in B
        BY <3>3, <3>4, <3>5 DEF B
      <4> QED
        BY <3>3, <4>1
    <3> QED
      BY <3>3, <3>4, <3>5
  <2> QED
    BY <2>1, <2>2
<1> HIDE DEF n
<1> QED
  BY <1>1, <1>3

\* The kind of a message says what it is made of.
LEMMA Kinds ==
    /\ \A m \in Updates : m.kind \in {"item", "delta"}
    /\ \A m \in Snapshots : m.kind \in {"snapshot", "answer"}
    /\ \A m \in Words : m.kind \in {"connected", "failure"}
    /\ \A m \in Slots : m.kind = "reserved"
BY DEF Updates, Snapshots, Words, Slots

\* So a message of some kind has the fields of its kind.
LEMMA WiredKinds ==
    ASSUME NEW m \in Wired
    PROVE  /\ m.kind \in {"item", "delta"} => m \in Updates
           /\ m.kind \in {"snapshot", "answer"} => m \in Snapshots
           /\ m.kind \in {"connected", "failure"} => m \in Words
           /\ m.kind # "reserved"
BY Kinds DEF Wired

\* The same of what waits in a slot.
LEMMA WaitingKinds ==
    ASSUME NEW m \in Waiting
    PROVE  /\ m.kind \in {"item", "delta", "reserved"}
           /\ m.kind # "reserved" => m \in Updates
           /\ m.kind = "reserved" => m \in Slots
BY Kinds DEF Waiting

\* The fields of an update.
LEMMA UpdateFields ==
    ASSUME NEW u \in Updates
    PROVE  /\ u.kind \in {"item", "delta"} /\ u.stream \in Streams
           /\ u.item \in Items /\ u.at \in Cursor
           /\ u.at.seq \in Nat /\ u.at.st \in States /\ u.at.len \in Nat
           /\ u.kind = "item" => Valid(u.item, u.at) /\ Known(u.at)
           /\ u.kind = "delta" => u.item \in Messages /\ u.at.seq = u.at.len + 1
           /\ "stream" \in DOMAIN u
BY DEF Updates, Cursor

\* The fields of a snapshot.
LEMMA SnapshotFields ==
    ASSUME NEW s \in Snapshots
    PROVE  /\ s.kind \in {"snapshot", "answer"} /\ s.stream \in Streams
           /\ s.items \in Contents /\ s.run \in Runs
           /\ "stream" \in DOMAIN s
BY DEF Snapshots

\* The other words have no stream.
LEMMA WordFields ==
    ASSUME NEW w \in Words \cup Slots
    PROVE  "stream" \notin DOMAIN w
BY DEF Words, Slots

\* Contents are a valid cursor for each item.
LEMMA ContentsFields ==
    ASSUME NEW f \in Contents, NEW i \in Items
    PROVE  /\ f[i] \in Cursor /\ Valid(i, f[i]) /\ f \in [Items -> Cursor]
           /\ f[i].seq \in Nat /\ f[i].st \in States /\ f[i].len \in Nat
BY DEF Contents, Cursor

\* Contents change item by item.
LEMMA ContentsExcept ==
    ASSUME NEW f \in Contents, NEW i \in Items, NEW c \in Cursor, Valid(i, c)
    PROVE  [f EXCEPT ![i] = c] \in Contents
BY DEF Contents

\* A cursor is its three fields.
LEMMA CursorIs ==
    ASSUME NEW n \in Nat, NEW s \in States, NEW l \in Nat
    PROVE  /\ At(n, s, l) \in Cursor
           /\ At(n, s, l).seq = n /\ At(n, s, l).st = s /\ At(n, s, l).len = l
BY DEF At, Cursor

\* Nothing is known of no item.
LEMMA NoItemsType == /\ NoItems \in Contents /\ Nothing \in Cursor /\ ~Known(Nothing)
                     /\ \A i \in Items : NoItems[i] = Nothing
BY DEF NoItems, Contents, Nothing, At, Cursor, States, Valid, Known

\* A message is known once it runs, and every cursor that is known is valid.
LEMMA OpenedType ==
    ASSUME NEW l \in Lives
    PROVE  /\ Opened(l) \in Lives /\ Opened(l).on /\ l.id <= Opened(l).id
           /\ l.on => Opened(l) = l
           /\ ~l.on => Opened(l).items = NoItems /\ Opened(l).id = l.id + 1
BY NoItemsType DEF Opened, Lives

\* A clone is a capture that waits for the rows.
LEMMA CloneType ==
    ASSUME NEW l \in Lives, NEW t \in Nat
    PROVE  /\ Clone(l, t) \in Captures /\ Clone(l, t).phase = "cloned"
           /\ Clone(l, t) # Idle
           /\ Clone(l, t).stream = IF l.on THEN <<"live", l.id>> ELSE <<"snapshot", t>>
           /\ Clone(l, t).items = IF l.on THEN l.items ELSE NoItems
BY NoItemsType DEF Clone, Lives, Captures, Streams, Idle, Runs

\* So is one that needs the stream.
LEMMA NeededType ==
    ASSUME NEW l \in Lives, NEW s
    PROVE  /\ Needed(l, s) \in Lives /\ l.id <= Needed(l, s).id
           /\ l.on => Needed(l, s) = l
           /\ s = "ended" => Needed(l, s) = l
           /\ s # "ended" => Needed(l, s).on
           /\ Needed(l, s).items # l.items => Needed(l, s).items = NoItems
BY OpenedType DEF Needed, Lives

\* Merging keeps to contents.
LEMMA MergedType ==
    ASSUME NEW c \in Contents, NEW r \in Contents
    PROVE  /\ Merged(c, r) \in Contents
           /\ \A i \in Items : Merged(c, r)[i] = IF Known(c[i]) THEN c[i] ELSE r[i]
BY DEF Merged, Contents

-----------------------------------------------------------------------------
(* RunStreamProjection                                                      *)

\* What applying an update does to the view: nothing, or one item moves on.
LEMMA AppliedType ==
    ASSUME NEW v \in Views, NEW u \in Updates
    PROVE  /\ Applied(v, u) \in Views
           /\ Applied(v, u).stream = v.stream /\ Applied(v, u).run = v.run
           /\ Applied(v, u) # v => Result(v, u) = "applied"
           /\ Result(v, u) = "applied" =>
                 /\ u.stream = v.stream
                 /\ Applied(v, u).items = [v.items EXCEPT ![u.item] = Claim(u)]
                 /\ v.items[u.item].seq < u.at.seq \/ ~Known(v.items[u.item])
                 /\ u.kind = "delta" => v.items[u.item].st = "running"
                 /\ Claim(u) \in Cursor /\ Known(Claim(u)) /\ Valid(u.item, Claim(u))
<1> DEFINE i == u.item
<1> DEFINE c == v.items[i]
<1>1. /\ v.items \in Contents /\ v.stream \in Streams /\ v.run \in Runs \cup {"none"}
      /\ i \in Items
  BY UpdateFields DEF Views
<1>2. /\ c \in Cursor /\ c.seq \in Nat /\ c.st \in States /\ c.len \in Nat
      /\ Valid(i, c) /\ u.at \in Cursor /\ u.at.seq \in Nat /\ u.at.len \in Nat
      /\ u.kind \in {"item", "delta"}
  BY <1>1, ContentsFields, UpdateFields
<1>3. CASE Result(v, u) # "applied"
  BY <1>3 DEF Applied
<1>4. CASE Result(v, u) = "applied" /\ u.kind = "item"
  <2>1. UpsertResult(c, u.at) = "applied" /\ u.stream = v.stream
    BY <1>4 DEF Result
  <2>2. c.seq < u.at.seq \/ ~Known(c)
    BY <1>2, <2>1 DEF UpsertResult
  <2>3. Claim(u) = u.at /\ Valid(i, u.at) /\ Known(u.at)
    BY <1>4, UpdateFields DEF Claim
  <2>4. Applied(v, u) = [v EXCEPT !.items = [v.items EXCEPT ![i] = u.at]]
    BY <1>1, <1>4 DEF Applied, Views
  <2>5. [v.items EXCEPT ![i] = u.at] \in Contents
    BY <1>1, <1>2, <2>3, ContentsExcept
  <2> QED
    BY <1>1, <1>2, <1>4, <2>1, <2>2, <2>3, <2>4, <2>5 DEF Views
<1>5. CASE Result(v, u) = "applied" /\ u.kind = "delta"
  <2>1. DeltaResult(c, u.at) = "applied" /\ u.stream = v.stream
    BY <1>5 DEF Result
  <2>2. Known(c) /\ c.st = "running" /\ u.at.seq = c.seq + 1 /\ u.at.len = c.len
    BY <1>2, <2>1 DEF DeltaResult
  <2>3. i \in Messages /\ u.at.seq = u.at.len + 1
    BY <1>5, UpdateFields
  <2>4. /\ Claim(u) = At(u.at.seq, "running", u.at.len + 1)
        /\ Claim(u) \in Cursor /\ Known(Claim(u)) /\ Valid(i, Claim(u))
    <3>1. "running" \in States /\ u.at.len + 1 \in Nat
      BY <1>2 DEF States
    <3>2. Claim(u) = At(u.at.seq, "running", u.at.len + 1)
      BY <1>5 DEF Claim
    <3> QED
      BY <1>2, <2>3, <3>1, <3>2, CursorIs DEF Known, Valid
  <2>5. Applied(v, u) = [v EXCEPT !.items = [v.items EXCEPT ![i] = Claim(u)]]
    <3>1. Applied(v, u) = [v EXCEPT !.items[u.item] = At(u.at.seq, @.st, @.len + 1)]
      BY <1>5 DEF Applied
    <3>2. At(u.at.seq, c.st, c.len + 1) = Claim(u)
      BY <2>2, <2>4
    <3> QED
      BY <1>1, <3>1, <3>2 DEF Views
  <2>6. [v.items EXCEPT ![i] = Claim(u)] \in Contents
    BY <1>1, <2>4, ContentsExcept
  <2>7. c.seq < u.at.seq
    BY <1>2, <2>2
  <2> QED
    BY <1>1, <1>2, <1>5, <2>1, <2>2, <2>4, <2>5, <2>6, <2>7 DEF Views
<1> QED
  BY <1>2, <1>3, <1>4, <1>5

\* w is what v was, or further on in the same stream.
Further(v, w) ==
    /\ v.stream = w.stream
    /\ \A i \in Items : Known(v.items[i]) =>
          Known(w.items[i]) /\ w.items[i].seq >= v.items[i].seq

\* An update never takes the view back.
LEMMA AppliedFurther ==
    ASSUME NEW v \in Views, NEW u \in Updates
    PROVE  Further(v, Applied(v, u))
<1>1. v.items \in Contents /\ u.item \in Items
  BY UpdateFields DEF Views
<1>2. /\ v.items \in [Items -> Cursor] /\ u.at.seq \in Nat
      /\ \A i \in Items : v.items[i].seq \in Nat
  BY <1>1, ContentsFields, UpdateFields DEF Contents
<1>3. CASE Result(v, u) # "applied"
  BY <1>2, <1>3 DEF Further, Applied
<1>4. CASE Result(v, u) = "applied"
  <2>1. /\ Applied(v, u).stream = v.stream
        /\ Applied(v, u).items = [v.items EXCEPT ![u.item] = Claim(u)]
        /\ v.items[u.item].seq < u.at.seq \/ ~Known(v.items[u.item])
        /\ Known(Claim(u))
    BY <1>4, AppliedType
  <2>2. Claim(u).seq = u.at.seq
    BY UpdateFields, CursorIs DEF Claim, States
  <2>3. ASSUME NEW i \in Items, Known(v.items[i])
        PROVE  /\ Known(Applied(v, u).items[i])
               /\ Applied(v, u).items[i].seq >= v.items[i].seq
    <3>1. CASE i = u.item
      BY <1>2, <2>1, <2>2, <2>3, <3>1
    <3>2. CASE i # u.item
      BY <1>2, <2>1, <2>3, <3>2
    <3> QED
      BY <3>1, <3>2
  <2> QED
    BY <2>1, <2>3 DEF Further
<1> QED
  BY <1>3, <1>4

\* Further is an order.
LEMMA FurtherOrder ==
    /\ \A v \in Views : Further(v, v)
    /\ \A u, v, w \in Views : Further(u, v) /\ Further(v, w) => Further(u, w)
<1>1. \A v \in Views : v.items \in Contents
  BY DEF Views
<1>2. \A v \in Views : \A i \in Items : v.items[i].seq \in Nat
  BY <1>1, ContentsFields
<1> QED
  BY <1>2 DEF Further

\* Whatever is buffered, replaying it never takes the view back.
LEMMA ReplayedFurther ==
    ASSUME NEW v \in Views, NEW ok \in BOOLEAN, NEW q \in Seq(Updates)
    PROVE  \A n \in 0..Len(q) :
              LET r == Replayed([view |-> v, ok |-> ok], q)[n]
              IN  /\ r \in [view : Views, ok : BOOLEAN] /\ Further(v, r.view)
                  /\ r.view.run = v.run
<1> DEFINE a == [view |-> v, ok |-> ok]
<1> DEFINE R == [view : {w \in Views : Further(v, w) /\ w.run = v.run}, ok : BOOLEAN]
<1> DEFINE S == {n \in 0..Len(q) : Replayed(a, q)[n] \in R}
<1>1. /\ Replayed(a, q)[0] = a
      /\ \A n \in 1..Len(q) : Replayed(a, q)[n] = Replay(Replayed(a, q)[n - 1], q[n])
  BY ReplayedDef
<1>2. 0 \in S
  BY <1>1, FurtherOrder
<1>3. ASSUME NEW n \in 0..Len(q), n \in S, n + 1 \in 0..Len(q)
      PROVE  n + 1 \in S
  <2> DEFINE r == Replayed(a, q)[n]
  <2>1. r \in R /\ r.view \in Views /\ Further(v, r.view) /\ r.view.run = v.run /\ r.ok \in BOOLEAN
    BY <1>3
  <2>2. q[n + 1] \in Updates /\ n + 1 \in 1..Len(q)
    BY <1>3
  <2>3. Replayed(a, q)[n + 1] = Replay(r, q[n + 1])
    BY <1>1, <2>2
  <2> HIDE DEF r, a, S
  <2>4. /\ Applied(r.view, q[n + 1]) \in Views
        /\ Further(r.view, Applied(r.view, q[n + 1]))
        /\ Applied(r.view, q[n + 1]).run = v.run
    BY <2>1, <2>2, AppliedType, AppliedFurther
  <2>5. Further(v, Applied(r.view, q[n + 1]))
    BY <2>1, <2>4, FurtherOrder
  <2>6. Replay(r, q[n + 1]) \in R
    BY <2>1, <2>4, <2>5 DEF Replay
  <2> QED
    BY <1>3, <2>3, <2>6 DEF S
<1> HIDE DEF S
<1>4. \A n \in 0..Len(q) : n \in S
  BY <1>2, <1>3, SetInduction
<1> QED
  BY <1>4 DEF S

\* A snapshot of the same stream keeps what is further on.
LEMMA RebasedType ==
    ASSUME NEW v \in Views, NEW s \in Snapshots
    PROVE  /\ Rebased(v, s) \in Views
           /\ Rebased(v, s).stream = s.stream /\ Rebased(v, s).run = s.run
           /\ v.stream = s.stream => Further(v, Rebased(v, s))
<1>1. v.items \in Contents /\ s.items \in Contents
  BY SnapshotFields DEF Views
<1>2. \A i \in Items : v.items[i].seq \in Nat /\ s.items[i].seq \in Nat
  BY <1>1, ContentsFields
<1>3. Rebased(v, s).items \in Contents
  BY <1>1 DEF Rebased, Contents
<1> QED
  BY <1>1, <1>2, <1>3, SnapshotFields DEF Rebased, Views, Further, Keeps

\* So does accepting it, with what was buffered.
LEMMA AcceptType ==
    ASSUME TypeOK, NEW s \in Snapshots
    PROVE  /\ Accept(s) \in [view : Views, ok : BOOLEAN]
           /\ Accept(s).view.stream = s.stream /\ Accept(s).view.run = s.run
           /\ Further(Rebased(view, s), Accept(s).view)
           /\ view.stream = s.stream => Further(view, Accept(s).view)
<1> DEFINE ok == ~\E i \in Items : Clashes(view, s, i)
<1>1. view \in Views /\ pending \in Seq(Updates) /\ ok \in BOOLEAN /\ Len(pending) \in Nat
  BY DEF TypeOK, Views
<1>2. /\ Rebased(view, s) \in Views
      /\ Rebased(view, s).stream = s.stream /\ Rebased(view, s).run = s.run
      /\ view.stream = s.stream => Further(view, Rebased(view, s))
  BY <1>1, RebasedType
<1> HIDE DEF ok
<1>3. /\ Accept(s) = Replayed([view |-> Rebased(view, s), ok |-> ok], pending)[Len(pending)]
      /\ Len(pending) \in 0..Len(pending)
  BY <1>1 DEF Accept, ok
<1>4. /\ Accept(s) \in [view : Views, ok : BOOLEAN] /\ Further(Rebased(view, s), Accept(s).view)
      /\ Accept(s).view.run = s.run
  BY <1>1, <1>2, <1>3, ReplayedFurther
<1> QED
  BY <1>1, <1>2, <1>4, FurtherOrder DEF Further

\* Giving the snapshot up replays what was buffered.
LEMMA AbortType ==
    ASSUME TypeOK
    PROVE  /\ Abort \in [view : Views, ok : BOOLEAN]
           /\ Further(view, Abort.view) /\ Abort.view.run = view.run
<1>1. /\ view \in Views /\ pending \in Seq(Updates) /\ Len(pending) \in 0..Len(pending)
      /\ TRUE \in BOOLEAN
  BY DEF TypeOK, Views
<1> QED
  BY <1>1, ReplayedFurther DEF Abort

-----------------------------------------------------------------------------
(* The delivery FIFO                                                        *)

\* TypeOK by the parts of the system.
StoreTypes ==
    /\ status \in Runs /\ closed \in BOOLEAN /\ stamp \in Nat
    /\ rows \in Contents /\ due \in [Inputs -> BOOLEAN]
    /\ live \in Lives
    /\ op = NoOp \/ op \in [item : Messages, st : {"running", "completed"}, len : Nat]
DeliveryTypes ==
    /\ subscribed \in BOOLEAN /\ asked \in BOOLEAN /\ online \in BOOLEAN
    /\ slots \in Seq(Waiting) /\ capture \in Captures /\ wire \in Seq(Wired)
ClientTypes ==
    /\ view \in Views
    /\ ready \in BOOLEAN /\ pending \in Seq(Updates)
    /\ sync \in {"idle", "first", "second"} /\ fate \in {"fine", "failed", "torn"}

\* The parts make the whole.
LEMMA TypeParts ==
    TypeOK = (StoreTypes /\ DeliveryTypes /\ ClientTypes /\ swapped \in BOOLEAN /\ turns \in Nat)
BY DEF TypeOK, StoreTypes, DeliveryTypes, ClientTypes, Lives, Captures, Views, Waiting, Wired

\* The same after a step.
LEMMA TypePartsNext ==
    TypeOK' = (StoreTypes' /\ DeliveryTypes' /\ ClientTypes' /\ swapped' \in BOOLEAN
               /\ turns' \in Nat)
BY DEF TypeOK, StoreTypes, DeliveryTypes, ClientTypes, Lives, Captures, Views, Waiting, Wired

\* What the connection keeps to.
DeliveryOK ==
    /\ DeliveryTypes /\ NothingStrands
    /\ subscribed => online
    /\ capture.phase = "idle" => capture = Idle
    /\ capture.phase = "read" => capture.run \in Runs

\* An idle capture is one.
LEMMA IdleType == Idle \in Captures /\ Idle.phase = "idle"
BY NoItemsType DEF Idle, Captures, Streams

\* The end of a connection leaves the beginning of the wire, with the failure of a
\* request that has no answer.
LEMMA CutOffDef ==
    ASSUME DeliveryTypes, NEW n \in 0..Len(wire), CutOff(n)
    PROVE  /\ DeliveryOK' /\ subscribed' = FALSE /\ online' = FALSE /\ asked' = FALSE
           /\ slots' = <<>> /\ capture' = Idle
           /\ Len(wire') \in {n, n + 1}
           /\ \A k \in 1..Len(wire') : wire'[k] = IF k <= n THEN wire[k] ELSE Failure
<1> DEFINE a == SubSeq(wire, 1, n)
<1>1. wire \in Seq(Wired) /\ Len(wire) \in Nat /\ n \in Nat
  BY DEF DeliveryTypes
<1>2. /\ a \in Seq(Wired) /\ Len(a) = n
      /\ \A k \in 1..n : a[k] = wire[k]
  <2>1. \A k \in 1..n : wire[k] \in Wired
    BY <1>1
  <2> QED
    BY <1>1, <2>1, SubSeqProperties
<1>3. Failure \in Wired
  BY DEF Failure, Wired, Words
<1>4. wire' = a \/ wire' = Append(a, Failure)
  BY DEF CutOff
<1> HIDE DEF a
<1>5. /\ Append(a, Failure) \in Seq(Wired) /\ Len(Append(a, Failure)) = n + 1
      /\ \A k \in 1..n : Append(a, Failure)[k] = a[k]
      /\ Append(a, Failure)[n + 1] = Failure
  BY <1>2, <1>3, AppendProperties
<1>6. /\ wire' \in Seq(Wired) /\ Len(wire') \in {n, n + 1}
      /\ \A k \in 1..Len(wire') : wire'[k] = IF k <= n THEN wire[k] ELSE Failure
  <2>1. CASE wire' = a
    BY <1>1, <1>2, <2>1
  <2>2. CASE wire' = Append(a, Failure)
    <3>1. \A k \in 1..(n + 1) : k <= n \/ k = n + 1
      BY <1>1
    <3> QED
      BY <1>1, <1>2, <1>5, <2>2, <3>1
  <2> QED
    BY <1>4, <2>1, <2>2
<1>7. /\ subscribed' = FALSE /\ online' = FALSE /\ asked' = FALSE /\ slots' = <<>>
      /\ capture' = Idle
  BY DEF CutOff
<1>8. slots' \in Seq(Waiting)
  BY <1>7
<1> QED
  BY <1>6, <1>7, <1>8, IdleType DEF DeliveryOK, DeliveryTypes, NothingStrands

\* A push is dropped, ends the connection, or comes last.
LEMMA PushDef ==
    ASSUME DeliveryOK, NEW m \in Updates, Push(m)
    PROVE  /\ DeliveryOK'
           /\ \/ ~subscribed /\ UNCHANGED <<delivery, asked, online, wire>>
              \/ CutOff(Len(wire))
              \/ /\ subscribed /\ UNCHANGED <<subscribed, capture, asked, online>>
                 /\ slots = <<>> /\ UNCHANGED slots /\ wire' = Append(wire, m)
              \/ /\ subscribed /\ UNCHANGED <<subscribed, capture, asked, online>>
                 /\ slots # <<>> /\ UNCHANGED wire /\ slots' = Append(slots, m)
<1>1. m \in Wired /\ m \in Waiting
  BY DEF Wired, Waiting
<1>2. CASE ~subscribed
  BY <1>2 DEF Push, delivery, DeliveryOK, DeliveryTypes, NothingStrands
<1>3. CASE subscribed /\ Len(slots) >= MaxSlots
  <2>1. CutOff(Len(wire)) /\ Len(wire) \in 0..Len(wire)
    BY <1>3 DEF Push, DeliveryOK, DeliveryTypes
  <2> QED
    BY <2>1, CutOffDef DEF DeliveryOK
<1>4. CASE subscribed /\ ~(Len(slots) >= MaxSlots) /\ slots = <<>>
  <2>1. /\ wire' = Append(wire, m) /\ UNCHANGED slots
        /\ UNCHANGED <<subscribed, capture, asked, online>>
    BY <1>4 DEF Push
  <2> QED
    BY <1>1, <1>4, <2>1 DEF DeliveryOK, DeliveryTypes, NothingStrands
<1>5. CASE subscribed /\ ~(Len(slots) >= MaxSlots) /\ slots # <<>>
  <2>1. /\ slots' = Append(slots, m) /\ UNCHANGED wire
        /\ UNCHANGED <<subscribed, capture, asked, online>>
    BY <1>5 DEF Push
  <2>2. /\ slots' \in Seq(Waiting) /\ slots' # <<>> /\ Head(slots') = Head(slots)
    BY <1>1, <1>5, <2>1 DEF DeliveryOK, DeliveryTypes
  <2> QED
    BY <1>5, <2>1, <2>2 DEF DeliveryOK, DeliveryTypes, NothingStrands
<1> QED
  BY <1>2, <1>3, <1>4, <1>5 DEF DeliveryOK, DeliveryTypes

\* A reservation comes last; its capture starts when no other is under way.
LEMMA ReserveDef ==
    ASSUME DeliveryOK, NEW k \in BOOLEAN, NEW l \in Lives, NEW s, NEW t \in Nat,
           Reserve(k, l, s, t), subscribed' = TRUE, online' = TRUE, asked' \in BOOLEAN,
           UNCHANGED wire
    PROVE  /\ DeliveryOK' /\ live' \in Lives /\ slots' = Append(slots, Reserved(k))
           /\ IF slots = <<>>
              THEN live' = Needed(l, s) /\ capture' = Clone(live', t)
              ELSE live' = l /\ UNCHANGED capture
<1>1. Reserved(k) \in Waiting /\ Reserved(k).kind = "reserved"
  BY DEF Reserved, Waiting, Slots
<1>2. /\ slots' = Append(slots, Reserved(k)) /\ slots \in Seq(Waiting)
      /\ IF slots = <<>>
         THEN live' = Needed(l, s) /\ capture' = Clone(live', t)
         ELSE live' = l /\ UNCHANGED capture
  BY DEF Reserve, DeliveryOK, DeliveryTypes, NothingStrands
<1>3. /\ slots' \in Seq(Waiting) /\ slots' # <<>>
      /\ Head(slots') = IF slots = <<>> THEN Reserved(k) ELSE Head(slots)
  BY <1>1, <1>2
<1>4. CASE slots = <<>>
  <2>1. live' \in Lives /\ capture' = Clone(live', t)
    BY <1>2, <1>4, NeededType
  <2>2. capture' \in Captures /\ capture' # Idle /\ capture'.phase = "cloned"
    BY <2>1, CloneType
  <2> QED
    BY <1>1, <1>2, <1>3, <1>4, <2>1, <2>2 DEF DeliveryOK, DeliveryTypes, NothingStrands
<1>5. CASE slots # <<>>
  <2>1. capture # Idle /\ UNCHANGED capture /\ live' = l
    BY <1>2, <1>5 DEF DeliveryOK, NothingStrands
  <2> QED
    BY <1>1, <1>2, <1>3, <1>5, <2>1 DEF DeliveryOK, DeliveryTypes, NothingStrands
<1> QED
  BY <1>4, <1>5

\* A capture that ends puts m in its place, and what stood ready behind it follows.
LEMMA FillDef ==
    ASSUME DeliveryOK, live \in Lives, stamp \in Nat, stamp' = stamp, capture # Idle,
           NEW m \in Wired, Fill(m), UNCHANGED <<subscribed, online, asked>>
    PROVE  /\ DeliveryOK' /\ live' \in Lives
           /\ \E n \in 0..(Len(slots) - 1) :
                 /\ Len(wire') = Len(wire) + 1 + n /\ Len(slots') = Len(slots) - 1 - n
                 /\ \A k \in 1..Len(wire) : wire'[k] = wire[k]
                 /\ wire'[Len(wire) + 1] = m
                 /\ \A k \in 1..n : wire'[Len(wire) + 1 + k] = slots[k + 1]
                 /\ \A k \in 1..Len(slots') : slots'[k] = slots[n + 1 + k]
           /\ IF slots' = <<>> THEN capture' = Idle /\ live' = live
              ELSE live' = Needed(live, status) /\ capture' = Clone(live', stamp)
<1> DEFINE q == Tail(slots)
<1>1. /\ slots \in Seq(Waiting) /\ wire \in Seq(Wired) /\ slots # <<>> /\ Len(slots) \in Nat
      /\ Len(wire) \in Nat
  BY DEF DeliveryOK, DeliveryTypes, NothingStrands
<1>2. /\ q \in Seq(Waiting) /\ Len(q) = Len(slots) - 1 /\ Len(q) \in Nat
      /\ \A k \in 1..Len(q) : q[k] = slots[k + 1]
  BY <1>1, HeadTailProperties
<1>3. /\ wire' = wire \o <<m>> \o Drained(q).out /\ slots' = Drained(q).left
      /\ IF slots' = <<>> THEN capture' = Idle /\ live' = live
         ELSE live' = Needed(live, status) /\ capture' = Clone(live', stamp)
  BY DEF Fill
<1> HIDE DEF q
<1>4. PICK n \in 0..Len(q) :
         /\ Drained(q) = [out |-> SubSeq(q, 1, n), left |-> SubSeq(q, n + 1, Len(q))]
         /\ \A k \in 1..n : q[k].kind # "reserved"
         /\ n < Len(q) => q[n + 1].kind = "reserved"
  BY <1>2, DrainedDef
<1>5. /\ \A k \in 1..n : q[k] \in Wired
      /\ \A k \in (n + 1)..Len(q) : q[k] \in Waiting
  <2>1. \A k \in 1..Len(q) : q[k] \in Waiting
    BY <1>2
  <2>2. \A k \in 1..n : q[k] \in Waiting /\ q[k].kind # "reserved"
    BY <1>2, <1>4, <2>1
  <2> QED
    BY <1>2, <2>1, <2>2, WaitingKinds DEF Wired
<1> DEFINE o == SubSeq(q, 1, n)
<1>6. /\ o \in Seq(Wired) /\ Len(o) = n
      /\ \A k \in 1..n : o[k] = q[k]
  BY <1>2, <1>4, <1>5, SubSeqProperties
<1>7. /\ slots' \in Seq(Waiting) /\ Len(slots') = Len(q) - n
      /\ \A k \in 1..Len(slots') : slots'[k] = q[n + k]
  <2>1. slots' = SubSeq(q, n + 1, Len(q))
    BY <1>3, <1>4
  <2>2. /\ slots' \in Seq(Waiting)
        /\ Len(slots') = IF n + 1 <= Len(q) THEN Len(q) - (n + 1) + 1 ELSE 0
        /\ \A k \in 1..(Len(q) - (n + 1) + 1) : slots'[k] = q[(n + 1) + k - 1]
    BY <1>2, <1>4, <1>5, <2>1, SubSeqProperties
  <2>3. Len(slots') = Len(q) - n
    BY <1>2, <1>4, <2>2
  <2>4. \A k \in 1..Len(slots') : slots'[k] = q[n + k]
    BY <1>2, <1>4, <2>2, <2>3
  <2> QED
    BY <2>2, <2>3, <2>4
<1>8. wire' = wire \o <<m>> \o o
  BY <1>3, <1>4
<1> HIDE DEF o
<1> DEFINE w == wire \o <<m>>
<1>9. /\ w \in Seq(Wired) /\ Len(w) = Len(wire) + 1
      /\ \A k \in 1..Len(wire) : w[k] = wire[k]
      /\ w[Len(wire) + 1] = m
  BY <1>1
<1> HIDE DEF w
<1>10. /\ wire' \in Seq(Wired) /\ Len(wire') = Len(wire) + 1 + n
       /\ \A k \in 1..(Len(w) + n) : wire'[k] = IF k <= Len(w) THEN w[k] ELSE o[k - Len(w)]
  <2>1. wire' = w \o o
    BY <1>8 DEF w
  <2>2. /\ w \o o \in Seq(Wired) /\ Len(w \o o) = Len(w) + Len(o)
        /\ \A k \in 1..(Len(w) + Len(o)) :
              (w \o o)[k] = IF k <= Len(w) THEN w[k] ELSE o[k - Len(w)]
    BY <1>6, <1>9, ConcatProperties
  <2> QED
    BY <1>4, <1>6, <1>9, <2>1, <2>2
<1>11. /\ \A k \in 1..Len(wire) : wire'[k] = wire[k]
       /\ wire'[Len(wire) + 1] = m
       /\ \A k \in 1..n : wire'[Len(wire) + 1 + k] = slots[k + 1]
  <2>1. \A k \in 1..Len(wire) : wire'[k] = wire[k]
    BY <1>1, <1>4, <1>9, <1>10
  <2>2. wire'[Len(wire) + 1] = m
    BY <1>1, <1>4, <1>9, <1>10
  <2>3. ASSUME NEW k \in 1..n
        PROVE  wire'[Len(wire) + 1 + k] = slots[k + 1]
    <3>1. wire'[Len(wire) + 1 + k] = o[k]
      <4>1. /\ Len(w) + k \in 1..(Len(w) + n) /\ ~(Len(w) + k <= Len(w))
            /\ Len(w) + k = Len(wire) + 1 + k /\ (Len(w) + k) - Len(w) = k
        BY <1>1, <1>4, <1>9
      <4> QED
        BY <1>10, <4>1
    <3>2. o[k] = q[k] /\ q[k] = slots[k + 1]
      BY <1>2, <1>4, <1>6
    <3> QED
      BY <3>1, <3>2
  <2> QED
    BY <2>1, <2>2, <2>3
<1>12. \A k \in 1..Len(slots') : slots'[k] = slots[n + 1 + k]
  <2> TAKE k \in 1..Len(slots')
  <2>1. n + k \in 1..Len(q) /\ slots'[k] = q[n + k]
    <3>1. k \in 1..(Len(q) - n) /\ n \in 0..Len(q) /\ Len(q) \in Nat
      BY <1>2, <1>7
    <3> QED
      BY <1>7, <3>1
  <2>2. q[n + k] = slots[(n + k) + 1]
    BY <1>2, <2>1
  <2> QED
    BY <1>2, <1>4, <2>1, <2>2
<1>13. n \in 0..(Len(slots) - 1) /\ Len(slots') = Len(slots) - 1 - n
  BY <1>2, <1>4, <1>7
<1>14. slots' # <<>> => Head(slots').kind = "reserved"
  <2> SUFFICES ASSUME slots' # <<>> PROVE Head(slots').kind = "reserved"
    OBVIOUS
  <2>1. Len(slots') >= 1 /\ Head(slots') = slots'[1]
    BY <1>7
  <2>2. n < Len(q) /\ slots'[1] = q[n + 1]
    BY <1>2, <1>4, <1>7, <2>1
  <2> QED
    BY <1>4, <2>1, <2>2
<1>15. /\ live' \in Lives /\ capture' \in Captures
       /\ slots' = <<>> => capture' = Idle
       /\ slots' # <<>> => capture' # Idle /\ capture'.phase = "cloned"
  <2>1. CASE slots' = <<>>
    BY <1>3, <2>1, IdleType
  <2>2. CASE slots' # <<>>
    <3>1. live' \in Lives /\ capture' = Clone(live', stamp)
      BY <1>3, <2>2, NeededType
    <3> QED
      BY <2>2, <3>1, CloneType
  <2> QED
    BY <2>1, <2>2
<1>16. DeliveryOK'
  <2>1. subscribed
    BY <1>1 DEF DeliveryOK, NothingStrands
  <2> QED
    BY <1>7, <1>10, <1>14, <1>15, <2>1, IdleType DEF DeliveryOK, DeliveryTypes, NothingStrands
<1> QED
  BY <1>3, <1>10, <1>11, <1>12, <1>13, <1>15, <1>16

-----------------------------------------------------------------------------
(* The store                                                                *)

\* What a mutation of the store keeps to.
StoreKept ==
    /\ StoreTypes' /\ StoreInv' /\ DeliveryOK'
    /\ live.id <= live'.id /\ stamp <= stamp'

\* Nothing is known of a stream that is closed.
LEMMA LiveFields ==
    ASSUME StoreTypes, StoreInv, NEW i \in Items
    PROVE  /\ live.items \in Contents /\ live.items[i] \in Cursor /\ Valid(i, live.items[i])
           /\ live.items[i].seq \in Nat /\ live.items[i].st \in States
           /\ live.items[i].len \in Nat
           /\ rows[i] \in Cursor /\ Valid(i, rows[i]) /\ rows[i].st \in States
           /\ rows[i].len \in Nat /\ rows[i].seq = 0
           /\ Known(live.items[i]) => live.on /\ Known(rows[i])
           /\ live.on \in BOOLEAN /\ live.id \in Nat
<1>1. live.items \in Contents /\ rows \in Contents /\ live.on \in BOOLEAN /\ live.id \in Nat
  BY DEF StoreTypes, Lives
<1>2. Known(live.items[i]) => live.on /\ Known(rows[i])
  BY NoItemsType DEF StoreInv
<1> QED
  BY <1>1, <1>2, ContentsFields DEF StoreInv

\* Only what is known, and has a row, is shown.
LEMMA ProjectDef ==
    ASSUME StoreTypes, StoreInv, DeliveryOK, status = "active",
           NEW i \in Items, NEW s \in States, NEW l \in Nat, Known(rows[i]), s # "none",
           LET c == Advance(Opened(live).items[i], s, l) IN Valid(i, c),
           Project(i, s, l)
    PROVE  LET now == Advance(Opened(live).items[i], s, l)
               m   == [kind |-> "item", stream |-> <<"live", Opened(live).id>>,
                       item |-> i, at |-> now]
           IN  /\ now \in Cursor /\ Known(now) /\ now.st = s /\ now.len = l
               /\ now.seq = IF Known(Opened(live).items[i])
                            THEN Opened(live).items[i].seq + 1 ELSE 0
               /\ m \in Updates /\ Push(m)
               /\ live' = [Opened(live) EXCEPT !.items = [Opened(live).items EXCEPT ![i] = now]]
               /\ live' \in Lives /\ live.id <= live'.id /\ live'.on
               /\ live'.items = [Opened(live).items EXCEPT ![i] = now]
               /\ live'.id = Opened(live).id
               /\ \A j \in Items : Known(live'.items[j]) => Known(rows[j])
               /\ DeliveryOK'
<1> DEFINE stream == Opened(live)
           c == stream.items[i]
           now == Advance(c, s, l)
           m == [kind |-> "item", stream |-> <<"live", stream.id>>, item |-> i, at |-> now]
<1>1. stream \in Lives /\ live.id <= stream.id /\ stream.on
  BY OpenedType DEF StoreTypes
<1>2. stream.items \in Contents /\ c \in Cursor /\ c.seq \in Nat /\ stream.id \in Nat
  BY <1>1, ContentsFields DEF Lives
<1>3. /\ now \in Cursor /\ now.st = s /\ now.len = l
      /\ now.seq = IF Known(c) THEN c.seq + 1 ELSE 0
  BY <1>2, CursorIs DEF Advance
<1>4. Valid(i, now) /\ Known(now)
  BY <1>3 DEF Known
<1>5. m \in Updates
  BY <1>2, <1>3, <1>4 DEF Updates, Streams
<1>6. /\ live' = [stream EXCEPT !.items[i] = now] /\ Push(m)
  BY DEF Project
<1> HIDE DEF m, now, c
<1>7. [stream.items EXCEPT ![i] = now] \in Contents
  BY <1>2, <1>3, <1>4, ContentsExcept
<1>8. live' = [stream EXCEPT !.items = [stream.items EXCEPT ![i] = now]]
  BY <1>1, <1>6 DEF Lives
<1>9. /\ live' \in Lives /\ live'.id = stream.id /\ live'.on
      /\ live'.items = [stream.items EXCEPT ![i] = now]
  BY <1>1, <1>7, <1>8 DEF Lives
<1>10. \A j \in Items : Known(live'.items[j]) => Known(rows[j])
  <2> TAKE j \in Items
  <2>1. Known(stream.items[j]) => Known(rows[j])
    <3>1. live \in Lives
      BY DEF StoreTypes
    <3>2. stream.items = live.items \/ stream.items = NoItems
      BY <3>1, OpenedType DEF Lives
    <3> QED
      BY <3>2, LiveFields, NoItemsType
  <2>2. stream.items \in [Items -> Cursor]
    BY <1>2 DEF Contents
  <2> QED
    BY <1>9, <2>1, <2>2
<1>11. DeliveryOK'
  BY <1>5, <1>6, PushDef
<1> QED
  BY <1>1, <1>3, <1>4, <1>5, <1>6, <1>8, <1>9, <1>10, <1>11 DEF m, now, c

\* A row is written before its item changes.
LEMMA WriteMessageKept ==
    ASSUME StoreTypes, StoreInv, DeliveryOK, NEW i \in Messages, WriteMessage(i)
    PROVE  /\ StoreKept /\ live' = live /\ stamp' = stamp
           /\ rows' = [rows EXCEPT ![i] = rows'[i]] /\ rows'[i].seq = 0 /\ Known(rows'[i])
           /\ op' # NoOp /\ op'.item = i
<1>1. i \in Items /\ ~(i \in Inputs) /\ rows \in Contents /\ rows \in [Items -> Cursor]
  BY RunStreamConstants DEF Items, StoreTypes, Contents
<1>2. /\ op' \in [item : Messages, st : {"running", "completed"}, len : Nat]
      /\ op'.item = i /\ op' # NoOp
      /\ op'.st = "running" => op'.len = 0 /\ ~Known(live.items[i])
  <2>1. CASE ~Known(rows[i]) /\ op' = [item |-> i, st |-> "running", len |-> 0]
    BY <1>1, <2>1, LiveFields DEF NoOp
  <2>2. CASE op' = [item |-> i, st |-> "completed", len |-> live.items[i].len]
    BY <1>1, <2>2, LiveFields DEF NoOp
  <2> QED
    BY <2>1, <2>2 DEF WriteMessage
<1> DEFINE r == At(0, op'.st, op'.len)
<1>3. rows' = [rows EXCEPT ![i] = r]
  BY DEF WriteMessage
<1>4. /\ r \in Cursor /\ r.seq = 0 /\ r.st = op'.st /\ r.len = op'.len
      /\ Known(r) /\ Valid(i, r)
  <2>1. op'.st \in {"running", "completed"} /\ op'.len \in Nat /\ op'.st \in States
    BY <1>2 DEF States
  <2>2. /\ r \in Cursor /\ r.seq = 0 /\ r.st = op'.st /\ r.len = op'.len
    BY <2>1, CursorIs
  <2> HIDE DEF r
  <2> QED
    BY <1>2, <2>1, <2>2 DEF Known, Valid
<1> HIDE DEF r
<1>5. rows' \in Contents /\ rows'[i] = r /\ \A j \in Items : j # i => rows'[j] = rows[j]
  BY <1>1, <1>3, <1>4, ContentsExcept
<1>6. /\ status = "active" /\ ~closed
      /\ UNCHANGED <<status, closed, stamp, live, due, delivery, asked, online, wire>>
  BY DEF WriteMessage
<1>7. StoreTypes'
  BY <1>2, <1>5, <1>6 DEF StoreTypes
<1>8. StoreInv'
  <2>1. \A j \in Items : Known(rows[j]) => Known(rows'[j])
    BY <1>4, <1>5
  <2>2. \A j \in Items : rows'[j].seq = 0
    BY <1>4, <1>5 DEF StoreInv
  <2>3. \A j \in Inputs : j \in Items
    BY DEF Items
  <2>4. Known(rows'[op'.item])
    BY <1>2, <1>4, <1>5
  <2> QED
    BY <1>2, <1>6, <2>1, <2>2, <2>3, <2>4 DEF StoreInv
<1>9. DeliveryOK'
  BY <1>6 DEF DeliveryOK, DeliveryTypes, NothingStrands, delivery
<1>10. live.id \in Nat /\ stamp \in Nat
  BY DEF StoreTypes, Lives
<1>11. StoreKept
  BY <1>6, <1>7, <1>8, <1>9, <1>10 DEF StoreKept
<1> QED
  BY <1>2, <1>3, <1>4, <1>5, <1>6, <1>11

\* The ledger moves a steering message, and its projection is due.
LEMMA StoreInputKept ==
    ASSUME StoreTypes, StoreInv, DeliveryOK, NEW i \in Inputs, StoreInput(i)
    PROVE  /\ StoreKept /\ live' = live /\ stamp' = stamp
           /\ rows' = [rows EXCEPT ![i] = rows'[i]] /\ rows'[i].seq = 0 /\ Known(rows'[i])
           /\ due'[i] /\ ~closed
<1>1. i \in Items /\ ~(i \in Messages) /\ rows \in Contents /\ rows \in [Items -> Cursor]
      /\ due \in [Inputs -> BOOLEAN]
  BY RunStreamConstants DEF Items, StoreTypes, Contents
<1>2. /\ rows[i] \in [seq : Nat, st : States, len : Nat] /\ Valid(i, rows[i]) /\ rows[i].seq = 0
  BY <1>1, LiveFields DEF Cursor
<1> DEFINE r == [rows[i] EXCEPT !.st = InputMoves[rows[i].st]]
<1>3. /\ rows' = [rows EXCEPT ![i] = r] /\ due' = [due EXCEPT ![i] = TRUE]
      /\ rows[i].st \in DOMAIN InputMoves /\ status = "active" /\ closed' = closed
  BY <1>1, <1>2 DEF StoreInput
<1>4. /\ InputMoves[rows[i].st] \in {"queued", "leased", "acked"}
  BY <1>3 DEF InputMoves
<1>5. /\ r.st = InputMoves[rows[i].st] /\ r.seq = 0 /\ r.len = 0
      /\ r \in Cursor
  BY <1>1, <1>2, <1>4 DEF Valid, Nothing, At, Cursor, States
<1>6. Known(r) /\ Valid(i, r)
  BY <1>1, <1>4, <1>5 DEF Known, Valid
<1> HIDE DEF r
<1>7. rows' \in Contents /\ rows'[i] = r /\ \A j \in Items : j # i => rows'[j] = rows[j]
  BY <1>1, <1>3, <1>5, <1>6, ContentsExcept
<1>8. /\ due' \in [Inputs -> BOOLEAN] /\ due'[i]
      /\ \A j \in Inputs : j # i => due'[j] = due[j]
      /\ UNCHANGED <<status, closed, stamp, live, op, delivery, asked, online, wire>>
  BY <1>1, <1>3 DEF StoreInput
<1>9. StoreTypes'
  BY <1>7, <1>8 DEF StoreTypes
<1>10. ~closed
  BY <1>3 DEF StoreInv
<1>11. StoreInv'
  <2>1. \A j \in Items : Known(rows[j]) => Known(rows'[j])
    BY <1>6, <1>7
  <2>2. \A j \in Items : rows'[j].seq = 0
    BY <1>5, <1>7 DEF StoreInv
  <2>3. op # NoOp => op.item \in Items
    BY DEF StoreTypes, Items
  <2>4. \A j \in Inputs : due'[j] => Known(rows'[j])
    <3> TAKE j \in Inputs
    <3>1. j \in Items
      BY DEF Items
    <3> QED
      BY <1>6, <1>7, <1>8, <3>1 DEF StoreInv
  <2> QED
    BY <1>3, <1>8, <1>10, <2>1, <2>2, <2>3, <2>4 DEF StoreInv
<1>12. DeliveryOK'
  BY <1>8 DEF DeliveryOK, DeliveryTypes, NothingStrands, delivery
<1>13. live.id \in Nat /\ stamp \in Nat
  BY DEF StoreTypes, Lives
<1>14. StoreKept
  BY <1>8, <1>9, <1>11, <1>12, <1>13 DEF StoreKept
<1> QED
  BY <1>3, <1>5, <1>6, <1>7, <1>8, <1>10, <1>14

\* The item mutation is projected as it was written.
LEMMA ApplyMessageValid ==
    ASSUME StoreTypes, StoreInv, ApplyMessage
    PROVE  /\ op.item \in Items /\ op.item \in Messages /\ op.st \in States /\ op.len \in Nat
           /\ op.st # "none" /\ Known(rows[op.item]) /\ status = "active"
           /\ Valid(op.item, Advance(Opened(live).items[op.item], op.st, op.len))
<1>1. /\ op \in [item : Messages, st : {"running", "completed"}, len : Nat]
      /\ status = "active" /\ Known(rows[op.item])
      /\ op.st = "running" => op.len = 0 /\ ~Known(live.items[op.item])
  BY DEF StoreTypes, StoreInv, ApplyMessage
<1>2. op.item \in Items /\ op.st \in States
  BY <1>1 DEF Items, States
<1> DEFINE c == Opened(live).items[op.item]
<1>3. c \in Cursor /\ c.seq \in Nat /\ (op.st = "running" => ~Known(c))
  <2>1. live \in Lives
    BY DEF StoreTypes
  <2>2. Opened(live).items \in Contents
    BY <2>1, OpenedType DEF Lives
  <2>3. Opened(live).items = live.items \/ Opened(live).items = NoItems
    BY <2>1, OpenedType DEF Lives
  <2> QED
    BY <1>1, <1>2, <2>2, <2>3, ContentsFields, NoItemsType
<1> DEFINE n == Advance(c, op.st, op.len)
<1>4. n.st = op.st /\ n.len = op.len /\ (op.st = "running" => n.seq = 0)
  BY <1>1, <1>2, <1>3, CursorIs DEF Advance
<1>5. Valid(op.item, n)
  <2> HIDE DEF n
  <2> QED
    BY <1>1, <1>4 DEF Valid
<1> QED
  BY <1>1, <1>2, <1>5

\* So it keeps the store.
LEMMA ApplyMessageKept ==
    ASSUME StoreTypes, StoreInv, DeliveryOK, ApplyMessage
    PROVE  StoreKept
<1>1. /\ Project(op.item, op.st, op.len) /\ op' = NoOp
      /\ UNCHANGED <<status, closed, stamp, rows, due>>
  BY DEF ApplyMessage
<1>2. /\ live' \in Lives /\ live.id <= live'.id /\ live'.on
      /\ \A j \in Items : Known(live'.items[j]) => Known(rows[j])
      /\ DeliveryOK' /\ status = "active"
  BY <1>1, ApplyMessageValid, ProjectDef
<1> QED
  BY <1>1, <1>2 DEF StoreKept, StoreTypes, StoreInv

\* The text of a message grows in the stream alone.
LEMMA DeltaDef ==
    ASSUME StoreTypes, StoreInv, DeliveryOK, NEW i \in Messages, Delta(i)
    PROVE  LET c   == live.items[i]
               now == At(c.seq + 1, "running", c.len + 1)
               m   == [kind |-> "delta", stream |-> <<"live", live.id>>, item |-> i,
                       at |-> At(c.seq + 1, c.st, c.len)]
           IN  /\ Known(c) /\ c.st = "running" /\ now \in Cursor /\ Valid(i, now) /\ Known(now)
               /\ now.seq = c.seq + 1 /\ m.at.seq = c.seq + 1 /\ m.at.len = c.len
               /\ m \in Updates /\ Push(m) /\ Claim(m) = now
               /\ live.on /\ live' \in Lives /\ live'.on /\ live'.id = live.id
               /\ live'.items = [live.items EXCEPT ![i] = now]
               /\ StoreKept
<1> DEFINE c == live.items[i]
           now == At(c.seq + 1, "running", c.len + 1)
           at == At(c.seq + 1, c.st, c.len)
           m == [kind |-> "delta", stream |-> <<"live", live.id>>, item |-> i, at |-> at]
<1>1. i \in Items /\ live \in Lives
  BY DEF Items, StoreTypes
<1>2. /\ c \in Cursor /\ c.seq \in Nat /\ c.st \in States /\ c.len \in Nat /\ Valid(i, c)
      /\ live.id \in Nat /\ live.items \in Contents
  BY <1>1, LiveFields
<1>3. c.st = "running" /\ Known(c) /\ live.on /\ status = "active"
  BY DEF Delta, Known
<1>4. c.len = c.seq
  <2> HIDE DEF c
  <2> QED
    BY <1>2, <1>3 DEF Valid, Nothing, At, Known
<1>5. /\ now \in Cursor /\ now.seq = c.seq + 1 /\ now.st = "running" /\ now.len = c.len + 1
      /\ at \in Cursor /\ at.seq = c.seq + 1 /\ at.st = c.st /\ at.len = c.len
  <2>1. c.seq + 1 \in Nat /\ c.len + 1 \in Nat /\ "running" \in States
    BY <1>2 DEF States
  <2> HIDE DEF c
  <2>2. /\ At(c.seq + 1, "running", c.len + 1) \in Cursor
        /\ At(c.seq + 1, "running", c.len + 1).seq = c.seq + 1
        /\ At(c.seq + 1, "running", c.len + 1).st = "running"
        /\ At(c.seq + 1, "running", c.len + 1).len = c.len + 1
    BY <2>1, CursorIs
  <2> QED
    BY <1>2, <2>1, <2>2, CursorIs
<1>6. Known(now) /\ Valid(i, now)
  <2> HIDE DEF now
  <2> QED
    BY <1>4, <1>5 DEF Known, Valid
<1>7. m \in Updates
  <2> HIDE DEF at
  <2>1. m \in [kind : {"item", "delta"}, stream : Streams, item : Items, at : Cursor]
    BY <1>1, <1>2, <1>5 DEF Streams
  <2> QED
    BY <1>4, <1>5, <2>1 DEF Updates
<1>8. Claim(m) = now
  BY <1>5 DEF Claim
<1>9. /\ live' = [live EXCEPT !.items[i] = At(c.seq + 1, c.st, c.len + 1)] /\ Push(m)
      /\ UNCHANGED <<status, closed, stamp, rows, op, due>> /\ op = NoOp
  BY DEF Delta
<1>10. At(c.seq + 1, c.st, c.len + 1) = now
  BY <1>3
<1>11. DeliveryOK'
  <2> HIDE DEF m
  <2> QED
    BY <1>7, <1>9, PushDef
<1> HIDE DEF now
<1>12. [live.items EXCEPT ![i] = now] \in Contents
  BY <1>1, <1>2, <1>5, <1>6, ContentsExcept
<1>13. live' = [live EXCEPT !.items = [live.items EXCEPT ![i] = now]]
  BY <1>1, <1>9, <1>10 DEF Lives
<1>14. /\ live' \in Lives /\ live'.id = live.id /\ live'.on
       /\ live'.items = [live.items EXCEPT ![i] = now]
  BY <1>1, <1>3, <1>12, <1>13 DEF Lives
<1>15. StoreKept
  <2>1. \A j \in Items : Known(live'.items[j]) => Known(rows[j])
    <3> TAKE j \in Items
    <3>1. Known(live.items[j]) => Known(rows[j])
      BY LiveFields
    <3>2. live.items \in [Items -> Cursor]
      BY <1>2 DEF Contents
    <3> QED
      BY <1>3, <1>14, <3>1, <3>2
  <2>2. stamp \in Nat
    BY DEF StoreTypes
  <2> QED
    BY <1>2, <1>3, <1>9, <1>11, <1>14, <2>1, <2>2 DEF StoreKept, StoreTypes, StoreInv
<1> QED
  BY <1>3, <1>5, <1>6, <1>7, <1>8, <1>9, <1>14, <1>15 DEF now

\* A change of the run is published by a snapshot, if there is a place for it.
LEMMA PublishDef ==
    ASSUME DeliveryOK, NEW l \in Lives, NEW s, NEW t \in Nat, PublishRun(l, s, t)
    PROVE  /\ DeliveryOK' /\ live' \in Lives /\ live' \in {l, Needed(l, s)}
           /\ \/ /\ ~subscribed /\ live' = l
                 /\ UNCHANGED <<delivery, asked, online, wire>>
              \/ live' = l /\ CutOff(Len(wire))
              \/ /\ subscribed /\ Reserve(FALSE, l, s, t)
                 /\ UNCHANGED <<subscribed, asked, online, wire>>
<1>1. CASE ~subscribed
  BY <1>1 DEF PublishRun, delivery, DeliveryOK, DeliveryTypes, NothingStrands
<1>2. CASE subscribed /\ Len(slots) >= MaxSlots
  <2>1. live' = l /\ CutOff(Len(wire)) /\ Len(wire) \in 0..Len(wire)
    BY <1>2 DEF PublishRun, DeliveryOK, DeliveryTypes
  <2> QED
    BY <2>1, CutOffDef DEF DeliveryOK
<1>3. CASE subscribed /\ ~(Len(slots) >= MaxSlots)
  <2>1. /\ Reserve(FALSE, l, s, t) /\ UNCHANGED <<subscribed, asked, online, wire>>
        /\ online /\ asked \in BOOLEAN /\ FALSE \in BOOLEAN
        /\ subscribed = TRUE /\ online = TRUE
    BY <1>3 DEF PublishRun, DeliveryOK, DeliveryTypes
  <2>2. DeliveryOK' /\ live' \in Lives
    BY <2>1, ReserveDef
  <2>3. live' \in {l, Needed(l, s)}
    BY <2>1 DEF Reserve
  <2> QED
    BY <1>3, <2>1, <2>2, <2>3
<1> QED
  BY <1>1, <1>2, <1>3 DEF DeliveryOK, DeliveryTypes

\* A projection that is due is of an item with a row.
LEMMA ProjectInputValid ==
    ASSUME StoreTypes, StoreInv, NEW i \in Inputs, ProjectInput(i)
    PROVE  /\ i \in Items /\ rows[i].st \in States /\ rows[i].st # "none" /\ 0 \in Nat
           /\ Known(rows[i]) /\ (closed \/ status = "active")
           /\ Valid(i, Advance(Opened(live).items[i], rows[i].st, 0))
<1>1. i \in Items /\ ~(i \in Messages)
  BY RunStreamConstants DEF Items
<1>2. Known(rows[i]) /\ Valid(i, rows[i]) /\ rows[i].st \in States /\ (closed \/ status = "active")
  BY <1>1, LiveFields DEF ProjectInput, StoreInv
<1>3. rows[i].st \in {"queued", "leased", "acked"}
  <2> DEFINE c == rows[i]
  <2> HIDE DEF c
  <2>1. Known(c) /\ Valid(i, c)
    BY <1>2 DEF c
  <2>2. c.st \in {"queued", "leased", "acked"}
    BY <1>1, <2>1 DEF Known, Valid, Nothing, At
  <2> QED
    BY <2>2 DEF c
<1> DEFINE c == Opened(live).items[i]
<1>4. c \in Cursor /\ c.seq \in Nat
  <2>1. Opened(live) \in Lives
    BY OpenedType DEF StoreTypes
  <2> QED
    BY <1>1, <2>1, ContentsFields DEF Lives
<1> DEFINE n == Advance(c, rows[i].st, 0)
<1>5. n.st = rows[i].st /\ n.len = 0
  BY <1>2, <1>4, CursorIs DEF Advance
<1> HIDE DEF n
<1>6. Valid(i, n)
  BY <1>3, <1>5 DEF Valid
<1> QED
  BY <1>1, <1>2, <1>6 DEF n, Known

\* The projection of an input keeps the store.
LEMMA ProjectInputKept ==
    ASSUME StoreTypes, StoreInv, DeliveryOK, NEW i \in Inputs, ProjectInput(i)
    PROVE  StoreKept
<1>1. /\ due' = [due EXCEPT ![i] = FALSE]
      /\ UNCHANGED <<status, closed, stamp, rows, op>>
  BY DEF ProjectInput
<1>2. due \in [Inputs -> BOOLEAN] /\ due' \in [Inputs -> BOOLEAN]
      /\ \A j \in Inputs : due'[j] => due[j]
  BY <1>1 DEF StoreTypes
<1>3. /\ i \in Items /\ rows[i].st \in States /\ rows[i].st # "none" /\ 0 \in Nat
      /\ Known(rows[i]) /\ (closed \/ status = "active") /\ op = NoOp
      /\ Valid(i, Advance(Opened(live).items[i], rows[i].st, 0))
  BY ProjectInputValid DEF ProjectInput
<1>4. CASE closed
  <2>1. UNCHANGED <<live, delivery, asked, online, wire>>
    BY <1>4 DEF ProjectInput
  <2>2. DeliveryOK'
    BY <2>1 DEF DeliveryOK, DeliveryTypes, NothingStrands, delivery
  <2> QED
    BY <1>1, <1>2, <2>1, <2>2 DEF StoreKept, StoreTypes, StoreInv, Lives
<1>5. CASE ~closed
  <2>1. Project(i, rows[i].st, 0) /\ status = "active"
    BY <1>3, <1>5 DEF ProjectInput
  <2>2. /\ live' \in Lives /\ live.id <= live'.id /\ live'.on
        /\ \A j \in Items : Known(live'.items[j]) => Known(rows[j])
        /\ DeliveryOK'
    BY <1>3, <2>1, ProjectDef
  <2> QED
    BY <1>1, <1>2, <1>3, <2>1, <2>2 DEF StoreKept, StoreTypes, StoreInv
<1> QED
  BY <1>4, <1>5 DEF StoreTypes

\* A stream is dropped as a whole.
LEMMA DroppedType ==
    ASSUME StoreTypes
    PROVE  LET l == [live EXCEPT !.on = FALSE, !.items = NoItems]
           IN  l \in Lives /\ ~l.on /\ l.items = NoItems /\ l.id = live.id
BY NoItemsType DEF StoreTypes, Lives

\* A finished run loses its stream, and a waiting one may get a new one at once.
LEMMA CompleteKept ==
    ASSUME StoreTypes, StoreInv, DeliveryOK, NEW s \in {"waiting", "ended"}, Complete(s)
    PROVE  StoreKept
<1> DEFINE l == [live EXCEPT !.on = FALSE, !.items = NoItems]
<1>1. /\ status' = s /\ closed' = TRUE /\ stamp' = stamp + 1 /\ op = NoOp
      /\ PublishRun(l, s, stamp') /\ UNCHANGED <<rows, op, due>>
  BY DEF Complete
<1>2. l \in Lives /\ ~l.on /\ l.items = NoItems /\ l.id = live.id
  BY DroppedType
<1>3. stamp \in Nat /\ stamp' \in Nat /\ live.id \in Nat
  BY <1>1 DEF StoreTypes, Lives
<1> HIDE DEF l
<1>4. DeliveryOK' /\ live' \in Lives /\ live' \in {l, Needed(l, s)}
  BY <1>1, <1>2, <1>3, PublishDef
<1>5. /\ live'.items = NoItems /\ live.id <= live'.id
      /\ live'.on => s # "ended"
  BY <1>2, <1>3, <1>4, NeededType
<1>6. s \in Runs
  BY DEF Runs
<1> QED
  BY <1>1, <1>3, <1>4, <1>5, <1>6, NoItemsType DEF StoreKept, StoreTypes, StoreInv

\* A change of the run leaves the stream, or opens it.
LEMMA ChangeKept ==
    ASSUME StoreTypes, StoreInv, DeliveryOK, Reopen \/ Touch
    PROVE  StoreKept
<1>1. /\ stamp' = stamp + 1 /\ PublishRun(live, status', stamp')
      /\ UNCHANGED <<rows, op, due>>
      /\ closed' => closed
      /\ \/ status = "waiting" /\ status' = "active" /\ closed' = FALSE
         \/ status' = status /\ closed' = closed
  BY DEF Reopen, Touch
<1>2. live \in Lives /\ stamp \in Nat /\ stamp' \in Nat /\ live.id \in Nat
  BY <1>1 DEF StoreTypes, Lives
<1>3. DeliveryOK' /\ live' \in Lives /\ live' \in {live, Needed(live, status')}
  BY <1>1, <1>2, PublishDef
<1>4. /\ live.id <= live'.id
      /\ live' = live \/ (live'.items = NoItems /\ ~live.on /\ status' # "ended" /\ live'.on)
      /\ live'.on => status' # "ended"
  <2>1. live.on => status' # "ended"
    BY <1>1 DEF StoreInv
  <2>2. CASE live' = live
    BY <1>2, <2>1, <2>2
  <2>3. CASE live' = Needed(live, status') /\ live' # live
    <3>1. status' # "ended" /\ ~live.on /\ live' = Opened(live)
      BY <1>2, <2>3, NeededType DEF Needed, Lives
    <3> QED
      BY <1>2, <3>1, OpenedType
  <2> QED
    BY <1>3, <2>2, <2>3
<1>5. status' \in Runs /\ closed' \in BOOLEAN
  BY <1>1 DEF Runs, StoreTypes
<1>6. StoreInv'
  <2>1. status' = "active" => ~closed'
    BY <1>1 DEF StoreInv
  <2>2. (op # NoOp => status = "active") /\ (status = "active" => status' = "active")
    BY <1>1 DEF StoreInv
  <2>3. \A i \in Inputs : due[i] => (closed' \/ status' = "active")
    BY <1>1 DEF StoreInv
  <2>4. \A i \in Items : Known(live'.items[i]) => Known(live.items[i])
    BY <1>4, NoItemsType
  <2>5. op # NoOp => op.item \in Items
    BY DEF StoreTypes, Items
  <2>6. ~live'.on => live'.items = NoItems
    BY <1>4 DEF StoreInv
  <2> QED
    BY <1>1, <1>4, <2>1, <2>2, <2>3, <2>4, <2>5, <2>6 DEF StoreInv
<1> QED
  BY <1>1, <1>2, <1>3, <1>4, <1>5, <1>6 DEF StoreKept, StoreTypes

\* What the store recovers of a run has no stream and nothing half way.
LEMMA CrashKept ==
    ASSUME StoreTypes, StoreInv, DeliveryOK, Crash
    PROVE  StoreKept
<1> DEFINE l == [live EXCEPT !.on = FALSE, !.items = NoItems]
<1>1. /\ status' = (IF status = "active" THEN "waiting" ELSE status)
      /\ closed' = FALSE /\ stamp' = stamp + 1 /\ live' = l /\ op' = NoOp
      /\ due' = [i \in Inputs |-> FALSE] /\ UNCHANGED rows
      /\ \E n \in 0..Len(wire) : CutOff(n)
  BY DEF Crash
<1>2. l \in Lives /\ ~l.on /\ l.items = NoItems /\ l.id = live.id
  BY DroppedType
<1>3. stamp \in Nat /\ live.id \in Nat /\ status' \in Runs /\ status' # "active"
  BY <1>1 DEF StoreTypes, Lives, Runs
<1> HIDE DEF l
<1>4. DeliveryOK'
  BY <1>1, CutOffDef DEF DeliveryOK
<1>5. StoreTypes'
  <2>1. due' \in [Inputs -> BOOLEAN]
    BY <1>1
  <2>2. rows' \in Contents
    BY <1>1 DEF StoreTypes
  <2>3. stamp' \in Nat
    BY <1>1, <1>3
  <2> QED
    BY <1>1, <1>2, <1>3, <2>1, <2>2, <2>3 DEF StoreTypes
<1>6. StoreInv'
  <2>1. \A i \in Inputs : ~due'[i]
    BY <1>1
  <2>2. \A i \in Items : ~Known(live'.items[i]) /\ rows'[i].seq = 0
    BY <1>1, <1>2, NoItemsType DEF StoreInv
  <2> QED
    BY <1>1, <1>2, <1>3, <2>1, <2>2 DEF StoreInv
<1> QED
  BY <1>1, <1>2, <1>3, <1>4, <1>5, <1>6 DEF StoreKept

\* The connection may open a stream, and leaves the rest of the store alone.
LEMMA OpeningKept ==
    ASSUME StoreTypes, StoreInv, live' \in {live, Needed(live, status)}, DeliveryOK',
           UNCHANGED <<status, closed, stamp, rows, op, due>>
    PROVE  StoreKept
<1>1. live \in Lives /\ stamp \in Nat /\ live.id \in Nat
  BY DEF StoreTypes, Lives
<1>2. /\ live' \in Lives /\ live.id <= live'.id
      /\ live' = live \/ (live'.items = NoItems /\ live'.on /\ status # "ended")
  <2>1. CASE live' = live
    BY <1>1, <2>1
  <2>2. CASE live' = Needed(live, status) /\ live' # live
    <3>1. status # "ended" /\ ~live.on /\ live' = Opened(live)
      BY <1>1, <2>2, NeededType DEF Needed, Lives
    <3> QED
      BY <1>1, <3>1, OpenedType
  <2> QED
    BY <2>1, <2>2
<1>3. \A i \in Items : Known(live'.items[i]) => Known(live.items[i])
  BY <1>2, NoItemsType
<1>4. op # NoOp => op.item \in Items
  BY DEF StoreTypes, Items
<1>5. StoreInv'
  BY <1>2, <1>3, <1>4 DEF StoreInv
<1> QED
  BY <1>1, <1>2, <1>5 DEF StoreKept, StoreTypes

\* What was captured is a snapshot of its stream.
LEMMA CapturedType ==
    ASSUME DeliveryOK, capture.phase = "read", NEW k \in BOOLEAN
    PROVE  Captured(k) \in Snapshots /\ Captured(k).stream = capture.stream
           /\ Captured(k).items = capture.items /\ Captured(k).run = capture.run
BY DEF DeliveryOK, DeliveryTypes, Captures, Captured, Snapshots

\* Capturing, settling and subscribing.
LEMMA ServeKept ==
    ASSUME StoreTypes, StoreInv, DeliveryOK, Serve
    PROVE  StoreKept
<1>0. live \in Lives /\ stamp \in Nat /\ rows \in Contents /\ status \in Runs
  BY DEF StoreTypes
<1>1. CASE ReadRows
  <2>1. /\ capture \in Captures /\ capture.phase = "cloned"
        /\ capture' = [capture EXCEPT !.phase = "read", !.items = Merged(@, rows),
                                      !.run = status]
        /\ UNCHANGED <<store, subscribed, slots, asked, online, wire>>
    BY <1>1 DEF ReadRows, DeliveryOK, DeliveryTypes
  <2>2. Merged(capture.items, rows) \in Contents
    BY <1>0, <2>1, MergedType DEF Captures
  <2>3. /\ capture' \in Captures /\ capture'.phase = "read" /\ capture'.run = status
        /\ capture' # Idle /\ capture # Idle
    BY <1>0, <2>1, <2>2, IdleType DEF Captures
  <2>4. DeliveryOK'
    BY <1>0, <2>1, <2>3 DEF DeliveryOK, DeliveryTypes, NothingStrands
  <2> QED
    BY <2>1, <2>4, OpeningKept DEF store
<1>2. CASE Settle
  <2>1. /\ capture # Idle /\ capture.phase = "read" /\ Fill(Captured(Head(slots).answer))
        /\ UNCHANGED <<status, closed, stamp, rows, op, due, subscribed, asked, online>>
    BY <1>2, IdleType DEF Settle
  <2>2. Captured(Head(slots).answer) \in Wired
    <3>1. slots \in Seq(Waiting) /\ slots # <<>> /\ Head(slots).kind = "reserved"
      BY <2>1 DEF DeliveryOK, DeliveryTypes, NothingStrands
    <3>2. Head(slots) \in Slots
      BY <3>1, HeadTailProperties, WaitingKinds
    <3>3. Head(slots).answer \in BOOLEAN
      BY <3>2 DEF Slots
    <3> QED
      BY <2>1, <3>3, CapturedType DEF Wired
  <2>3. DeliveryOK' /\ live' \in {live, Needed(live, status)}
    BY <1>0, <2>1, <2>2, FillDef
  <2> QED
    BY <2>1, <2>3, OpeningKept
<1>3. CASE HandleSubscribe
  <2>1. /\ online' = TRUE /\ asked' = FALSE /\ subscribed' = TRUE /\ UNCHANGED wire
        /\ Reserve(TRUE, live, status, stamp) /\ TRUE \in BOOLEAN /\ asked' \in BOOLEAN
        /\ UNCHANGED <<status, closed, stamp, rows, op, due>>
    BY <1>3 DEF HandleSubscribe, DeliveryOK, DeliveryTypes
  <2>2. DeliveryOK'
    BY <1>0, <2>1, ReserveDef
  <2>3. live' \in {live, Needed(live, status)}
    BY <2>1 DEF Reserve
  <2> QED
    BY <2>1, <2>2, <2>3, OpeningKept
<1>4. CASE RefuseSubscribe
  <2>1. CutOff(Len(wire)) /\ Len(wire) \in 0..Len(wire) /\ UNCHANGED store
    BY <1>4 DEF RefuseSubscribe, DeliveryOK, DeliveryTypes
  <2>2. DeliveryOK'
    BY <2>1, CutOffDef DEF DeliveryOK
  <2> QED
    BY <2>1, <2>2, OpeningKept DEF store
<1> QED
  BY <1>1, <1>2, <1>3, <1>4 DEF Serve

\* Captures that fail and connections that end or begin.
LEMMA ConnectionKept ==
    ASSUME StoreTypes, StoreInv, DeliveryOK, CaptureFails \/ Drop \/ Reconnect
    PROVE  StoreKept
<1>0. live \in Lives /\ stamp \in Nat /\ Len(wire) \in 0..Len(wire)
  BY DEF StoreTypes, DeliveryOK, DeliveryTypes
<1>1. CASE CaptureFails
  <2>1. capture # Idle /\ UNCHANGED <<status, closed, stamp, rows, op, due>>
    BY <1>1 DEF CaptureFails
  <2>2. CASE Head(slots).answer
    <3>1. Fill(Failure) /\ UNCHANGED <<subscribed, asked, online>>
      BY <1>1, <2>2 DEF CaptureFails
    <3>2. Failure \in Wired
      BY DEF Failure, Wired, Words
    <3>3. DeliveryOK' /\ live' \in {live, Needed(live, status)}
      BY <1>0, <2>1, <3>1, <3>2, FillDef
    <3> QED
      BY <2>1, <3>3, OpeningKept
  <2>3. CASE ~Head(slots).answer
    <3>1. CutOff(Len(wire)) /\ UNCHANGED live
      BY <1>1, <2>3 DEF CaptureFails
    <3>2. DeliveryOK'
      BY <1>0, <3>1, CutOffDef DEF DeliveryOK
    <3> QED
      BY <2>1, <3>1, <3>2, OpeningKept
  <2> QED
    BY <2>2, <2>3
<1>2. CASE Drop
  <2>1. UNCHANGED store /\ \E n \in 0..Len(wire) : CutOff(n)
    BY <1>2 DEF Drop
  <2>2. DeliveryOK'
    BY <2>1, CutOffDef DEF DeliveryOK
  <2> QED
    BY <2>1, <2>2, OpeningKept DEF store
<1>3. CASE Reconnect
  <2>1. /\ online' = TRUE /\ wire' = Append(wire, [kind |-> "connected"])
        /\ UNCHANGED <<store, delivery, asked>>
    BY <1>3 DEF Reconnect
  <2>2. [kind |-> "connected"] \in Wired
    BY DEF Wired, Words
  <2>3. DeliveryOK'
    BY <2>1, <2>2 DEF DeliveryOK, DeliveryTypes, NothingStrands, delivery
  <2> QED
    BY <2>1, <2>3, OpeningKept DEF store
<1> QED
  BY <1>1, <1>2, <1>3

-----------------------------------------------------------------------------
(* The client                                                               *)

\* Pushes and answers are taken in their place.
LEMMA RemoveAtDef ==
    ASSUME NEW T, NEW q \in Seq(T), NEW p \in 1..Len(q)
    PROVE  /\ RemoveAt(q, p) \in Seq(T) /\ Len(RemoveAt(q, p)) = Len(q) - 1
           /\ \A k \in 1..(Len(q) - 1) :
                 RemoveAt(q, p)[k] = IF k < p THEN q[k] ELSE q[k + 1]
<1> DEFINE a == SubSeq(q, 1, p - 1)
           b == SubSeq(q, p + 1, Len(q))
<1>1. Len(q) \in Nat /\ p \in Nat /\ p >= 1 /\ p <= Len(q) /\ \A k \in 1..Len(q) : q[k] \in T
  OBVIOUS
<1>2. /\ a \in Seq(T) /\ Len(a) = p - 1
      /\ \A k \in 1..(p - 1) : a[k] = q[k]
  <2>1. \A k \in 1..(p - 1) : q[k] \in T
    BY <1>1
  <2>2. /\ a \in Seq(T) /\ Len(a) = IF 1 <= p - 1 THEN (p - 1) - 1 + 1 ELSE 0
        /\ \A k \in 1..((p - 1) - 1 + 1) : a[k] = q[1 + k - 1]
    BY <1>1, <2>1, SubSeqProperties
  <2> HIDE DEF a
  <2> QED
    BY <1>1, <2>2
<1>3. /\ b \in Seq(T) /\ Len(b) = Len(q) - p
      /\ \A k \in 1..(Len(q) - p) : b[k] = q[p + k]
  <2>1. \A k \in (p + 1)..Len(q) : q[k] \in T
    BY <1>1
  <2>2. /\ b \in Seq(T)
        /\ Len(b) = IF p + 1 <= Len(q) THEN Len(q) - (p + 1) + 1 ELSE 0
        /\ \A k \in 1..(Len(q) - (p + 1) + 1) : b[k] = q[(p + 1) + k - 1]
    BY <1>1, <2>1, SubSeqProperties
  <2> HIDE DEF b
  <2> QED
    BY <1>1, <2>2
<1>4. RemoveAt(q, p) = a \o b
  BY DEF RemoveAt
<1> HIDE DEF a, b
<1>5. /\ a \o b \in Seq(T) /\ Len(a \o b) = Len(a) + Len(b)
      /\ \A k \in 1..(Len(a) + Len(b)) :
            (a \o b)[k] = IF k <= Len(a) THEN a[k] ELSE b[k - Len(a)]
  BY <1>2, <1>3, ConcatProperties
<1>6. ASSUME NEW k \in 1..(Len(q) - 1)
      PROVE  RemoveAt(q, p)[k] = IF k < p THEN q[k] ELSE q[k + 1]
  <2>1. k \in 1..(Len(a) + Len(b))
    BY <1>1, <1>2, <1>3
  <2>2. CASE k < p
    BY <1>1, <1>2, <1>3, <1>4, <1>5, <2>1, <2>2
  <2>3. CASE ~(k < p)
    <3>1. ~(k <= Len(a)) /\ k - Len(a) \in 1..(Len(q) - p) /\ p + (k - Len(a)) = k + 1
      BY <1>1, <1>2, <2>3
    <3> QED
      BY <1>3, <1>4, <1>5, <2>1, <2>3, <3>1
  <2> QED
    BY <2>2, <2>3
<1> QED
  BY <1>1, <1>2, <1>3, <1>4, <1>5, <1>6

\* What a step of the client keeps: its types, and that it is up to date or asks.
TakeKept ==
    /\ ClientTypes' /\ asked' \in BOOLEAN
    /\ ready \/ sync # "idle" => ready' \/ sync' # "idle"

\* Whatever is taken.
LEMMA TakeTypes ==
    ASSUME TypeOK, NEW m \in Wired,
           \/ TakeUpdate(m) \/ TakeSnapshot(m) \/ TakeConnected(m) \/ TakeAnswer(m)
           \/ TakeFailure(m)
    PROVE  /\ TakeKept
           /\ view'.stream = view.stream => Further(view, view')
<1>1. ClientTypes /\ asked \in BOOLEAN
  BY TypeParts DEF DeliveryTypes
<1>2. view \in Views /\ ready \in BOOLEAN /\ pending \in Seq(Updates) /\ <<>> \in Seq(Updates)
      /\ sync \in {"idle", "first", "second"}
  BY <1>1 DEF ClientTypes
<1>3. CASE TakeUpdate(m)
  <2>1. m \in Updates
    BY <1>3, WiredKinds DEF TakeUpdate
  <2>2. view' \in Views /\ Further(view, view')
    BY <1>2, <1>3, <2>1, AppliedType, AppliedFurther, FurtherOrder DEF TakeUpdate
  <2>3. Append(pending, m) \in Seq(Updates)
    BY <1>2, <2>1
  <2> QED
    BY <1>1, <1>2, <1>3, <2>2, <2>3 DEF TakeUpdate, Synchronize, Ask, TakeKept, ClientTypes
<1>4. CASE TakeSnapshot(m)
  <2>1. m \in Snapshots
    BY <1>4, WiredKinds DEF TakeSnapshot
  <2>2. Accept(m) \in [view : Views, ok : BOOLEAN] /\ view' = Accept(m).view
        /\ view'.stream = m.stream /\ (view.stream = m.stream => Further(view, view'))
    BY <1>4, <2>1, AcceptType DEF TakeSnapshot
  <2> QED
    BY <1>1, <1>2, <1>4, <2>2 DEF TakeSnapshot, Synchronize, Ask, TakeKept, ClientTypes
<1>5. CASE TakeConnected(m)
  BY <1>1, <1>2, <1>5, FurtherOrder DEF TakeConnected, Synchronize, Ask, TakeKept, ClientTypes
<1>6. CASE TakeAnswer(m)
  <2>1. m \in Snapshots
    BY <1>6, WiredKinds DEF TakeAnswer
  <2>2. Accept(m) \in [view : Views, ok : BOOLEAN] /\ view' = Accept(m).view
        /\ view'.stream = m.stream /\ (view.stream = m.stream => Further(view, view'))
    BY <1>6, <2>1, AcceptType DEF TakeAnswer
  <2> QED
    BY <1>1, <1>2, <1>6, <2>2 DEF TakeAnswer, Ask, TakeKept, ClientTypes
<1>7. CASE TakeFailure(m)
  <2>1. Abort \in [view : Views, ok : BOOLEAN] /\ view' = Abort.view /\ Further(view, view')
    BY <1>7, AbortType DEF TakeFailure
  <2> QED
    BY <1>1, <1>2, <1>7, <2>1 DEF TakeFailure, TakeKept, ClientTypes
<1> QED
  BY <1>3, <1>4, <1>5, <1>6, <1>7

\* A message leaves the wire, and the client does with it what it does.
LEMMA TakeDef ==
    ASSUME TypeOK, Take
    PROVE  \E p \in 1..Len(wire) :
              /\ wire[p] \in Wired /\ Takeable(p)
              /\ \/ TakeUpdate(wire[p]) \/ TakeSnapshot(wire[p]) \/ TakeConnected(wire[p])
                 \/ TakeAnswer(wire[p]) \/ TakeFailure(wire[p])
              /\ swapped' = (swapped \/ p > 1)
              /\ wire' \in Seq(Wired) /\ Len(wire') = Len(wire) - 1
              /\ \A k \in 1..(Len(wire) - 1) : wire'[k] = IF k < p THEN wire[k] ELSE wire[k + 1]
              /\ UNCHANGED <<store, delivery, online, turns>>
<1>1. wire \in Seq(Wired)
  BY TypeParts DEF DeliveryTypes
<1>2. PICK p \in DOMAIN wire :
        /\ Takeable(p)
        /\ wire' = RemoveAt(wire, p)
        /\ \/ TakeUpdate(wire[p]) \/ TakeSnapshot(wire[p]) \/ TakeConnected(wire[p])
           \/ TakeAnswer(wire[p]) \/ TakeFailure(wire[p])
        /\ swapped' = (swapped \/ p > 1)
        /\ UNCHANGED <<store, delivery, online, turns>>
  BY DEF Take
<1>3. p \in 1..Len(wire) /\ wire[p] \in Wired
  BY <1>1
<1>4. /\ wire' \in Seq(Wired) /\ Len(wire') = Len(wire) - 1
      /\ \A k \in 1..(Len(wire) - 1) : wire'[k] = IF k < p THEN wire[k] ELSE wire[k + 1]
  BY <1>1, <1>2, <1>3, RemoveAtDef
<1> QED
  BY <1>2, <1>3, <1>4

\* Within a stream a client never goes back (acceptSnapshot and the updates it
\* replays, applyUpsert, applyDelta).
LEMMA StepNoRegression ==
    ASSUME TypeOK, [Next]_vars, view'.stream = view.stream
    PROVE  Further(view, view')
<1>1. view \in Views
  BY TypeParts DEF ClientTypes
<1>2. CASE UNCHANGED view
  BY <1>1, <1>2, FurtherOrder
<1>3. CASE Take
  <2>1. PICK p \in 1..Len(wire) :
              /\ wire[p] \in Wired
              /\ \/ TakeUpdate(wire[p]) \/ TakeSnapshot(wire[p]) \/ TakeConnected(wire[p])
                 \/ TakeAnswer(wire[p]) \/ TakeFailure(wire[p])
    BY <1>3, TakeDef
  <2> QED
    BY <2>1, TakeTypes
<1>4. Take \/ UNCHANGED view
  BY DEF Next, vars, projection, StoreStep, Serve, WriteMessage, Delta, ApplyMessage,
     StoreInput, ProjectInput, Complete, Reopen, Touch, ReadRows, Settle, HandleSubscribe,
     RefuseSubscribe, CaptureFails, Crash, Drop, Reconnect
<1> QED
  BY <1>2, <1>3, <1>4

\* The client is not touched by what the server does.
Steady == UNCHANGED <<projection, swapped>>

\* A step is one of the store, of the connection, or of the client.
LEMMA StepKept ==
    ASSUME TypeOK, StoreInv, DeliveryInv, [Next]_vars
    PROVE  /\ TypeOK' /\ StoreKept /\ DeliveryInv'
           /\ Steady \/ Take
<1>1. /\ StoreTypes /\ DeliveryTypes /\ ClientTypes /\ swapped \in BOOLEAN /\ turns \in Nat
  BY TypeParts
<1>2. DeliveryOK /\ (ready \/ sync # "idle")
  BY <1>1 DEF DeliveryOK, DeliveryInv
<1>3. CASE StoreStep
  <2>1. StoreKept
    BY <1>1, <1>2, <1>3, WriteMessageKept, DeltaDef, ApplyMessageKept, StoreInputKept,
       ProjectInputKept, CompleteKept, ChangeKept DEF StoreStep
  <2>2. Steady
    BY <1>3 DEF StoreStep, Steady, WriteMessage, Delta, ApplyMessage, StoreInput,
       ProjectInput, Complete, Reopen, Touch
  <2>3. turns' \in {turns, turns + 1}
    BY <1>3 DEF StoreStep, Steady, WriteMessage, Delta, ApplyMessage, StoreInput,
       ProjectInput, Complete, Reopen, Touch
  <2>4. turns' \in Nat
    BY <1>1, <2>3
  <2> QED
    BY <1>1, <1>2, <2>1, <2>2, <2>4, TypePartsNext
    DEF StoreKept, DeliveryOK, DeliveryInv, Steady, projection, ClientTypes
<1>4. CASE Serve \/ CaptureFails \/ Drop \/ Reconnect \/ Crash
  <2>1. StoreKept
    BY <1>1, <1>2, <1>4, ServeKept, ConnectionKept, CrashKept
  <2>2. Steady
    BY <1>4 DEF Serve, Steady, ReadRows, Settle, HandleSubscribe, RefuseSubscribe,
       CaptureFails, Drop, Reconnect, Crash
  <2>3. turns' \in {turns, turns + 1}
    BY <1>4 DEF Serve, Steady, ReadRows, Settle, HandleSubscribe, RefuseSubscribe,
       CaptureFails, Drop, Reconnect, Crash
  <2>4. turns' \in Nat
    BY <1>1, <2>3
  <2> QED
    BY <1>1, <1>2, <2>1, <2>2, <2>4, TypePartsNext
    DEF StoreKept, DeliveryOK, DeliveryInv, Steady, projection, ClientTypes
<1>5. CASE UNCHANGED vars
  <2>1. StoreKept
    BY <1>1, <1>2, <1>5 DEF vars, store, delivery, StoreKept, StoreTypes, StoreInv, DeliveryOK,
       DeliveryTypes, NothingStrands, Lives
  <2>2. Steady /\ turns' \in Nat
    BY <1>1, <1>5 DEF vars, Steady
  <2> QED
    BY <1>1, <1>2, <2>1, <2>2, TypePartsNext
    DEF StoreKept, DeliveryOK, DeliveryInv, Steady, projection, ClientTypes
<1>6. CASE Take
  <2>1. PICK p \in 1..Len(wire) :
              /\ wire[p] \in Wired
              /\ \/ TakeUpdate(wire[p]) \/ TakeSnapshot(wire[p]) \/ TakeConnected(wire[p])
                 \/ TakeAnswer(wire[p]) \/ TakeFailure(wire[p])
              /\ swapped' = (swapped \/ p > 1)
              /\ wire' \in Seq(Wired)
              /\ UNCHANGED <<store, delivery, online, turns>>
    BY <1>6, TakeDef
  <2>2. TakeKept
    BY <2>1, TakeTypes
  <2>3. StoreKept
    BY <1>1, <1>2, <2>1, <2>2 DEF store, delivery, StoreKept, StoreTypes, StoreInv, DeliveryOK,
       DeliveryTypes, NothingStrands, Lives, TakeKept
  <2>4. swapped' \in BOOLEAN /\ turns' \in Nat
    BY <1>1, <2>1
  <2> QED
    BY <1>2, <1>6, <2>2, <2>3, <2>4, TypePartsNext
    DEF StoreKept, DeliveryOK, DeliveryInv, TakeKept
<1> QED
  BY <1>3, <1>4, <1>5, <1>6 DEF Next

-----------------------------------------------------------------------------
(* What is on the way                                                       *)

\* What the server has in hand and what the client will take.
Sound == TypeOK /\ StoreInv /\ DeliveryInv /\ StreamsInv

\* The parts of it that the lemmas need.
LEMMA SoundParts ==
    ASSUME Sound
    PROVE  /\ TypeOK /\ StoreTypes /\ StoreInv /\ DeliveryOK /\ DeliveryTypes /\ ClientTypes
           /\ StreamsInv
           /\ Len(wire) \in Nat /\ Len(slots) \in Nat /\ Total \in Nat
           /\ Total = Len(wire) + Len(slots) /\ Len(wire) <= Total
           /\ live \in Lives /\ live.items \in Contents /\ live.id \in Nat
           /\ live.on \in BOOLEAN /\ stamp \in Nat /\ rows \in Contents
           /\ capture \in Captures /\ wire \in Seq(Wired) /\ slots \in Seq(Waiting)
           /\ view \in Views /\ view.items \in Contents /\ pending \in Seq(Updates)
           /\ Len(pending) \in Nat
<1>1. /\ TypeOK /\ StoreTypes /\ StoreInv /\ DeliveryTypes /\ ClientTypes
      /\ StreamsInv
  BY TypeParts DEF Sound
<1>2. DeliveryOK
  BY <1>1 DEF Sound, DeliveryInv, DeliveryOK
<1>3. /\ live \in Lives /\ stamp \in Nat /\ rows \in Contents
      /\ capture \in Captures /\ wire \in Seq(Wired) /\ slots \in Seq(Waiting)
      /\ view \in Views /\ pending \in Seq(Updates)
  BY <1>1 DEF StoreTypes, DeliveryTypes, ClientTypes
<1> QED
  BY <1>1, <1>2, <1>3 DEF Total, Lives, Views

\* A message is one that was sent, or one that waits in a slot.
LEMMA MsgDef ==
    ASSUME Sound, NEW k \in 1..Total
    PROVE  /\ k <= Len(wire) => Msg(k) = wire[k] /\ Msg(k) \in Wired
           /\ k > Len(wire) => /\ Msg(k) = slots[k - Len(wire)] /\ Msg(k) \in Waiting
                               /\ k - Len(wire) \in 1..Len(slots)
           /\ IsUpdate(Msg(k)) => Msg(k) \in Updates /\ Past(Msg(k).stream)
           /\ IsUpdate(Msg(k)) => ~IsBarrier(Msg(k))
           /\ IsSnapshot(Msg(k)) => k <= Len(wire) /\ Msg(k) \in Snapshots
<1>1. /\ Len(wire) \in Nat /\ Len(slots) \in Nat /\ Total = Len(wire) + Len(slots)
      /\ wire \in Seq(Wired) /\ slots \in Seq(Waiting) /\ StreamsInv /\ Total \in Nat
  BY SoundParts
<1>2. CASE k <= Len(wire)
  <2>1. Msg(k) = wire[k] /\ wire[k] \in Wired /\ k \in 1..Len(wire)
    BY <1>1, <1>2 DEF Msg
  <2>2. IsUpdate(Msg(k)) => Msg(k) \in Updates
    BY <2>1, WiredKinds DEF IsUpdate
  <2>3. Msg(k) \in Updates => "stream" \in DOMAIN wire[k]
    BY <2>1, UpdateFields
  <2> QED
    BY <1>1, <1>2, <2>1, <2>2, <2>3, WiredKinds
    DEF StreamsInv, IsUpdate, IsBarrier, IsSnapshot
<1>3. CASE k > Len(wire)
  <2>1. k - Len(wire) \in 1..Len(slots) /\ ~(k <= Len(wire))
    BY <1>1, <1>3
  <2>2. Msg(k) = slots[k - Len(wire)] /\ slots[k - Len(wire)] \in Waiting
    BY <1>1, <2>1 DEF Msg
  <2>3. IsUpdate(Msg(k)) => Msg(k) \in Updates
    BY <2>2, WaitingKinds DEF IsUpdate
  <2>4. Msg(k) \in Updates => "stream" \in DOMAIN slots[k - Len(wire)]
    BY <2>2, UpdateFields
  <2>5. Msg(k).kind \in {"item", "delta", "reserved"}
    BY <2>2, WaitingKinds
  <2> QED
    BY <1>1, <2>1, <2>2, <2>3, <2>4, <2>5 DEF StreamsInv, IsUpdate, IsBarrier, IsSnapshot
<1> QED
  BY <1>1, <1>2, <1>3

\* A capture is that of the first slot.
LEMMA ToldDef ==
    ASSUME Sound, NEW k \in Nat, k > 0, Told(k)
    PROVE  /\ k \in 1..Total /\ IsBarrier(Msg(k)) /\ k <= Len(wire) + 1
           /\ Past(StreamOf(k)) /\ ItemsOf(k) \in Contents
           /\ k <= Len(wire) => /\ wire[k] \in Snapshots /\ StreamOf(k) = wire[k].stream
                                /\ ItemsOf(k) = wire[k].items
           /\ k > Len(wire) => /\ k = Len(wire) + 1 /\ slots # <<>> /\ StreamOf(k) = capture.stream
                               /\ capture.phase # "idle"
<1>1. /\ Len(wire) \in Nat /\ Len(slots) \in Nat /\ Total = Len(wire) + Len(slots)
      /\ wire \in Seq(Wired) /\ slots \in Seq(Waiting) /\ StreamsInv /\ Total \in Nat
      /\ DeliveryOK /\ capture \in Captures /\ rows \in Contents
  BY SoundParts
<1>2. CASE k <= Len(wire)
  <2>1. IsSnapshot(wire[k]) /\ k \in 1..Len(wire) /\ wire[k] \in Wired
    BY <1>1, <1>2 DEF Told
  <2>2. wire[k] \in Snapshots
    BY <2>1, WiredKinds DEF IsSnapshot
  <2>3. /\ "stream" \in DOMAIN wire[k] /\ wire[k].items \in Contents
    BY <2>2, SnapshotFields
  <2>4. StreamOf(k) = wire[k].stream /\ ItemsOf(k) = wire[k].items /\ Msg(k) = wire[k]
    BY <1>2 DEF StreamOf, ItemsOf, Msg
  <2> QED
    BY <1>1, <1>2, <2>1, <2>2, <2>3, <2>4 DEF StreamsInv, IsBarrier, IsSnapshot
<1>3. CASE ~(k <= Len(wire))
  <2>1. k = Len(wire) + 1 /\ capture.phase # "idle"
    BY <1>3 DEF Told
  <2>2. slots # <<>> /\ Head(slots).kind = "reserved"
    BY <1>1, <2>1, IdleType DEF DeliveryOK, NothingStrands
  <2>3. k \in 1..Total /\ Msg(k) = Head(slots)
    BY <1>1, <1>3, <2>1, <2>2 DEF Msg
  <2>4. StreamOf(k) = capture.stream /\ Past(capture.stream)
    BY <1>1, <1>3 DEF StreamOf, StreamsInv
  <2>5. ItemsOf(k) \in Contents
    BY <1>1, <1>3, MergedType DEF ItemsOf, Captures
  <2> QED
    BY <1>1, <1>3, <2>1, <2>2, <2>3, <2>4, <2>5 DEF IsBarrier
<1> QED
  BY <1>2, <1>3

\* The server's own stream and contents.
LEMMA NowDef ==
    ASSUME Sound
    PROVE  /\ Past(NowStream) /\ NowStream \in Streams /\ NowItems \in Contents
           /\ NowStream = IF live.on THEN <<"live", live.id>> ELSE <<"snapshot", stamp>>
           /\ \A i \in Items : NowItems[i] = IF Known(live.items[i]) THEN live.items[i]
                                             ELSE rows[i]
<1>1. /\ live.items \in Contents /\ rows \in Contents /\ live.id \in Nat /\ stamp \in Nat
  BY SoundParts
<1> QED
  BY <1>1, MergedType DEF NowStream, NowItems, Past, Streams

\* What is on the way to the client is as it was, up to message n.
Kept(n) ==
    \A k \in 1..n :
        /\ IsUpdate(Msg(k)) \/ IsUpdate(Msg(k))' => Msg(k)' = Msg(k)
        /\ IsBarrier(Msg(k))' = IsBarrier(Msg(k))
        /\ Told(k)' => Told(k) /\ StreamOf(k)' = StreamOf(k) /\ ItemsOf(k)' = ItemsOf(k)

\* The server's contents grow in the same stream, or belong to a new one.
NowAhead ==
    \/ /\ NowStream' = NowStream
       /\ \A i \in Items : NotAfter(NowItems[i], NowItems'[i])
    \/ ~Past(NowStream')

\* Then nothing on the way is ahead of it either.
LEMMA KeptBefore ==
    ASSUME NEW n \in Nat, Kept(n), UNCHANGED <<view, pending>>, NEW S, NEW f, Before(n, S, f)
    PROVE  Before(n, S, f)'
<1>1. /\ OldItems(view.stream, view.items, S, f)'
      /\ \A k \in 1..Len(pending') : OldUpdate(pending'[k], S, f)
  BY DEF Before, OldItems
<1>2. ASSUME NEW k \in 1..n
      PROVE  /\ IsUpdate(Msg(k))' => OldUpdate(Msg(k)', S, f)
             /\ Told(k)' => OldItems(StreamOf(k)', ItemsOf(k)', S, f)
  BY <1>2 DEF Before, Kept
<1> QED
  BY <1>1, <1>2 DEF Before

\* The same, but the rows of a capture may have moved on.
Covers(n) ==
    \A k \in 1..n :
        /\ IsUpdate(Msg(k)) \/ IsUpdate(Msg(k))' => Msg(k)' = Msg(k)
        /\ IsBarrier(Msg(k))' = IsBarrier(Msg(k))
        /\ Told(k)' => /\ Told(k) /\ StreamOf(k)' = StreamOf(k)
                       /\ \A i \in Items : Known(ItemsOf(k)[i]) =>
                             /\ Known(ItemsOf(k)'[i])
                             /\ \A q : ItemsOf(k)[i].seq >= q => ItemsOf(k)'[i].seq >= q

\* What is kept is covered.
LEMMA KeptCovers ==
    ASSUME NEW n \in Nat, Kept(n)
    PROVE  Covers(n)
BY DEF Kept, Covers

\* What has come to the client still has.
LEMMA KeptFed ==
    ASSUME NEW n \in Nat, Covers(n), UNCHANGED <<view, ready, fate>>, NEW S, NEW i \in Items,
           NEW q, Fed(n, S, i, q)
    PROVE  Fed(n, S, i, q)'
<1>1. ASSUME NEW a \in Nat, a > 0, Clear(a, n)
      PROVE  Clear(a, n)'
  BY <1>1 DEF Clear, Covers
<1>2. ASSUME NEW k \in 1..n, Brings(k, S, i, q)
      PROVE  Brings(k, S, i, q)'
  BY <1>2 DEF Brings, Covers
<1>3. InView(S, i, q)' = InView(S, i, q)
  BY DEF InView
<1>4. CASE \E k \in 1..n : Brings(k, S, i, q) /\ Clear(k + 1, n)
  BY <1>1, <1>2, <1>4 DEF Fed
<1>5. CASE Clear(1, n) /\ ((ready /\ fate # "failed") => InView(S, i, q))
  BY <1>1, <1>3, <1>5 DEF Fed
<1> QED
  BY <1>4, <1>5 DEF Fed

\* NotAfter is an order.
LEMMA NotAfterOrder ==
    /\ \A c \in Cursor : NotAfter(c, c)
    /\ \A c, d, e \in Cursor : NotAfter(c, d) /\ NotAfter(d, e) => NotAfter(c, e)
BY DEF NotAfter, Cursor

\* A claim is a cursor that is known.
LEMMA ClaimType ==
    ASSUME NEW u \in Updates
    PROVE  /\ Claim(u) \in Cursor /\ Known(Claim(u)) /\ Claim(u).seq = u.at.seq
           /\ u.kind = "delta" => u.at.seq > 0
<1>1. /\ u.at \in Cursor /\ u.at.seq \in Nat /\ u.at.len \in Nat /\ "running" \in States
      /\ u.kind \in {"item", "delta"} /\ (u.kind = "item" => Known(u.at))
      /\ u.kind = "delta" => u.at.seq = u.at.len + 1
  BY UpdateFields DEF States
<1> QED
  BY <1>1, CursorIs DEF Claim, Known

\* Contents that are not before others are not before later ones.
LEMMA BeforeLater ==
    ASSUME Sound, NEW n \in 0..Total, NEW S, NEW f \in Contents, NEW g \in Contents,
           Before(n, S, f), \A i \in Items : NotAfter(f[i], g[i])
    PROVE  Before(n, S, g)
<1>1. \A i \in Items : f[i] \in Cursor /\ g[i] \in Cursor
  BY ContentsFields
<1>2. ASSUME NEW u \in Updates, OldUpdate(u, S, f)
      PROVE  OldUpdate(u, S, g)
  <2>1. u.item \in Items /\ Claim(u) \in Cursor
    BY UpdateFields, ClaimType
  <2> QED
    BY <1>1, <1>2, <2>1, NotAfterOrder DEF OldUpdate
<1>3. ASSUME NEW T, NEW h \in Contents, OldItems(T, h, S, f)
      PROVE  OldItems(T, h, S, g)
  BY <1>1, <1>3, ContentsFields, NotAfterOrder DEF OldItems
<1>4. view.items \in Contents /\ pending \in Seq(Updates) /\ Total \in Nat
  BY SoundParts
<1>5. ASSUME NEW k \in 1..n
      PROVE  /\ IsUpdate(Msg(k)) => OldUpdate(Msg(k), S, g)
             /\ Told(k) => OldItems(StreamOf(k), ItemsOf(k), S, g)
  <2>1. k \in 1..Total /\ k \in Nat /\ k > 0
    BY <1>4
  <2>2. IsUpdate(Msg(k)) => OldUpdate(Msg(k), S, g)
    BY <1>2, <2>1, MsgDef DEF Before
  <2>3. Told(k) => OldItems(StreamOf(k), ItemsOf(k), S, g)
    BY <1>3, <2>1, ToldDef DEF Before
  <2> QED
    BY <2>2, <2>3
<1>6. \A k \in 1..Len(pending) : OldUpdate(pending[k], S, g)
  BY <1>2, <1>4 DEF Before
<1>7. OldItems(view.stream, view.items, S, g)
  BY <1>3, <1>4 DEF Before
<1> QED
  BY <1>5, <1>6, <1>7 DEF Before

\* Nothing is ahead of a stream that is new.
LEMMA BeforeFresh ==
    ASSUME Sound, NEW n \in 0..Total, NEW S, ~Past(S), NEW f
    PROVE  Before(n, S, f)
<1>1. StreamsInv /\ Total \in Nat
  BY SoundParts
<1>2. ASSUME NEW k \in 1..n
      PROVE  /\ IsUpdate(Msg(k)) => OldUpdate(Msg(k), S, f)
             /\ Told(k) => OldItems(StreamOf(k), ItemsOf(k), S, f)
  <2>1. k \in 1..Total /\ k \in Nat /\ k > 0
    BY <1>1
  <2> QED
    BY <2>1, MsgDef, ToldDef DEF OldUpdate, OldItems
<1>3. \A k \in 1..Len(pending) : OldUpdate(pending[k], S, f)
  BY <1>1 DEF StreamsInv, OldUpdate
<1> QED
  BY <1>1, <1>2, <1>3 DEF Before, OldItems, StreamsInv

\* So what is on the way stays behind the server.
LEMMA BeforeAhead ==
    ASSUME Sound, Before(Total, NowStream, NowItems), NowAhead, NowItems' \in Contents
    PROVE  Before(Total, NowStream', NowItems')
<1>1. Total \in 0..Total /\ NowItems \in Contents
  BY SoundParts, NowDef
<1>2. CASE ~Past(NowStream')
  BY <1>1, <1>2, BeforeFresh
<1>3. CASE NowStream' = NowStream /\ \A i \in Items : NotAfter(NowItems[i], NowItems'[i])
  BY <1>1, <1>3, BeforeLater
<1> QED
  BY <1>2, <1>3 DEF NowAhead

-----------------------------------------------------------------------------
(* What a step of the server does to what is on the way                     *)

\* The contents after a step.
LEMMA NowNext ==
    ASSUME StoreTypes'
    PROVE  /\ NowStream' = IF live'.on THEN <<"live", live'.id>> ELSE <<"snapshot", stamp'>>
           /\ NowItems' \in Contents
           /\ \A i \in Items : NowItems'[i] = IF Known(live'.items[i]) THEN live'.items[i]
                                              ELSE rows'[i]
<1>1. live'.items \in Contents /\ rows' \in Contents
  BY DEF StoreTypes, Lives
<1>2. Merged(live'.items, rows') \in Contents
  BY <1>1, MergedType
<1>3. \A i \in Items : Merged(live'.items, rows')[i] =
          IF Known(live'.items[i]) THEN live'.items[i] ELSE rows'[i]
  BY <1>1, MergedType
<1> QED
  BY <1>2, <1>3 DEF NowStream, NowItems

\* A stream that is opened, and the name of a snapshot of a new state, are new.
LEMMA NewStream ==
    ASSUME Sound, StoreTypes', \/ live'.on /\ live'.id > live.id
                               \/ ~live'.on /\ stamp' > stamp
    PROVE  ~Past(NowStream') /\ NowAhead
<1>1. /\ live.id \in Nat /\ stamp \in Nat /\ live'.id \in Nat /\ stamp' \in Nat
      /\ live'.on \in BOOLEAN
  BY SoundParts DEF StoreTypes, Lives
<1> QED
  BY <1>1, NowNext DEF Past, NowAhead

\* Otherwise it is the old one.
LEMMA SameStream ==
    ASSUME Sound, StoreTypes', live'.on = live.on, live'.id = live.id,
           live.on \/ stamp' = stamp,
           \A i \in Items : \/ NowItems'[i] = NowItems[i]
                            \/ /\ Known(NowItems'[i])
                               /\ NowItems[i].seq < NowItems'[i].seq
                            \/ /\ Known(NowItems'[i])
                               /\ NowItems[i].seq = 0 /\ NowItems'[i].seq = 0
    PROVE  NowStream' = NowStream /\ NowAhead
<1>1. NowStream' = NowStream
  BY NowNext, NowDef
<1>2. ASSUME NEW i \in Items
      PROVE  NotAfter(NowItems[i], NowItems'[i])
  <2>1. NowItems \in Contents /\ NowItems' \in Contents
    BY NowNext, NowDef
  <2>2. /\ NowItems[i] \in Cursor /\ NowItems[i].seq \in Nat
        /\ NowItems'[i] \in Cursor /\ NowItems'[i].seq \in Nat
    BY <2>1, ContentsFields
  <2> QED
    BY <2>2 DEF NotAfter
<1> QED
  BY <1>1, <1>2 DEF NowAhead

\* Nothing that is sent changes, and no mutation ends.
Still ==
    /\ UNCHANGED <<delivery, wire, live, stamp, status, rows>>
    /\ \A j \in Items : Underway(j) => Underway(j)'

\* The row of an item changes, whose projection is to come.
Rowed ==
    \E i \in Items :
        /\ rows' = [rows EXCEPT ![i] = rows'[i]] /\ rows'[i].seq = 0 /\ Known(rows'[i])
        /\ Underway(i)' /\ \A j \in Items : Underway(j) => Underway(j)'
        /\ UNCHANGED <<delivery, wire, live, stamp, status>>

\* The client gets no more, but for the end of what was sent.
Severed ==
    /\ ~subscribed' /\ slots' = <<>> /\ capture' = Idle /\ NowAhead
    /\ \E n \in 0..Len(wire) :
          /\ Len(wire') \in {n, n + 1}
          /\ \A k \in 1..n : wire'[k] = wire[k]
          /\ Len(wire') = n + 1 => wire'[n + 1].kind \in {"failure", "connected"}

\* One more message.
Appended(m) ==
    \/ slots = <<>> /\ UNCHANGED slots /\ wire' = Append(wire, m)
    \/ slots # <<>> /\ UNCHANGED wire /\ slots' = Append(slots, m)

\* An update is sent.
Pushed ==
    \E m \in Updates :
        /\ subscribed /\ subscribed' /\ Appended(m) /\ NowAhead
        /\ UNCHANGED <<capture, rows, status>>
        /\ live'.on /\ m.stream = NowStream' /\ live'.items[m.item] = Claim(m)
        /\ \A j \in Items : j # m.item => (Underway(j) => Underway(j)')
        /\ IF live.on
           THEN /\ NowStream' = NowStream
                /\ \A j \in Items : j # m.item => live'.items[j] = live.items[j]
           ELSE /\ status = "active" /\ ~Past(NowStream')
                /\ \A j \in Items : j # m.item => ~Known(live'.items[j])
        /\ m.kind = "delta" =>
              live.on /\ Known(live.items[m.item]) /\ live.items[m.item].seq = m.at.seq - 1

\* A capture that begins now, with the contents of now.
Begun == capture' = Clone(live', stamp') /\ (live'.on \/ status' = "ended")

\* A snapshot is reserved.
Published ==
    \E k \in BOOLEAN :
        /\ subscribed' /\ slots' = Append(slots, Reserved(k)) /\ NowAhead
        /\ UNCHANGED <<wire, rows>>
        /\ IF slots = <<>> THEN Begun ELSE subscribed /\ UNCHANGED capture
        /\ \/ live' = live /\ NowStream' = NowStream
           \/ ~Past(NowStream') /\ live'.items = NoItems

\* A capture ends.
Filled ==
    \E m \in Snapshots \cup {Failure} : \E n \in 0..(Len(slots) - 1) :
        /\ subscribed /\ subscribed' /\ capture # Idle
        /\ IsSnapshot(m) => /\ capture.phase = "read" /\ m.stream = capture.stream
                            /\ m.items = capture.items /\ m.run = capture.run
        /\ Len(wire') = Len(wire) + 1 + n /\ Len(slots') = Len(slots) - 1 - n
        /\ \A k \in 1..Len(wire) : wire'[k] = wire[k]
        /\ wire'[Len(wire) + 1] = m
        /\ \A k \in 1..n : wire'[Len(wire) + 1 + k] = slots[k + 1]
        /\ \A k \in 1..Len(slots') : slots'[k] = slots[n + 1 + k]
        /\ IF slots' = <<>> THEN capture' = Idle ELSE Begun
        /\ UNCHANGED <<rows, status, stamp, op, due, closed>> /\ NowAhead
        /\ \/ live' = live /\ NowStream' = NowStream
           \/ ~Past(NowStream') /\ live'.items = NoItems /\ slots' # <<>>

\* What the server does, as the client will see it.
Served == Still \/ Rowed \/ Severed \/ Pushed \/ Published \/ Filled \/ ReadRows

\* A connection that has ended, whatever becomes of the store.
LEMMA CutSevers ==
    ASSUME Sound, NowAhead, NEW n \in 0..Len(wire), CutOff(n)
    PROVE  Severed
<1>1. DeliveryTypes /\ Len(wire) \in Nat
  BY SoundParts
<1>2. /\ subscribed' = FALSE /\ slots' = <<>> /\ capture' = Idle
      /\ Len(wire') \in {n, n + 1}
      /\ \A k \in 1..Len(wire') : wire'[k] = IF k <= n THEN wire[k] ELSE Failure
  BY <1>1, CutOffDef
<1>3. \A k \in 1..n : wire'[k] = wire[k]
  BY <1>1, <1>2
<1>4. Len(wire') = n + 1 => wire'[n + 1].kind \in {"failure", "connected"}
  BY <1>1, <1>2 DEF Failure
<1> QED
  BY <1>2, <1>3, <1>4 DEF Severed

\* One that has not begun.
LEMMA UnsubscribedSevers ==
    ASSUME Sound, NowAhead, ~subscribed, UNCHANGED <<delivery, wire>>
    PROVE  Severed
<1>1. DeliveryOK /\ Len(wire) \in Nat
  BY SoundParts
<1>2. slots = <<>> /\ capture = Idle
  BY <1>1 DEF DeliveryOK, NothingStrands
<1>3. Len(wire) \in 0..Len(wire) /\ Len(wire') = Len(wire) /\ Len(wire') # Len(wire) + 1
  BY <1>1
<1> QED
  BY <1>2, <1>3 DEF Severed, delivery

\* A stream that was needed.
LEMMA NeededAhead ==
    ASSUME Sound, StoreTypes', UNCHANGED rows, live' \in {live, Needed(live, status')},
           stamp' = stamp \/ stamp' = stamp + 1
    PROVE  /\ NowAhead
           /\ \/ live' = live /\ NowStream' = NowStream
              \/ ~Past(NowStream') /\ live'.items = NoItems
<1>1. live \in Lives /\ live.id \in Nat /\ stamp \in Nat /\ stamp' \in Nat /\ live.on \in BOOLEAN
      /\ StoreInv
  BY SoundParts
<1>2. \A i \in Items : live' = live => NowItems'[i] = NowItems[i]
  BY NowNext, NowDef
<1>3. CASE live' = live /\ (live.on \/ stamp' = stamp)
  BY <1>1, <1>2, <1>3, SameStream
<1>4. CASE live' = live /\ ~live.on /\ stamp' = stamp + 1
  <2>1. live.items = NoItems /\ stamp' > stamp
    BY <1>1, <1>4 DEF StoreInv
  <2> QED
    BY <1>1, <1>4, <2>1, NewStream
<1>5. CASE live' # live
  <2>1. live' = Opened(live) /\ ~live.on
    BY <1>1, <1>5, NeededType DEF Needed
  <2>2. live'.on /\ live'.id > live.id /\ live'.items = NoItems
    BY <1>1, <2>1, OpenedType
  <2> QED
    BY <2>2, NewStream
<1> QED
  BY <1>1, <1>3, <1>4, <1>5

\* A push, if the client is there to get it.
LEMMA PushServed ==
    ASSUME Sound, StoreTypes', NEW m \in Updates, Push(m), NowAhead,
           UNCHANGED <<rows, status>>,
           live'.on, m.stream = NowStream', live'.items[m.item] = Claim(m),
           \A j \in Items : j # m.item => (Underway(j) => Underway(j)'),
           IF live.on
           THEN /\ NowStream' = NowStream
                /\ \A j \in Items : j # m.item => live'.items[j] = live.items[j]
           ELSE /\ status = "active" /\ ~Past(NowStream')
                /\ \A j \in Items : j # m.item => ~Known(live'.items[j]),
           m.kind = "delta" =>
              live.on /\ Known(live.items[m.item]) /\ live.items[m.item].seq = m.at.seq - 1
    PROVE  Served
<1>1. DeliveryOK /\ Len(wire) \in 0..Len(wire)
  BY SoundParts
<1>2. \/ ~subscribed /\ UNCHANGED <<delivery, asked, online, wire>>
      \/ CutOff(Len(wire))
      \/ /\ subscribed /\ UNCHANGED <<subscribed, capture, asked, online>>
         /\ Appended(m)
  BY <1>1, PushDef DEF Appended
<1>3. CASE ~subscribed /\ UNCHANGED <<delivery, asked, online, wire>>
  BY <1>3, UnsubscribedSevers DEF Served
<1>4. CASE CutOff(Len(wire))
  BY <1>1, <1>4, CutSevers DEF Served
<1>5. CASE /\ subscribed /\ UNCHANGED <<subscribed, capture, asked, online>>
           /\ Appended(m)
  BY <1>5 DEF Served, Pushed
<1> QED
  BY <1>2, <1>3, <1>4, <1>5

\* A change of the run.
LEMMA PublishServed ==
    ASSUME Sound, StoreTypes', NEW l \in Lives, PublishRun(l, status', stamp'), NowAhead,
           UNCHANGED rows,
           \/ live' = live /\ NowStream' = NowStream
           \/ ~Past(NowStream') /\ live'.items = NoItems
    PROVE  Served
<1>1. DeliveryOK /\ Len(wire) \in 0..Len(wire) /\ stamp' \in Nat
  BY SoundParts DEF StoreTypes
<1>2. \/ ~subscribed /\ UNCHANGED <<delivery, asked, online, wire>>
      \/ CutOff(Len(wire))
      \/ /\ subscribed /\ Reserve(FALSE, l, status', stamp')
         /\ UNCHANGED <<subscribed, asked, online, wire>>
  BY <1>1, PublishDef
<1>3. CASE ~subscribed /\ UNCHANGED <<delivery, asked, online, wire>>
  BY <1>3, UnsubscribedSevers DEF Served
<1>4. CASE CutOff(Len(wire))
  BY <1>1, <1>4, CutSevers DEF Served
<1>5. CASE /\ subscribed /\ Reserve(FALSE, l, status', stamp')
           /\ UNCHANGED <<subscribed, asked, online, wire>>
  <2>1. /\ slots' = Append(slots, Reserved(FALSE)) /\ FALSE \in BOOLEAN
        /\ IF slots = <<>> THEN live' = Needed(l, status') /\ capture' = Clone(live', stamp')
           ELSE UNCHANGED capture
    BY <1>1, <1>5 DEF Reserve, DeliveryOK, NothingStrands
  <2>2. live' = Needed(l, status') => (live'.on \/ status' = "ended")
    BY NeededType
  <2> QED
    BY <1>5, <2>1, <2>2 DEF Served, Published, Begun
<1> QED
  BY <1>2, <1>3, <1>4, <1>5

\* A row is written.
LEMMA RowServed ==
    ASSUME Sound, NEW i \in Items, i \in Messages => WriteMessage(i),
           i \in Inputs => StoreInput(i)
    PROVE  Served
<1>1. StoreTypes /\ StoreInv /\ DeliveryOK /\ Messages \cap Inputs = {}
  BY SoundParts, RunStreamConstants
<1>2. CASE i \in Messages
  <2>1. /\ live' = live /\ stamp' = stamp
        /\ rows' = [rows EXCEPT ![i] = rows'[i]] /\ rows'[i].seq = 0 /\ Known(rows'[i])
        /\ op' # NoOp /\ op'.item = i
    BY <1>1, <1>2, WriteMessageKept
  <2>2. op = NoOp /\ UNCHANGED <<delivery, wire, status, due, closed>>
    BY <1>2 DEF WriteMessage
  <2>3. Underway(i)' /\ \A j \in Items : Underway(j) => Underway(j)'
    BY <2>1, <2>2 DEF Underway
  <2> QED
    BY <2>1, <2>2, <2>3 DEF Served, Rowed
<1>3. CASE i \in Inputs
  <2>1. /\ live' = live /\ stamp' = stamp
        /\ rows' = [rows EXCEPT ![i] = rows'[i]] /\ rows'[i].seq = 0 /\ Known(rows'[i])
        /\ due'[i] /\ ~closed
    BY <1>1, <1>3, StoreInputKept
  <2>2. /\ UNCHANGED <<delivery, wire, status, op, closed>>
        /\ due' = [due EXCEPT ![i] = TRUE] /\ due \in [Inputs -> BOOLEAN]
    BY <1>1, <1>3 DEF StoreInput, StoreTypes
  <2>3. Underway(i)' /\ \A j \in Items : Underway(j) => Underway(j)'
    BY <1>3, <2>1, <2>2 DEF Underway
  <2> QED
    BY <2>1, <2>2, <2>3 DEF Served, Rowed
<1> QED
  BY <1>2, <1>3 DEF Items

\* An item is projected.
LEMMA ProjectServed ==
    ASSUME Sound, StoreTypes', status = "active", UNCHANGED <<rows, status, stamp>>,
           NEW i \in Items, NEW s \in States, NEW l \in Nat, Known(rows[i]), s # "none",
           LET c == Advance(Opened(live).items[i], s, l) IN Valid(i, c),
           Project(i, s, l),
           \A j \in Items : j # i => (Underway(j) => Underway(j)')
    PROVE  Served
<1> DEFINE now == Advance(Opened(live).items[i], s, l)
           m   == [kind |-> "item", stream |-> <<"live", Opened(live).id>>,
                   item |-> i, at |-> now]
<1>1. /\ StoreTypes /\ StoreInv /\ DeliveryOK /\ live \in Lives /\ live.on \in BOOLEAN
      /\ live.id \in Nat /\ live.items \in Contents
  BY SoundParts
<1>2. /\ now \in Cursor /\ Known(now)
      /\ now.seq = IF Known(Opened(live).items[i]) THEN Opened(live).items[i].seq + 1 ELSE 0
      /\ m \in Updates /\ Push(m)
      /\ live' = [Opened(live) EXCEPT !.items = [Opened(live).items EXCEPT ![i] = now]]
      /\ live'.on /\ live'.items = [Opened(live).items EXCEPT ![i] = now]
      /\ live'.id = Opened(live).id
  BY <1>1, ProjectDef
<1>3. m.stream = <<"live", live'.id>> /\ m.item = i /\ Claim(m) = now /\ m.kind # "delta"
  BY <1>2 DEF Claim
<1> HIDE DEF m, now
<1>4. Opened(live).items \in [Items -> Cursor]
  BY <1>1, OpenedType DEF Lives, Contents
<1>5. /\ live'.items[i] = now
      /\ \A j \in Items : j # i => live'.items[j] = Opened(live).items[j]
  BY <1>2, <1>4
<1>6. m.stream = NowStream'
  BY <1>2, <1>3, NowNext
<1>7. CASE live.on
  <2>1. Opened(live) = live
    BY <1>1, <1>7, OpenedType
  <2>2. NowItems'[i] = now /\ \A j \in Items : j # i => NowItems'[j] = NowItems[j]
    BY <1>2, <1>5, <2>1, NowNext, NowDef
  <2>3. NowItems[i] = IF Known(live.items[i]) THEN live.items[i] ELSE rows[i]
    BY NowDef
  <2>4. live.items[i].seq \in Nat /\ rows[i].seq = 0
    BY <1>1, LiveFields
  <2>5. NowStream' = NowStream /\ NowAhead
    <3>1. \/ Known(NowItems'[i]) /\ NowItems[i].seq < NowItems'[i].seq
          \/ Known(NowItems'[i]) /\ NowItems[i].seq = 0 /\ NowItems'[i].seq = 0
      BY <1>2, <2>1, <2>2, <2>3, <2>4
    <3>2. live'.on = live.on /\ live'.id = live.id
      BY <1>1, <1>2, <1>7, <2>1, OpenedType DEF Lives
    <3> QED
      BY <1>7, <2>2, <3>1, <3>2, SameStream
  <2> QED
    BY <1>2, <1>3, <1>5, <1>6, <1>7, <2>1, <2>5, PushServed
<1>8. CASE ~live.on
  <2>1. Opened(live).id = live.id + 1 /\ Opened(live).items = NoItems
    BY <1>1, <1>8, OpenedType
  <2>2. ~Past(NowStream') /\ NowAhead
    BY <1>1, <1>2, <2>1, NewStream
  <2>3. \A j \in Items : j # i => ~Known(live'.items[j])
    BY <1>5, <2>1, NoItemsType
  <2> QED
    BY <1>2, <1>3, <1>5, <1>6, <1>8, <2>2, <2>3, PushServed
<1> QED
  BY <1>1, <1>7, <1>8

\* Text is appended.
LEMMA DeltaServed ==
    ASSUME Sound, StoreTypes', NEW i \in Messages, Delta(i)
    PROVE  Served
<1> DEFINE c   == live.items[i]
           now == At(c.seq + 1, "running", c.len + 1)
           m   == [kind |-> "delta", stream |-> <<"live", live.id>>, item |-> i,
                   at |-> At(c.seq + 1, c.st, c.len)]
<1>1. /\ StoreTypes /\ StoreInv /\ DeliveryOK /\ live.items \in [Items -> Cursor] /\ i \in Items
  BY SoundParts DEF Contents, Items
<1>2. /\ Known(c) /\ now \in Cursor /\ Known(now) /\ now.seq = c.seq + 1
      /\ m.at.seq = c.seq + 1 /\ m \in Updates /\ Push(m) /\ Claim(m) = now
      /\ live.on /\ live'.on /\ live'.id = live.id
      /\ live'.items = [live.items EXCEPT ![i] = now]
  BY <1>1, DeltaDef
<1>3. m.stream = <<"live", live'.id>> /\ m.item = i
  BY <1>2
<1>4. c.seq \in Nat
  BY <1>1, LiveFields
<1>5. /\ UNCHANGED <<rows, status, stamp, op, due, closed>>
      /\ \A j \in Items : Underway(j) => Underway(j)'
  BY DEF Delta, Underway
<1> HIDE DEF m, now
<1>6. /\ live'.items[i] = now
      /\ \A j \in Items : j # i => live'.items[j] = live.items[j]
  BY <1>1, <1>2
<1>7. m.stream = NowStream'
  BY <1>2, <1>3, NowNext
<1>8. /\ NowItems'[i] = now /\ NowItems[i] = c
      /\ \A j \in Items : j # i => NowItems'[j] = NowItems[j]
  BY <1>1, <1>2, <1>5, <1>6, NowNext, NowDef
<1>9. NowStream' = NowStream /\ NowAhead
  <2>1. live'.on = live.on
    BY <1>1, <1>2, SoundParts DEF StoreTypes, Lives
  <2>2. Known(NowItems'[i]) /\ NowItems[i].seq < NowItems'[i].seq
    BY <1>2, <1>4, <1>8
  <2> QED
    BY <1>2, <1>8, <2>1, <2>2, SameStream
<1>10. live.items[i].seq = m.at.seq - 1
  BY <1>2, <1>4
<1> QED
  BY <1>2, <1>3, <1>5, <1>6, <1>7, <1>9, <1>10, PushServed

\* The store.
LEMMA StoreServed ==
    ASSUME Sound, StoreTypes', StoreStep
    PROVE  Served
<1>1. StoreTypes /\ StoreInv /\ DeliveryOK /\ live \in Lives /\ stamp \in Nat /\ live.id \in Nat
      /\ Messages \cap Inputs = {}
  BY SoundParts, RunStreamConstants
<1>2. ASSUME NEW i \in Messages, WriteMessage(i)
      PROVE  Served
  BY <1>1, <1>2, RowServed DEF Items
<1>3. ASSUME NEW i \in Inputs, StoreInput(i)
      PROVE  Served
  BY <1>1, <1>3, RowServed DEF Items
<1>4. ASSUME NEW i \in Messages, Delta(i)
      PROVE  Served
  BY <1>4, DeltaServed
<1>5. CASE ApplyMessage
  <2>1. /\ Project(op.item, op.st, op.len) /\ op' = NoOp
        /\ UNCHANGED <<status, closed, stamp, rows, due>>
    BY <1>5 DEF ApplyMessage
  <2>2. \A j \in Items : j # op.item => (Underway(j) => Underway(j)')
    BY <2>1 DEF Underway
  <2> QED
    BY <1>1, <1>5, <2>1, <2>2, ApplyMessageValid, ProjectServed
<1>6. ASSUME NEW i \in Inputs, ProjectInput(i)
      PROVE  Served
  <2>1. /\ due' = [due EXCEPT ![i] = FALSE] /\ due \in [Inputs -> BOOLEAN]
        /\ UNCHANGED <<status, closed, stamp, rows, op>>
    BY <1>1, <1>6 DEF ProjectInput, StoreTypes
  <2>2. \A j \in Items : j # i => (Underway(j) => Underway(j)')
    BY <2>1 DEF Underway
  <2>3. CASE closed
    <3>1. op = NoOp /\ \A j \in Items : ~Underway(j)
      BY <1>6, <2>3 DEF ProjectInput, Underway
    <3> QED
      BY <1>6, <2>1, <2>3, <3>1 DEF ProjectInput, Served, Still
  <2>4. CASE ~closed
    <3>1. Project(i, rows[i].st, 0) /\ (closed \/ status = "active")
      BY <1>1, <1>6, <2>4, ProjectInputValid DEF ProjectInput
    <3> QED
      BY <1>1, <1>6, <2>1, <2>2, <2>4, <3>1, ProjectInputValid, ProjectServed
  <2> QED
    BY <2>3, <2>4
<1>7. ASSUME NEW s \in {"waiting", "ended"}, Complete(s)
      PROVE  Served
  <2> DEFINE l == [live EXCEPT !.on = FALSE, !.items = NoItems]
  <2>1. /\ stamp' = stamp + 1 /\ PublishRun(l, status', stamp') /\ UNCHANGED rows /\ stamp' \in Nat
    BY <1>1, <1>7 DEF Complete
  <2>2. l \in Lives /\ ~l.on /\ l.items = NoItems /\ l.id = live.id
    BY <1>1, DroppedType
  <2> HIDE DEF l
  <2>3. live' \in {l, Needed(l, status')}
    BY <1>1, <2>1, <2>2, PublishDef
  <2>4. live'.items = NoItems /\ ((live'.on /\ live'.id > live.id) \/ (~live'.on /\ stamp' > stamp))
    <3>1. CASE live' = l
      BY <1>1, <2>1, <2>2, <3>1
    <3>2. CASE live' = Opened(l)
      BY <1>1, <2>1, <2>2, <3>2, OpenedType
    <3> QED
      BY <2>3, <3>1, <3>2 DEF Needed
  <2>5. ~Past(NowStream') /\ NowAhead
    BY <2>4, NewStream
  <2> QED
    BY <2>1, <2>2, <2>4, <2>5, PublishServed
<1>8. CASE Reopen \/ Touch
  <2>1. /\ stamp' = stamp + 1 /\ PublishRun(live, status', stamp') /\ UNCHANGED rows
        /\ stamp' \in Nat
    BY <1>1, <1>8 DEF Reopen, Touch
  <2>2. live' \in {live, Needed(live, status')}
    BY <1>1, <2>1, PublishDef
  <2>3. /\ NowAhead
        /\ \/ live' = live /\ NowStream' = NowStream
           \/ ~Past(NowStream') /\ live'.items = NoItems
    BY <2>1, <2>2, NeededAhead
  <2> QED
    BY <1>1, <2>1, <2>3, PublishServed
<1> QED
  BY <1>2, <1>3, <1>4, <1>5, <1>6, <1>7, <1>8 DEF StoreStep

\* A capture that ends, with a snapshot or without.
LEMMA FillServed ==
    ASSUME Sound, StoreTypes', NEW m \in Snapshots \cup {Failure}, capture # Idle, Fill(m),
           IsSnapshot(m) => /\ capture.phase = "read" /\ m.stream = capture.stream
                            /\ m.items = capture.items /\ m.run = capture.run,
           UNCHANGED <<rows, status, stamp, op, due, closed, subscribed, asked, online>>
    PROVE  Served
<1>1. DeliveryOK /\ live \in Lives /\ stamp \in Nat /\ stamp' = stamp /\ live.on \in BOOLEAN
  BY SoundParts
<1>2. m \in Wired
  BY DEF Wired, Words, Failure
<1>3. subscribed /\ subscribed'
  BY <1>1 DEF DeliveryOK, NothingStrands
<1>4. /\ \E n \in 0..(Len(slots) - 1) :
           /\ Len(wire') = Len(wire) + 1 + n /\ Len(slots') = Len(slots) - 1 - n
           /\ \A k \in 1..Len(wire) : wire'[k] = wire[k]
           /\ wire'[Len(wire) + 1] = m
           /\ \A k \in 1..n : wire'[Len(wire) + 1 + k] = slots[k + 1]
           /\ \A k \in 1..Len(slots') : slots'[k] = slots[n + 1 + k]
      /\ IF slots' = <<>> THEN capture' = Idle /\ live' = live
         ELSE live' = Needed(live, status) /\ capture' = Clone(live', stamp)
  BY <1>1, <1>2, FillDef
<1>5. /\ NowAhead
      /\ \/ live' = live /\ NowStream' = NowStream
         \/ ~Past(NowStream') /\ live'.items = NoItems
  BY <1>4, NeededAhead
<1>6. IF slots' = <<>> THEN capture' = Idle ELSE Begun
  BY <1>1, <1>4, NeededType DEF Begun
<1>7. \/ live' = live /\ NowStream' = NowStream
      \/ ~Past(NowStream') /\ live'.items = NoItems /\ slots' # <<>>
  <2>1. live' = live => NowStream' = NowStream
    BY <1>1, NowNext, NowDef
  <2> QED
    BY <1>4, <1>5, <2>1
<1> QED
  BY <1>3, <1>4, <1>5, <1>6, <1>7 DEF Served, Filled

\* The connection.
LEMMA ConnectionServed ==
    ASSUME Sound, StoreTypes', Serve \/ CaptureFails \/ Crash \/ Drop \/ Reconnect
    PROVE  Served
<1>1. StoreTypes /\ StoreInv /\ DeliveryOK /\ live \in Lives /\ stamp \in Nat /\ live.id \in Nat
      /\ Len(wire) \in 0..Len(wire) /\ slots \in Seq(Waiting) /\ Len(wire) \in Nat
      /\ wire \in Seq(Wired)
  BY SoundParts
<1>2. CASE Settle
  <2>1. /\ capture.phase = "read" /\ Fill(Captured(Head(slots).answer)) /\ capture # Idle
        /\ UNCHANGED <<status, closed, stamp, rows, op, due, subscribed, asked, online>>
    BY <1>2, IdleType DEF Settle
  <2>2. Head(slots).answer \in BOOLEAN
    <3>1. slots # <<>> /\ Head(slots).kind = "reserved"
      BY <1>1, <2>1 DEF DeliveryOK, NothingStrands
    <3>2. Head(slots) \in Slots
      BY <1>1, <3>1, HeadTailProperties, WaitingKinds
    <3> QED
      BY <3>2 DEF Slots
  <2> DEFINE m == Captured(Head(slots).answer)
  <2>3. m \in Snapshots /\ m.stream = capture.stream /\ m.items = capture.items
        /\ m.run = capture.run
    BY <1>1, <2>1, <2>2, CapturedType
  <2> HIDE DEF m
  <2> QED
    BY <2>1, <2>3, FillServed DEF m
<1>3. CASE CaptureFails
  <2>1. capture # Idle /\ UNCHANGED <<status, closed, stamp, rows, op, due>>
    BY <1>3 DEF CaptureFails
  <2>2. CASE Head(slots).answer
    <3>1. Fill(Failure) /\ UNCHANGED <<subscribed, asked, online>>
      BY <1>3, <2>2 DEF CaptureFails
    <3>2. ~IsSnapshot(Failure)
      BY DEF IsSnapshot, Failure
    <3> QED
      BY <2>1, <3>1, <3>2, FillServed
  <2>3. CASE ~Head(slots).answer
    <3>1. CutOff(Len(wire)) /\ UNCHANGED live
      BY <1>3, <2>3 DEF CaptureFails
    <3> QED
      BY <1>1, <2>1, <3>1, NeededAhead, CutSevers DEF Served
  <2> QED
    BY <2>2, <2>3
<1>4. CASE HandleSubscribe
  <2>1. /\ subscribed' /\ UNCHANGED <<wire, rows, status, stamp>>
        /\ Reserve(TRUE, live, status, stamp)
    BY <1>4 DEF HandleSubscribe
  <2>2. /\ slots' = Append(slots, Reserved(TRUE)) /\ live' \in {live, Needed(live, status')}
        /\ IF slots = <<>>
           THEN live' = Needed(live, status') /\ capture' = Clone(live', stamp')
           ELSE UNCHANGED capture /\ subscribed
    BY <1>1, <2>1 DEF Reserve, DeliveryOK, NothingStrands
  <2>3. /\ NowAhead
        /\ \/ live' = live /\ NowStream' = NowStream
           \/ ~Past(NowStream') /\ live'.items = NoItems
    BY <2>1, <2>2, NeededAhead
  <2>4. slots = <<>> => Begun
    BY <1>1, <2>2, NeededType DEF Begun
  <2>5. TRUE \in BOOLEAN
    OBVIOUS
  <2> QED
    BY <2>1, <2>2, <2>3, <2>4, <2>5 DEF Served, Published
<1>5. CASE RefuseSubscribe
  <2>1. CutOff(Len(wire)) /\ UNCHANGED store
    BY <1>5 DEF RefuseSubscribe
  <2> QED
    BY <1>1, <2>1, NeededAhead, CutSevers DEF Served, store
<1>6. CASE Drop
  <2>1. UNCHANGED store /\ \E n \in 0..Len(wire) : CutOff(n)
    BY <1>6 DEF Drop
  <2> QED
    BY <1>1, <2>1, NeededAhead, CutSevers DEF Served, store
<1>7. CASE Crash
  <2>1. /\ stamp' = stamp + 1 /\ live' = [live EXCEPT !.on = FALSE, !.items = NoItems]
        /\ \E n \in 0..Len(wire) : CutOff(n)
    BY <1>7 DEF Crash
  <2>2. ~live'.on /\ stamp' > stamp
    BY <1>1, <2>1, DroppedType
  <2> QED
    BY <2>1, <2>2, NewStream, CutSevers DEF Served
<1>8. CASE Reconnect
  <2>1. /\ ~online /\ wire' = Append(wire, [kind |-> "connected"])
        /\ UNCHANGED <<store, delivery>>
    BY <1>8 DEF Reconnect
  <2>2. ~subscribed /\ slots = <<>> /\ capture = Idle
    BY <1>1, <2>1 DEF DeliveryOK, NothingStrands
  <2>3. NowAhead
    BY <2>1, NeededAhead DEF store
  <2>4. /\ Len(wire') = Len(wire) + 1
        /\ \A k \in 1..Len(wire) : wire'[k] = wire[k]
        /\ wire'[Len(wire) + 1].kind = "connected"
    BY <1>1, <2>1, AppendProperties
  <2> QED
    BY <1>1, <2>1, <2>2, <2>3, <2>4 DEF Served, Severed, delivery
<1> QED
  BY <1>2, <1>3, <1>4, <1>5, <1>6, <1>7, <1>8 DEF Serve, Served

\* So every step of the server is one of these.
LEMMA StepServed ==
    ASSUME Sound, StoreTypes', [Next]_vars, ~Take
    PROVE  Served
<1>1. CASE StoreStep
  BY <1>1, StoreServed
<1>2. CASE Serve \/ CaptureFails \/ Crash \/ Drop \/ Reconnect
  BY <1>2, ConnectionServed
<1>3. CASE UNCHANGED vars
  BY <1>3 DEF vars, store, delivery, Served, Still, Underway
<1> QED
  BY <1>1, <1>2, <1>3 DEF Next

-----------------------------------------------------------------------------
(* Streams                                                                  *)

\* Identifiers only grow.
LEMMA PastKept ==
    ASSUME Sound, StoreKept
    PROVE  (\A S \in Streams : Past(S) => Past(S)') /\ Past(NowStream)'
<1>1. /\ live.id \in Nat /\ stamp \in Nat /\ live'.id \in Nat /\ stamp' \in Nat
      /\ live.id <= live'.id /\ stamp <= stamp' /\ StoreTypes'
  BY SoundParts DEF StoreKept, StoreTypes, Lives
<1>2. ASSUME NEW S \in Streams, Past(S)
      PROVE  Past(S)'
  <2>1. S[2] \in Nat
    BY DEF Streams
  <2> QED
    BY <1>1, <1>2, <2>1 DEF Past
<1>3. Past(NowStream)'
  BY <1>1, NowNext DEF Past
<1> QED
  BY <1>2, <1>3

\* What was sent is of the past.
LEMMA WireStreams ==
    ASSUME Sound
    PROVE  /\ view.stream \in Streams /\ capture.stream \in Streams
           /\ \A k \in 1..Len(pending) : pending[k].stream \in Streams
           /\ \A k \in 1..Len(wire) : "stream" \in DOMAIN wire[k] => wire[k].stream \in Streams
           /\ \A k \in 1..Len(slots) : "stream" \in DOMAIN slots[k] => slots[k].stream \in Streams
<1>1. /\ wire \in Seq(Wired) /\ slots \in Seq(Waiting) /\ view \in Views /\ capture \in Captures
      /\ pending \in Seq(Updates)
  BY SoundParts
<1>2. ASSUME NEW k \in 1..Len(wire), "stream" \in DOMAIN wire[k]
      PROVE  wire[k].stream \in Streams
  <2>1. wire[k] \in Wired /\ wire[k] \notin Words
    BY <1>1, <1>2, WordFields
  <2> QED
    BY <2>1, UpdateFields, SnapshotFields DEF Wired
<1>3. ASSUME NEW k \in 1..Len(slots), "stream" \in DOMAIN slots[k]
      PROVE  slots[k].stream \in Streams
  <2>1. slots[k] \in Waiting /\ slots[k] \notin Slots
    BY <1>1, <1>3, WordFields
  <2> QED
    BY <2>1, UpdateFields DEF Waiting
<1>4. \A k \in 1..Len(pending) : pending[k].stream \in Streams
  BY <1>1, UpdateFields
<1> QED
  BY <1>1, <1>2, <1>3, <1>4 DEF Views, Captures

\* What the server does is of its own stream, or of one that it captured.
LEMMA StreamsServed ==
    ASSUME Sound, StoreKept, Steady, Served
    PROVE  StreamsInv'
<1>1. /\ StreamsInv /\ wire \in Seq(Wired) /\ slots \in Seq(Waiting) /\ Len(wire) \in Nat
      /\ Len(slots) \in Nat /\ pending' = pending /\ view' = view /\ stamp' \in Nat
      /\ live' \in Lives
  BY SoundParts DEF Steady, projection, StoreKept, StoreTypes
<1> DEFINE P(S) == (S[1] = "live" => S[2] <= live'.id) /\ (S[1] = "snapshot" => S[2] <= stamp')
           Q(m) == "stream" \in DOMAIN m => P(m.stream)
<1>2. (\A S \in Streams : Past(S) => P(S)) /\ P(NowStream')
  BY PastKept DEF Past
<1> HIDE DEF P
<1>3. /\ P(view.stream) /\ P(capture.stream)
      /\ \A k \in 1..Len(pending) : P(pending[k].stream)
      /\ \A k \in 1..Len(wire) : Q(wire[k])
      /\ \A k \in 1..Len(slots) : Q(slots[k])
  BY <1>1, <1>2, WireStreams DEF StreamsInv
<1>4. Begun => P(capture'.stream)
  BY <1>1, <1>2, CloneType DEF Begun, NowStream
<1>5. P(Idle.stream)
  BY DEF Idle, P
<1>6. \A m : m.kind \in {"failure", "connected"} /\ m \in Words => Q(m)
  BY WordFields
<1>7. wire' \in Seq(Wired) /\ slots' \in Seq(Waiting) /\ Len(wire') \in Nat /\ Len(slots') \in Nat
  BY DEF StoreKept, DeliveryOK, DeliveryTypes
<1> SUFFICES /\ P(capture'.stream)
             /\ \A k \in 1..Len(wire') : Q(wire'[k])
             /\ \A k \in 1..Len(slots') : Q(slots'[k])
  BY <1>1, <1>3 DEF StreamsInv, Past, P
<1>8. ASSUME NEW m, Appended(m), Q(m)
      PROVE  /\ \A k \in 1..Len(wire') : Q(wire'[k])
             /\ \A k \in 1..Len(slots') : Q(slots'[k])
  <2> HIDE DEF Q
  <2>1. CASE UNCHANGED slots /\ wire' = Append(wire, m)
    <3>1. \A k \in 1..Len(wire') : wire'[k] = m \/ (k \in 1..Len(wire) /\ wire'[k] = wire[k])
      BY <1>1, <2>1
    <3> QED
      BY <1>3, <1>8, <2>1, <3>1
  <2>2. CASE UNCHANGED wire /\ slots' = Append(slots, m)
    <3>1. \A k \in 1..Len(slots') : slots'[k] = m \/ (k \in 1..Len(slots) /\ slots'[k] = slots[k])
      BY <1>1, <2>2
    <3> QED
      BY <1>3, <1>8, <2>2, <3>1
  <2> QED
    BY <1>8, <2>1, <2>2 DEF Appended
<1>9. CASE Still \/ Rowed
  <2> HIDE DEF Q
  <2> QED
    BY <1>3, <1>9 DEF Still, Rowed, delivery
<1>10. CASE Severed
  <2>1. PICK n \in 0..Len(wire) :
           /\ Len(wire') \in {n, n + 1}
           /\ \A k \in 1..n : wire'[k] = wire[k]
           /\ Len(wire') = n + 1 => wire'[n + 1].kind \in {"failure", "connected"}
    BY <1>10 DEF Severed
  <2>2. slots' = <<>> /\ capture' = Idle
    BY <1>10 DEF Severed
  <2>3. ASSUME NEW k \in 1..Len(wire')
        PROVE  Q(wire'[k])
    <3>1. CASE k <= n
      <4>1. k \in 1..n /\ k \in 1..Len(wire)
        BY <1>1, <2>1, <3>1
      <4> HIDE DEF Q
      <4> QED
        BY <1>3, <2>1, <4>1
    <3>2. CASE k > n
      <4>1. k = n + 1 /\ Len(wire') = n + 1
        BY <1>1, <1>7, <2>1, <3>2
      <4>2. wire'[k] \in Wired /\ wire'[k].kind \in {"failure", "connected"}
        BY <1>7, <2>1, <4>1
      <4>3. wire'[k] \in Words
        BY <4>2, WiredKinds
      <4> QED
        BY <4>2, <4>3, <1>6
    <3> QED
      BY <1>7, <2>1, <3>1, <3>2
  <2> QED
    BY <1>5, <2>2, <2>3
<1>11. CASE Pushed
  <2>1. PICK m \in Updates : Appended(m) /\ m.stream = NowStream' /\ UNCHANGED capture
    BY <1>11 DEF Pushed
  <2>2. Q(m)
    BY <1>2, <2>1
  <2> QED
    BY <1>3, <1>8, <2>1, <2>2
<1>12. CASE Published
  <2>1. PICK k \in BOOLEAN : /\ slots' = Append(slots, Reserved(k)) /\ UNCHANGED wire
                             /\ IF slots = <<>> THEN Begun ELSE UNCHANGED capture
    BY <1>12 DEF Published
  <2>2. Q(Reserved(k))
    BY WordFields DEF Reserved, Slots
  <2>3. \A j \in 1..Len(slots') : \/ slots'[j] = Reserved(k)
                                  \/ j \in 1..Len(slots) /\ slots'[j] = slots[j]
    BY <1>1, <2>1
  <2> HIDE DEF Q
  <2> QED
    BY <1>3, <1>4, <2>1, <2>2, <2>3
<1>13. CASE Filled
  <2>1. PICK m \in Snapshots \cup {Failure}, n \in 0..(Len(slots) - 1) :
           /\ IsSnapshot(m) => m.stream = capture.stream
           /\ Len(wire') = Len(wire) + 1 + n /\ Len(slots') = Len(slots) - 1 - n
           /\ \A k \in 1..Len(wire) : wire'[k] = wire[k]
           /\ wire'[Len(wire) + 1] = m
           /\ \A k \in 1..n : wire'[Len(wire) + 1 + k] = slots[k + 1]
           /\ \A k \in 1..Len(slots') : slots'[k] = slots[n + 1 + k]
           /\ IF slots' = <<>> THEN capture' = Idle ELSE Begun
    BY <1>13 DEF Filled
  <2>2. Q(m)
    <3>1. CASE m \in Snapshots
      BY <1>3, <2>1, <3>1, SnapshotFields DEF IsSnapshot
    <3>2. CASE m = Failure
      BY <3>2, WordFields DEF Failure, Words
    <3> QED
      BY <3>1, <3>2
  <2> HIDE DEF Q
  <2>3. ASSUME NEW k \in 1..Len(wire')
        PROVE  Q(wire'[k])
    <3>1. CASE k <= Len(wire)
      BY <1>1, <1>3, <2>1, <3>1
    <3>2. CASE k = Len(wire) + 1
      BY <2>1, <2>2, <3>2
    <3>3. CASE k > Len(wire) + 1
      <4>1. /\ k - Len(wire) - 1 \in 1..n /\ k = Len(wire) + 1 + (k - Len(wire) - 1)
            /\ (k - Len(wire) - 1) + 1 \in 1..Len(slots)
        BY <1>1, <2>1, <3>3
      <4> QED
        BY <1>3, <2>1, <4>1
    <3>4. k <= Len(wire) \/ k = Len(wire) + 1 \/ k > Len(wire) + 1
      BY <1>1, <1>7
    <3> QED
      BY <3>1, <3>2, <3>3, <3>4
  <2>4. ASSUME NEW k \in 1..Len(slots')
        PROVE  Q(slots'[k])
    <3>1. n + 1 + k \in 1..Len(slots)
      BY <1>1, <2>1
    <3> QED
      BY <1>3, <2>1, <3>1
  <2> QED
    BY <1>4, <1>5, <2>1, <2>3, <2>4
<1>14. CASE ReadRows
  <2>1. capture'.stream = capture.stream /\ UNCHANGED <<wire, slots>>
    <3>1. capture \in Captures
      BY SoundParts
    <3> QED
      BY <1>14, <3>1 DEF ReadRows, Captures
  <2> HIDE DEF Q
  <2> QED
    BY <1>3, <2>1
<1> QED
  BY <1>9, <1>10, <1>11, <1>12, <1>13, <1>14 DEF Served

\* What the client takes, it has from the wire.
LEMMA StreamsTaken ==
    ASSUME Sound, Take
    PROVE  StreamsInv'
<1>1. /\ StreamsInv /\ wire \in Seq(Wired) /\ Len(wire) \in Nat /\ TypeOK /\ view \in Views
      /\ pending \in Seq(Updates) /\ ClientTypes
  BY SoundParts
<1>2. PICK p \in 1..Len(wire) :
        /\ wire[p] \in Wired
        /\ \/ TakeUpdate(wire[p]) \/ TakeSnapshot(wire[p]) \/ TakeConnected(wire[p])
           \/ TakeAnswer(wire[p]) \/ TakeFailure(wire[p])
        /\ wire' \in Seq(Wired) /\ Len(wire') = Len(wire) - 1
        /\ \A k \in 1..(Len(wire) - 1) : wire'[k] = IF k < p THEN wire[k] ELSE wire[k + 1]
        /\ UNCHANGED <<store, delivery, online, turns>>
  BY <1>1, TakeDef
<1> DEFINE m == wire[p]
<1>3. "stream" \in DOMAIN m => Past(m.stream)
  BY <1>1, <1>2 DEF StreamsInv
<1>4. /\ UNCHANGED <<live, stamp, capture, slots>>
  BY <1>2 DEF store, delivery
<1> DEFINE P(S) == (S[1] = "live" => S[2] <= live.id) /\ (S[1] = "snapshot" => S[2] <= stamp)
<1>5. /\ P(view.stream) /\ P(capture.stream)
      /\ \A k \in 1..Len(pending) : P(pending[k].stream)
      /\ \A k \in 1..Len(wire) : "stream" \in DOMAIN wire[k] => P(wire[k].stream)
      /\ \A k \in 1..Len(slots) : "stream" \in DOMAIN slots[k] => P(slots[k].stream)
      /\ "stream" \in DOMAIN m => P(m.stream)
  BY <1>1, <1>3 DEF StreamsInv, Past
<1> SUFFICES /\ P(view'.stream)
             /\ \A k \in 1..Len(pending') : P(pending'[k].stream)
             /\ \A k \in 1..Len(wire') : "stream" \in DOMAIN wire'[k] => P(wire'[k].stream)
  BY <1>4, <1>5 DEF StreamsInv, Past
<1> HIDE DEF P
<1>6. \A k \in 1..Len(wire') : "stream" \in DOMAIN wire'[k] => P(wire'[k].stream)
  <2> TAKE k \in 1..Len(wire')
  <2>1. wire'[k] = wire[k] \/ (k + 1 \in 1..Len(wire) /\ wire'[k] = wire[k + 1])
    BY <1>1, <1>2
  <2>2. k \in 1..Len(wire)
    BY <1>1, <1>2
  <2> QED
    BY <1>5, <2>1, <2>2
<1>7. \A k \in 1..Len(<<>>) : P(<<>>[k].stream)
  OBVIOUS
<1>8. CASE TakeUpdate(m)
  <2>1. m \in Updates
    BY <1>2, <1>8, WiredKinds DEF TakeUpdate
  <2>2. view'.stream = view.stream
    BY <1>1, <1>8, <2>1, AppliedType DEF TakeUpdate
  <2>3. pending' \in {pending, <<>>, Append(pending, m)}
    BY <1>8 DEF TakeUpdate, Synchronize, Ask
  <2>4. \A k \in 1..Len(Append(pending, m)) : P(Append(pending, m)[k].stream)
    <3>1. P(m.stream)
      BY <1>5, <2>1, UpdateFields
    <3>2. \A k \in 1..Len(Append(pending, m)) : \/ Append(pending, m)[k] = m
                                               \/ /\ k \in 1..Len(pending)
                                                  /\ Append(pending, m)[k] = pending[k]
      BY <1>1
    <3> HIDE DEF m
    <3> QED
      BY <1>5, <3>1, <3>2
  <2> QED
    BY <1>5, <1>6, <1>7, <2>2, <2>3, <2>4
<1>9. CASE TakeSnapshot(m) \/ TakeAnswer(m)
  <2>1. m \in Snapshots
    BY <1>2, <1>9, WiredKinds DEF TakeSnapshot, TakeAnswer
  <2>2. view' = Accept(m).view /\ Accept(m).view.stream = m.stream /\ P(m.stream)
    BY <1>1, <1>5, <1>9, <2>1, AcceptType, SnapshotFields DEF TakeSnapshot, TakeAnswer
  <2>3. pending' = <<>>
    BY <1>9 DEF TakeSnapshot, TakeAnswer, Synchronize, Ask
  <2> QED
    BY <1>6, <1>7, <2>2, <2>3
<1>10. CASE TakeConnected(m)
  <2>1. view' = view /\ pending' \in {pending, <<>>}
    BY <1>10 DEF TakeConnected, Synchronize, Ask
  <2> QED
    BY <1>5, <1>6, <1>7, <2>1
<1>11. CASE TakeFailure(m)
  <2>1. view' = Abort.view /\ pending' = <<>> /\ Further(view, Abort.view)
    BY <1>1, <1>11, AbortType DEF TakeFailure
  <2> QED
    BY <1>5, <1>6, <1>7, <2>1 DEF Further
<1> QED
  BY <1>2, <1>8, <1>9, <1>10, <1>11

-----------------------------------------------------------------------------
(* The flow: what every step of the server keeps                            *)

\* What is kept up to a message is kept up to an earlier one.
LEMMA KeptLess ==
    ASSUME NEW n \in Nat, NEW k \in 0..n, Kept(n)
    PROVE  Kept(k)
<1>1. \A j \in 1..k : j \in 1..n
  OBVIOUS
<1> QED
  BY <1>1 DEF Kept

\* So is what is before.
LEMMA BeforeLess ==
    ASSUME NEW n \in Nat, NEW k \in 0..n, NEW S, NEW f, Before(n, S, f)
    PROVE  Before(k, S, f)
<1>1. \A j \in 1..k : j \in 1..n
  OBVIOUS
<1> QED
  BY <1>1 DEF Before

\* Contents stay in order, if what is new on the way says what is true now.
LEMMA OrderedKept ==
    ASSUME Sound, StoreTypes', Ordered, NowAhead, UNCHANGED <<view, pending>>,
           NEW N \in 0..Total, Kept(N), Total' \in Nat, N <= Total',
           \A k \in (N + 1)..Total' :
              /\ IsUpdate(Msg(k))' => OldUpdate(Msg(k)', NowStream', NowItems')
              /\ Told(k)' => StreamOf(k)' = NowStream' /\ ItemsOf(k)' = NowItems'
    PROVE  Ordered'
<1>1. PICK S : S = NowStream'
  OBVIOUS
<1>2. PICK f : f = NowItems'
  OBVIOUS
<1>3. Total \in Nat /\ f \in Contents /\ N \in Nat
  BY <1>2, SoundParts, NowNext
<1>4. Before(Total, S, f)
  BY <1>1, <1>2, <1>3, BeforeAhead DEF Ordered
<1>5. Before(N, S, f)'
  BY <1>3, <1>4, BeforeLess, KeptBefore
<1>6. OldItems(S, f, S, f)
  BY <1>3, ContentsFields, NotAfterOrder DEF OldItems
<1>7. ASSUME NEW k \in 1..Total'
      PROVE  /\ IsUpdate(Msg(k))' => OldUpdate(Msg(k)', S, f)
             /\ Told(k)' => OldItems(StreamOf(k)', ItemsOf(k)', S, f)
  <2>1. CASE k <= N
    <3>1. k \in 1..N
      BY <1>3, <2>1
    <3> QED
      BY <1>5, <3>1 DEF Before
  <2>2. CASE ~(k <= N)
    <3>1. k \in (N + 1)..Total'
      BY <1>3, <2>2
    <3> QED
      BY <1>1, <1>2, <1>6, <3>1
  <2> QED
    BY <2>1, <2>2
<1>8. /\ OldItems(view'.stream, view'.items, S, f)
      /\ \A k \in 1..Len(pending') : OldUpdate(pending'[k], S, f)
  BY <1>5 DEF Before
<1>9. Before(Total, NowStream, NowItems)'
  BY <1>1, <1>2, <1>7, <1>8 DEF Before
<1>10. ASSUME NEW k \in 1..Total', Told(k)'
       PROVE  Before(k - 1, StreamOf(k), ItemsOf(k))'
  <2>1. CASE k <= N
    <3>1. k \in 1..N /\ k \in 1..Total /\ k - 1 \in 0..N /\ k - 1 \in Nat
      BY <1>3, <2>1
    <3>2. Told(k) /\ StreamOf(k)' = StreamOf(k) /\ ItemsOf(k)' = ItemsOf(k)
      BY <1>10, <3>1 DEF Kept
    <3>3. Before(k - 1, StreamOf(k), ItemsOf(k))
      BY <3>1, <3>2 DEF Ordered
    <3>4. PICK T, g : T = StreamOf(k) /\ g = ItemsOf(k)
      OBVIOUS
    <3>5. Before(k - 1, T, g)'
      BY <1>3, <3>1, <3>3, <3>4, KeptLess, KeptBefore
    <3> QED
      BY <3>2, <3>4, <3>5 DEF Before
  <2>2. CASE ~(k <= N)
    <3>1. k \in (N + 1)..Total' /\ \A j \in 1..(k - 1) : j \in 1..Total'
      BY <1>3, <2>2
    <3>2. StreamOf(k)' = S /\ ItemsOf(k)' = f
      BY <1>1, <1>2, <1>10, <3>1
    <3> QED
      BY <1>7, <1>8, <3>1, <3>2 DEF Before
  <2> QED
    BY <2>1, <2>2
<1> QED
  BY <1>9, <1>10 DEF Ordered

\* No gap opens before a message that is kept.
LEMMA LedUpKept ==
    ASSUME Sound, UNCHANGED <<view, ready, fate>>, NEW p \in 1..Total, Covers(p - 1),
           LedUp(p), IsUpdate(Msg(p)) \/ IsUpdate(Msg(p))' => Msg(p)' = Msg(p)
    PROVE  LedUp(p)'
<1> SUFFICES ASSUME Msg(p)'.kind = "delta"
             PROVE  LedUp(p)'
  BY DEF LedUp
<1>1. PICK S, i, q : S = Msg(p).stream /\ i = Msg(p).item /\ q = Msg(p).at.seq - 1
  OBVIOUS
<1>2. Msg(p)' = Msg(p) /\ Msg(p).kind = "delta" /\ IsUpdate(Msg(p))
  BY DEF IsUpdate
<1>3. i \in Items /\ p - 1 \in Nat
  BY <1>1, <1>2, MsgDef, SoundParts, UpdateFields
<1>4. Fed(p - 1, S, i, q)'
  BY <1>1, <1>2, <1>3, KeptFed DEF LedUp
<1> QED
  BY <1>1, <1>2, <1>4 DEF LedUp, Fed, Brings, InView

\* What has come to a position has still after a message that is no barrier.
LEMMA FedMore ==
    ASSUME NEW n \in Nat, NEW S, NEW i, NEW q, Fed(n, S, i, q)', ~IsBarrier(Msg(n + 1)')
    PROVE  Fed(n + 1, S, i, q)'
<1>1. ASSUME NEW a \in Nat, Clear(a, n)'
      PROVE  Clear(a, n + 1)'
  <2>1. \A j \in a..(n + 1) : j \in a..n \/ j = n + 1
    OBVIOUS
  <2> QED
    BY <1>1, <2>1 DEF Clear
<1>2. CASE \E k \in 1..n : Brings(k, S, i, q)' /\ Clear(k + 1, n)'
  <2>1. PICK k \in 1..n : Brings(k, S, i, q)' /\ Clear(k + 1, n)'
    BY <1>2
  <2>2. k \in 1..(n + 1) /\ Clear(k + 1, n + 1)'
    BY <1>1, <2>1
  <2> QED
    BY <2>1, <2>2 DEF Fed
<1>3. CASE Clear(1, n)' /\ ((ready' /\ fate' # "failed") => InView(S, i, q)')
  BY <1>1, <1>3 DEF Fed
<1> QED
  BY <1>2, <1>3 DEF Fed

\* An item that has not changed is shown as it was.
Unmoved(i) == /\ live'.items[i] = live.items[i] /\ rows'[i] = rows[i]
              /\ Underway(i) => Underway(i)'

\* A follower stays one.
LEMMA FollowsKept ==
    ASSUME NEW b \in Nat, NEW i, Follows(b, i), live'.items[i] = live.items[i],
           NowStream' = NowStream, Total \in Nat, Total' \in Nat, Total <= Total',
           \A k \in (b + 1)..Total : IsUpdate(Msg(k)) => Msg(k)' = Msg(k)
    PROVE  Follows(b, i)'
<1>1. PICK k \in (b + 1)..Total :
        /\ IsUpdate(Msg(k)) /\ Msg(k).stream = NowStream /\ Msg(k).item = i
        /\ Claim(Msg(k)) = live.items[i]
  BY DEF Follows
<1>2. k \in (b + 1)..Total' /\ Msg(k)' = Msg(k)
  BY <1>1
<1> QED
  BY <1>1, <1>2 DEF Follows

\* What the server says stays so.
LEMMA CurrentKept ==
    ASSUME NEW b \in Nat, NEW S, NEW f, Current(b, S, f), NEW J,
           NowStream' = NowStream, live.on \/ status = "ended" => live'.on \/ status' = "ended",
           Total \in Nat, Total' \in Nat, Total <= Total',
           \A k \in (b + 1)..Total : IsUpdate(Msg(k)) => Msg(k)' = Msg(k),
           \A i \in Items \ J : Unmoved(i),
           \A i \in Items \cap J : Shows(f[i], i)' \/ Follows(b, i)'
    PROVE  Current(b, S, f)'
<1>1. ASSUME NEW i \in Items \ J, Shows(f[i], i)
      PROVE  Shows(f[i], i)'
  BY <1>1 DEF Shows, Unmoved
<1>2. ASSUME NEW i \in Items \ J, Follows(b, i)
      PROVE  Follows(b, i)'
  BY <1>2, FollowsKept DEF Unmoved
<1>3. \A i \in Items : Shows(f[i], i)' \/ Follows(b, i)'
  BY <1>1, <1>2 DEF Current
<1> QED
  BY <1>3 DEF Current

\* What is right of the flow while nothing has overtaken.
Flow == Ordered /\ Gapless /\ UpToDate

\* When a connection ends, what is left was in order.
LEMMA SeveredFlow ==
    ASSUME Sound, StoreKept, Steady, Flow, Severed
    PROVE  Flow'
<1>1. PICK n \in 0..Len(wire) :
        /\ Len(wire') \in {n, n + 1}
        /\ \A k \in 1..n : wire'[k] = wire[k]
        /\ Len(wire') = n + 1 => wire'[n + 1].kind \in {"failure", "connected"}
  BY DEF Severed
<1>2. /\ ~subscribed' /\ slots' = <<>> /\ capture' = Idle /\ NowAhead
      /\ Len(wire') \in Nat /\ StoreTypes' /\ UNCHANGED <<view, pending, ready, fate>>
      /\ n \in Nat /\ Len(wire) \in Nat /\ Total \in Nat /\ Len(wire) <= Total
      /\ n \in 0..Total
  BY SoundParts DEF Severed, StoreKept, DeliveryOK, DeliveryTypes, Steady, projection
<1>3. Total' = Len(wire') /\ n <= Total' /\ Total' \in Nat
  BY <1>1, <1>2 DEF Total
<1>4. Kept(n)
  <2> SUFFICES ASSUME NEW k \in 1..n
               PROVE  /\ Msg(k)' = Msg(k)
                      /\ Told(k)' => Told(k) /\ StreamOf(k)' = StreamOf(k)
                                     /\ ItemsOf(k)' = ItemsOf(k)
    BY DEF Kept
  <2>1. k <= Len(wire) /\ k <= Len(wire') /\ wire'[k] = wire[k] /\ k # Len(wire') + 1
    BY <1>1, <1>2
  <2> QED
    BY <2>1 DEF Msg, Told, StreamOf, ItemsOf
<1>5. ASSUME NEW k \in (n + 1)..Total'
      PROVE  /\ ~IsUpdate(Msg(k))' /\ ~Told(k)' /\ Msg(k)'.kind # "delta"
  <2>1. k = n + 1 /\ Len(wire') = n + 1 /\ k # Len(wire') + 1
    BY <1>1, <1>2, <1>3
  <2>2. Msg(k)' = wire'[n + 1]
    BY <1>2, <2>1 DEF Msg
  <2> QED
    BY <1>1, <2>1, <2>2 DEF IsUpdate, Told, IsSnapshot
<1>6. Ordered'
  BY <1>2, <1>3, <1>4, <1>5, OrderedKept DEF Flow
<1>7. ASSUME NEW p \in 1..Total'
      PROVE  LedUp(p)'
  <2>1. CASE p <= n
    <3>1. p \in 1..Total /\ p - 1 \in 0..n /\ p \in 1..n /\ p - 1 \in Nat
      BY <1>2, <2>1
    <3>2. Covers(p - 1) /\ LedUp(p) /\ (IsUpdate(Msg(p)) \/ IsUpdate(Msg(p))' => Msg(p)' = Msg(p))
      BY <1>2, <1>4, <3>1, KeptLess, KeptCovers DEF Flow, Gapless, Kept
    <3> QED
      BY <1>2, <3>1, <3>2, LedUpKept
  <2>2. CASE ~(p <= n)
    <3>1. p \in (n + 1)..Total'
      BY <1>2, <1>3, <2>2
    <3> QED
      BY <1>5, <3>1 DEF LedUp
  <2> QED
    BY <2>1, <2>2
<1> QED
  BY <1>2, <1>6, <1>7 DEF Flow, Gapless, UpToDate

\* Before what is kept no gap opens, and what the server holds has come as far.
LEMMA GaplessKept ==
    ASSUME Sound, Gapless, UNCHANGED <<view, ready, fate, subscribed, live>>, Covers(Total),
           NowStream' = NowStream, Total' = Total
    PROVE  Gapless'
<1>1. Total \in Nat
  BY SoundParts
<1>2. ASSUME NEW p \in 1..Total'
      PROVE  LedUp(p)'
  <2>1. p \in 1..Total /\ p - 1 \in Nat /\ \A j \in 1..(p - 1) : j \in 1..Total
    BY <1>1, <1>2
  <2>2. Covers(p - 1) /\ (IsUpdate(Msg(p)) \/ IsUpdate(Msg(p))' => Msg(p)' = Msg(p))
    BY <2>1 DEF Covers
  <2> QED
    BY <2>1, <2>2, LedUpKept DEF Gapless
<1>3. ASSUME subscribed, live.on, NEW i \in Items, Known(live.items[i])
      PROVE  Fed(Total, NowStream, i, live.items[i].seq)'
  <2>1. PICK S, q, n : S = NowStream /\ q = live.items[i].seq /\ n = Total
    OBVIOUS
  <2>2. Fed(n, S, i, q)'
    BY <1>1, <1>3, <2>1, KeptFed DEF Gapless, LedOn
  <2> QED
    BY <2>1, <2>2 DEF Fed, Brings, InView
<1> QED
  BY <1>2, <1>3 DEF Gapless, LedOn

\* Nothing changes, or the rows are read into the capture.
LEMMA QuietFlow ==
    ASSUME Sound, StoreKept, Steady, Flow, Still \/ ReadRows
    PROVE  Flow'
<1>1. /\ UNCHANGED <<live, stamp, status, rows, wire, slots, subscribed>>
      /\ UNCHANGED <<view, pending, ready, sync, fate>>
      /\ \A j \in Items : Underway(j) => Underway(j)'
  BY DEF Still, ReadRows, Steady, store, delivery, projection, Underway
<1>2. capture' = capture \/ (/\ capture.phase = "cloned" /\ capture'.phase = "read"
                             /\ capture'.stream = capture.stream /\ capture'.run = status
                             /\ capture'.items = Merged(capture.items, rows))
  <2>1. capture \in Captures
    BY SoundParts
  <2> QED
    BY <2>1 DEF Still, ReadRows, delivery, Captures
<1>3. /\ NowStream' = NowStream /\ NowItems' = NowItems /\ Total' = Total /\ Total \in Nat
      /\ \A k : Msg(k)' = Msg(k)
  BY <1>1, SoundParts DEF NowStream, NowItems, Total, Msg
<1>4. \A k : Told(k)' = Told(k) /\ StreamOf(k)' = StreamOf(k) /\ ItemsOf(k)' = ItemsOf(k)
  BY <1>1, <1>2 DEF Told, StreamOf, ItemsOf
<1>5. Kept(Total) /\ Covers(Total)
  BY <1>3, <1>4, KeptCovers DEF Kept
<1>6. StoreTypes' /\ NowAhead
  <2>1. StoreTypes' /\ NowItems \in Contents
    BY NowDef DEF StoreKept
  <2> QED
    BY <1>3, <2>1, ContentsFields, NotAfterOrder DEF NowAhead
<1>7. Ordered'
  <2>1. \A k \in (Total + 1)..Total' : FALSE
    BY <1>3
  <2> QED
    BY <1>1, <1>3, <1>5, <1>6, <2>1, OrderedKept DEF Flow
<1>8. Gapless'
  BY <1>1, <1>3, <1>5, GaplessKept DEF Flow
<1>9. ASSUME NEW b \in Nat, NEW S, NEW f, Current(b, S, f)
      PROVE  Current(b, S, f)'
  <2>1. \A i \in Items \ {} : Unmoved(i)
    BY <1>1 DEF Unmoved
  <2>2. \A i \in Items \cap {} : Shows(f[i], i)' \/ Follows(b, i)'
    OBVIOUS
  <2>3. PICK J : J = {}
    OBVIOUS
  <2>4. /\ \A i \in Items \ J : Unmoved(i)
        /\ \A i \in Items \cap J : Shows(f[i], i)' \/ Follows(b, i)'
    BY <2>1, <2>2, <2>3
  <2> QED
    BY <1>1, <1>3, <1>9, <2>4, CurrentKept
<1>10. ASSUME subscribed, NEW b \in 1..Total, Told(b), Clear(b + 1, Total)
       PROVE  /\ Current(b, StreamOf(b), ItemsOf(b))'
              /\ b <= Len(wire') => wire'[b].run = status'
              /\ (b > Len(wire') /\ capture'.phase = "read") => capture'.run = status'
  <2>1. PICK S, f : S = StreamOf(b) /\ f = ItemsOf(b)
    OBVIOUS
  <2>2. Current(b, S, f) /\ InForce(b) /\ b \in Nat
    BY <1>3, <1>10, <2>1 DEF Flow, UpToDate, InForce
  <2>3. Current(b, S, f)' /\ StreamOf(b)' = S /\ ItemsOf(b)' = f
    BY <1>4, <1>9, <2>1, <2>2
  <2> QED
    BY <1>1, <1>2, <1>10, <2>2, <2>3 DEF InForce, Current
<1>11. Clear(1, Total)' = Clear(1, Total) /\ \A b : Clear(b + 1, Total)' = Clear(b + 1, Total)
  BY <1>3 DEF Clear
<1>12. subscribed => InHand'
  <2>1. PICK S, f : S = view.stream /\ f = view.items
    OBVIOUS
  <2>2. Current(0, S, f) => Current(0, S, f)'
    BY <1>9
  <2> QED
    BY <1>1, <1>11, <2>1, <2>2 DEF Flow, UpToDate, InHand, Current
<1>13. subscribed => InWork'
  <2>1. ASSUME subscribed, capture' = capture, capture.phase = "cloned",
               capture.stream = NowStream, NEW i \in Items, Known(live.items[i])
        PROVE  capture.items[i] = live.items[i] \/ Follows(Len(wire) + 1, i)'
    <3>1. PICK b \in Nat : b = Len(wire) + 1
      BY SoundParts
    <3>2. Follows(b, i) => Follows(b, i)'
      BY <1>1, <1>3, FollowsKept
    <3> QED
      BY <1>1, <2>1, <3>1, <3>2 DEF Flow, UpToDate, InWork, Follows
  <2> QED
    BY <1>1, <1>2, <1>3, <2>1 DEF InWork
<1> QED
  BY <1>1, <1>3, <1>4, <1>7, <1>8, <1>10, <1>11, <1>12, <1>13 DEF Flow, UpToDate, InForce

\* The row of an item has changed, and its projection is to come.
LEMMA RowedFlow ==
    ASSUME Sound, StoreKept, Steady, Flow, Rowed
    PROVE  Flow'
<1>1. PICK x \in Items :
        /\ rows' = [rows EXCEPT ![x] = rows'[x]] /\ rows'[x].seq = 0 /\ Known(rows'[x])
        /\ Underway(x)' /\ \A j \in Items : Underway(j) => Underway(j)'
        /\ UNCHANGED <<delivery, wire, live, stamp, status>>
  BY DEF Rowed
<1>2. /\ UNCHANGED <<live, stamp, status, wire, slots, subscribed, capture>>
      /\ UNCHANGED <<view, pending, ready, sync, fate>>
      /\ StoreTypes' /\ Total \in Nat /\ Len(wire) \in Nat /\ Len(wire) <= Total
      /\ capture \in Captures /\ StoreTypes /\ StoreInv
  BY <1>1, SoundParts DEF delivery, Steady, projection, StoreKept
<1>3. /\ rows \in Contents /\ rows' \in Contents
      /\ \A i \in Items : i # x => rows'[i] = rows[i]
      /\ \A i \in Items : rows[i].seq = 0 /\ rows'[i].seq = 0
  <2>1. rows \in Contents /\ rows' \in Contents
    BY <1>2 DEF StoreTypes
  <2>2. rows \in [Items -> Cursor]
    BY <2>1 DEF Contents
  <2>3. \A i \in Items : i # x => rows'[i] = rows[i]
    BY <1>1, <2>2
  <2> QED
    BY <1>1, <1>2, <2>1, <2>3 DEF StoreInv
<1>4. /\ NowStream' = NowStream /\ Total' = Total
      /\ \A k : Msg(k)' = Msg(k)
  BY <1>2 DEF NowStream, Total, Msg
<1>5. \A k : /\ Told(k)' = Told(k) /\ StreamOf(k)' = StreamOf(k)
             /\ k <= Len(wire) => ItemsOf(k)' = ItemsOf(k)
  BY <1>2 DEF Told, StreamOf, ItemsOf
<1>6. \A k : \A i \in Items : \/ ItemsOf(k)'[i] = ItemsOf(k)[i]
                              \/ /\ i = x /\ ItemsOf(k)[i].seq = 0 /\ ItemsOf(k)'[i].seq = 0
                                 /\ Known(ItemsOf(k)'[i]) /\ ~(k <= Len(wire))
                                 /\ capture.phase = "cloned" /\ ~Known(capture.items[x])
  <2> TAKE k
  <2>1. CASE k <= Len(wire) \/ capture.phase # "cloned"
    BY <1>2, <2>1 DEF ItemsOf
  <2>2. CASE ~(k <= Len(wire)) /\ capture.phase = "cloned"
    <3>1. /\ ItemsOf(k) = Merged(capture.items, rows)
          /\ ItemsOf(k)' = Merged(capture.items, rows')
      BY <1>2, <2>2 DEF ItemsOf
    <3>2. /\ \A i \in Items : Merged(capture.items, rows)[i] =
                 IF Known(capture.items[i]) THEN capture.items[i] ELSE rows[i]
          /\ \A i \in Items : Merged(capture.items, rows')[i] =
                 IF Known(capture.items[i]) THEN capture.items[i] ELSE rows'[i]
      BY <1>2, <1>3, MergedType DEF Captures
    <3> QED
      BY <1>1, <1>3, <2>2, <3>1, <3>2
  <2> QED
    BY <2>1, <2>2
<1>7. \A i \in Items : \/ NowItems'[i] = NowItems[i]
                       \/ /\ Known(NowItems'[i]) /\ NowItems[i].seq = 0 /\ NowItems'[i].seq = 0
  BY <1>1, <1>2, <1>3, NowNext, NowDef
<1>8. NowAhead
  BY <1>2, <1>7, SameStream
<1>9. Covers(Total)
  <2> SUFFICES ASSUME NEW k \in 1..Total, Told(k), NEW i \in Items, Known(ItemsOf(k)[i])
               PROVE  /\ Known(ItemsOf(k)'[i])
                      /\ \A q : ItemsOf(k)[i].seq >= q => ItemsOf(k)'[i].seq >= q
    BY <1>4, <1>5 DEF Covers
  <2> QED
    BY <1>6
<1>10. Gapless'
  BY <1>2, <1>4, <1>9, GaplessKept DEF Flow
<1>11. Kept(Len(wire))
  <2>1. \A k \in 1..Len(wire) : k <= Len(wire)
    BY <1>2
  <2> QED
    BY <1>4, <1>5, <2>1 DEF Kept
<1>12. ASSUME NEW k \in 1..Total', Told(k)'
       PROVE  Before(k - 1, StreamOf(k), ItemsOf(k))'
  <2>1. k \in 1..Total /\ Told(k) /\ k - 1 \in 0..Len(wire) /\ k - 1 \in 0..Total /\ k - 1 \in Nat
    <3>1. k \in 1..Total /\ Told(k) /\ k \in Nat /\ k > 0
      BY <1>2, <1>4, <1>5, <1>12
    <3>2. k <= Len(wire) + 1
      BY <3>1, ToldDef
    <3> QED
      BY <1>2, <3>1, <3>2
  <2>2. PICK S, f, g : S = StreamOf(k) /\ f = ItemsOf(k) /\ g = ItemsOf(k)'
    OBVIOUS
  <2>3. f \in Contents /\ g \in Contents
    <3>1. f \in Contents
      BY <2>1, <2>2, ToldDef
    <3>2. g \in Contents
      <4>1. CASE k <= Len(wire)
        BY <1>5, <2>2, <3>1, <4>1
      <4>2. CASE ~(k <= Len(wire))
        <5>1. Merged(capture.items, rows') \in Contents /\ capture.items \in Contents
          BY <1>2, <1>3, MergedType DEF Captures
        <5> QED
          BY <1>2, <2>2, <4>2, <5>1 DEF ItemsOf
      <4> QED
        BY <4>1, <4>2
    <3> QED
      BY <3>1, <3>2
  <2>4. \A i \in Items : NotAfter(f[i], g[i])
    <3> TAKE i \in Items
    <3>1. f[i] \in Cursor /\ g[i] \in Cursor
      BY <2>3, ContentsFields
    <3>2. CASE g[i] = f[i]
      BY <3>1, <3>2, NotAfterOrder
    <3>3. CASE f[i].seq = 0 /\ g[i].seq = 0 /\ Known(g[i])
      BY <3>1, <3>3 DEF NotAfter
    <3> QED
      BY <1>6, <2>2, <3>2, <3>3
  <2>5. Before(k - 1, S, f)
    BY <2>1, <2>2 DEF Flow, Ordered
  <2>6. Before(k - 1, S, g)
    BY <2>1, <2>3, <2>4, <2>5, BeforeLater
  <2>7. Before(k - 1, S, g)'
    BY <1>2, <1>11, <2>1, <2>6, KeptLess, KeptBefore
  <2> QED
    BY <1>5, <2>2, <2>7 DEF Before
<1>13. Before(Total, NowStream, NowItems)'
  <2>1. PICK S, f : S = NowStream' /\ f = NowItems'
    OBVIOUS
  <2>2. Before(Total, S, f)
    BY <1>2, <1>8, <2>1, BeforeAhead, NowNext DEF Flow, Ordered
  <2>3. f \in Contents
    BY <1>2, <2>1, NowNext
  <2>4. ASSUME NEW k \in 1..Total, Told(k)
        PROVE  OldItems(StreamOf(k), ItemsOf(k)', S, f)
    <3> SUFFICES ASSUME StreamOf(k) = S, NEW i \in Items
                 PROVE  NotAfter(ItemsOf(k)'[i], f[i])
      BY DEF OldItems
    <3>1. NotAfter(ItemsOf(k)[i], f[i])
      BY <2>2, <2>4 DEF Before, OldItems
    <3>2. f[i].seq \in Nat
      BY <2>3, ContentsFields
    <3>3. i = x => Known(f[i])
      BY <1>1, <1>2, <2>1, NowNext
    <3> QED
      BY <1>6, <3>1, <3>2, <3>3 DEF NotAfter
  <2> QED
    BY <1>2, <1>4, <1>5, <2>1, <2>2, <2>4 DEF Before
<1>14. Ordered'
  BY <1>12, <1>13 DEF Ordered
<1>15. ASSUME NEW b \in Nat, NEW i \in Items, Follows(b, i)
       PROVE  Follows(b, i)'
  BY <1>2, <1>4, <1>15, FollowsKept
<1>16. ASSUME NEW b \in Nat, NEW S, NEW f, Current(b, S, f)
       PROVE  Current(b, S, f)'
  <2>1. PICK J : J = {x}
    OBVIOUS
  <2>2. \A i \in Items \ J : Unmoved(i)
    BY <1>1, <1>2, <1>3, <2>1 DEF Unmoved
  <2>3. Shows(f[x], x)' \/ Follows(b, x)'
    <3>1. CASE Known(live.items[x])
      BY <1>2, <1>15, <1>16, <3>1 DEF Current, Shows
    <3>2. CASE ~Known(live.items[x])
      BY <1>1, <1>2, <3>2 DEF Shows
    <3> QED
      BY <3>1, <3>2
  <2>4. \A i \in Items \cap J : Shows(f[i], i)' \/ Follows(b, i)'
    BY <2>1, <2>3
  <2> QED
    BY <1>2, <1>4, <1>16, <2>2, <2>4, CurrentKept
<1>17. Clear(1, Total)' = Clear(1, Total) /\ \A b : Clear(b + 1, Total)' = Clear(b + 1, Total)
  BY <1>4 DEF Clear
<1>18. ASSUME subscribed, NEW b \in 1..Total, Told(b), Clear(b + 1, Total)
       PROVE  /\ Current(b, StreamOf(b), ItemsOf(b))'
              /\ b <= Len(wire') => wire'[b].run = status'
              /\ (b > Len(wire') /\ capture'.phase = "read") => capture'.run = status'
  <2>1. PICK S, f, g : S = StreamOf(b) /\ f = ItemsOf(b) /\ g = ItemsOf(b)'
    OBVIOUS
  <2>2. InForce(b) /\ Current(b, S, f) /\ b \in Nat
    BY <1>2, <1>18, <2>1 DEF Flow, UpToDate, InForce
  <2>3. Current(b, S, f)'
    BY <1>16, <2>2
  <2>4. Shows(g[x], x)' \/ Follows(b, x)'
    <3>1. CASE ~Known(live.items[x])
      BY <1>1, <1>2, <3>1 DEF Shows
    <3>2. CASE Known(live.items[x]) /\ g[x] = f[x]
      BY <2>3, <3>2 DEF Current
    <3>3. CASE /\ Known(live.items[x]) /\ ~(b <= Len(wire)) /\ capture.phase = "cloned"
               /\ ~Known(capture.items[x])
      <4>1. b = Len(wire) + 1 /\ StreamOf(b) = capture.stream /\ capture.stream = NowStream
        BY <1>2, <1>18, <2>1, <2>2, <3>3 DEF Told, StreamOf, Current
      <4>2. capture.items[x] = live.items[x] \/ Follows(b, x)
        BY <1>18, <3>3, <4>1 DEF Flow, UpToDate, InWork
      <4> QED
        BY <1>15, <2>2, <3>3, <4>2
    <3> QED
      BY <1>6, <2>1, <3>1, <3>2, <3>3
  <2>5. Current(b, S, g)'
    <3>1. \A i \in Items : i # x => g[i] = f[i]
      BY <1>6, <2>1
    <3>2. \A i \in Items : Shows(g[i], i)' \/ Follows(b, i)'
      BY <2>3, <2>4, <3>1 DEF Current
    <3> QED
      BY <2>3, <3>2 DEF Current
  <2> QED
    BY <1>2, <1>5, <1>18, <2>1, <2>2, <2>5 DEF InForce, Current
<1>19. subscribed => InHand'
  <2>1. PICK S, f : S = view.stream /\ f = view.items
    OBVIOUS
  <2>2. Current(0, S, f) => Current(0, S, f)'
    BY <1>16
  <2> QED
    BY <1>2, <1>17, <2>1, <2>2 DEF Flow, UpToDate, InHand, Current
<1>20. subscribed => InWork'
  <2>1. PICK b \in Nat : b = Len(wire) + 1
    BY <1>2
  <2>2. \A i \in Items : Follows(b, i) => Follows(b, i)'
    BY <1>15
  <2> QED
    BY <1>2, <1>4, <2>1, <2>2 DEF Flow, UpToDate, InWork, Follows
<1> QED
  BY <1>2, <1>4, <1>5, <1>10, <1>14, <1>17, <1>18, <1>19, <1>20 DEF Flow, UpToDate, InForce

\* One more message at the end.
LEMMA AppendedDef ==
    ASSUME Sound, NEW m, Appended(m), UNCHANGED <<capture, rows>>
    PROVE  /\ Total' = Total + 1 /\ Total \in Nat /\ Total' \in Nat
           /\ \A k : k = Total + 1 => Msg(k)' = m /\ (~IsSnapshot(m) => ~Told(k)')
           /\ \A k \in 1..Total :
                 /\ Msg(k)' = Msg(k) /\ Told(k)' = Told(k)
                 /\ Told(k) => StreamOf(k)' = StreamOf(k) /\ ItemsOf(k)' = ItemsOf(k)
                 /\ (k <= Len(wire')) = (k <= Len(wire)) /\ (k <= Len(wire) => wire'[k] = wire[k])
           /\ slots # <<>> => wire' = wire /\ Len(wire) + 1 <= Total
           /\ slots # <<>> <=> capture # Idle
<1>1. /\ Len(wire) \in Nat /\ Len(slots) \in Nat /\ Total = Len(wire) + Len(slots)
      /\ wire \in Seq(Wired) /\ slots \in Seq(Waiting) /\ DeliveryOK
  BY SoundParts
<1>2. slots # <<>> <=> capture # Idle
  BY <1>1 DEF DeliveryOK, NothingStrands
<1>3. CASE slots = <<>> /\ UNCHANGED slots /\ wire' = Append(wire, m)
  <2>1. /\ capture.phase = "idle" /\ capture'.phase = "idle"
    BY <1>2, <1>3, IdleType
  <2>2. /\ Len(wire') = Len(wire) + 1 /\ wire'[Len(wire) + 1] = m
        /\ \A k \in 1..Len(wire) : wire'[k] = wire[k]
        /\ Total = Len(wire) /\ Total' = Len(wire) + 1
    BY <1>1, <1>3, AppendProperties DEF Total
  <2>3. ASSUME NEW k \in 1..Total
        PROVE  /\ Msg(k)' = Msg(k) /\ Told(k)' = Told(k)
               /\ Told(k) => StreamOf(k)' = StreamOf(k) /\ ItemsOf(k)' = ItemsOf(k)
               /\ (k <= Len(wire')) = (k <= Len(wire)) /\ (k <= Len(wire) => wire'[k] = wire[k])
    <3>1. k <= Len(wire) /\ k <= Len(wire') /\ wire'[k] = wire[k]
      BY <1>1, <2>2
    <3> QED
      BY <2>1, <3>1 DEF Msg, Told, StreamOf, ItemsOf
  <2>4. ASSUME NEW k, k = Total + 1
        PROVE  Msg(k)' = m /\ (~IsSnapshot(m) => ~Told(k)')
    <3>1. k <= Len(wire') /\ wire'[k] = m
      BY <1>1, <2>2, <2>4
    <3> QED
      BY <2>1, <3>1 DEF Msg, Told
  <2> QED
    BY <1>1, <1>2, <1>3, <2>2, <2>3, <2>4
<1>4. CASE slots # <<>> /\ UNCHANGED wire /\ slots' = Append(slots, m)
  <2>1. /\ Len(slots') = Len(slots) + 1 /\ slots'[Len(slots) + 1] = m
        /\ \A k \in 1..Len(slots) : slots'[k] = slots[k]
        /\ Total' = Len(wire) + Len(slots) + 1 /\ Len(slots) > 0
    BY <1>1, <1>4, AppendProperties, EmptySeq DEF Total
  <2>2. ASSUME NEW k \in 1..Total
        PROVE  /\ Msg(k)' = Msg(k) /\ Told(k)' = Told(k)
               /\ Told(k) => StreamOf(k)' = StreamOf(k) /\ ItemsOf(k)' = ItemsOf(k)
               /\ (k <= Len(wire')) = (k <= Len(wire)) /\ (k <= Len(wire) => wire'[k] = wire[k])
    <3>1. Msg(k)' = Msg(k)
      <4>1. CASE k <= Len(wire)
        BY <1>4, <4>1 DEF Msg
      <4>2. CASE ~(k <= Len(wire))
        <5>1. k - Len(wire) \in 1..Len(slots)
          BY <1>1, <4>2
        <5> QED
          BY <1>4, <2>1, <4>2, <5>1 DEF Msg
      <4> QED
        BY <4>1, <4>2
    <3> QED
      BY <1>4, <3>1 DEF Told, StreamOf, ItemsOf
  <2>3. ASSUME NEW k, k = Total + 1
        PROVE  Msg(k)' = m /\ ~Told(k)'
    <3>1. ~(k <= Len(wire)) /\ k # Len(wire) + 1 /\ k - Len(wire) = Len(slots) + 1
      BY <1>1, <2>1, <2>3
    <3> QED
      BY <1>4, <2>1, <3>1 DEF Msg, Told
  <2> QED
    BY <1>1, <1>2, <1>4, <2>1, <2>2, <2>3
<1> QED
  BY <1>3, <1>4 DEF Appended

\* An update has been sent.
LEMMA PushedFlow ==
    ASSUME Sound, StoreKept, Steady, Flow, Pushed
    PROVE  Flow'
<1>1. PICK m \in Updates :
        /\ subscribed /\ subscribed' /\ Appended(m) /\ NowAhead
        /\ UNCHANGED <<capture, rows, status>>
        /\ live'.on /\ m.stream = NowStream' /\ live'.items[m.item] = Claim(m)
        /\ \A j \in Items : j # m.item => (Underway(j) => Underway(j)')
        /\ IF live.on
           THEN /\ NowStream' = NowStream
                /\ \A j \in Items : j # m.item => live'.items[j] = live.items[j]
           ELSE /\ status = "active" /\ ~Past(NowStream')
                /\ \A j \in Items : j # m.item => ~Known(live'.items[j])
        /\ m.kind = "delta" =>
              live.on /\ Known(live.items[m.item]) /\ live.items[m.item].seq = m.at.seq - 1
  BY DEF Pushed
<1> DEFINE x == m.item
<1>2. /\ UNCHANGED <<view, pending, ready, sync, fate>> /\ StoreTypes' /\ Len(wire) \in Nat
      /\ x \in Items /\ Known(Claim(m)) /\ Claim(m) \in Cursor /\ Claim(m).seq = m.at.seq
      /\ m.at.seq \in Nat /\ StreamsInv
      /\ IsUpdate(m) /\ ~IsBarrier(m) /\ ~IsSnapshot(m)
  BY SoundParts, UpdateFields, ClaimType
  DEF Steady, projection, StoreKept, IsUpdate, IsBarrier, IsSnapshot
<1>3. /\ Total' = Total + 1 /\ Total \in Nat /\ Total' \in Nat
      /\ \A k : k = Total + 1 => Msg(k)' = m /\ ~Told(k)'
      /\ \A k \in 1..Total :
            /\ Msg(k)' = Msg(k) /\ Told(k)' = Told(k)
            /\ Told(k) => StreamOf(k)' = StreamOf(k) /\ ItemsOf(k)' = ItemsOf(k)
            /\ (k <= Len(wire')) = (k <= Len(wire)) /\ (k <= Len(wire) => wire'[k] = wire[k])
      /\ slots # <<>> => wire' = wire /\ Len(wire) + 1 <= Total
      /\ slots # <<>> <=> capture # Idle
  BY <1>1, <1>2, AppendedDef
<1> HIDE DEF x
<1>4. Kept(Total) /\ Covers(Total)
  <2>1. PICK n \in Nat : n = Total
    BY <1>3
  <2>2. Kept(n) /\ Covers(n)
    BY <1>3, <2>1, KeptCovers DEF Kept
  <2> QED
    BY <2>1, <2>2
<1>5. Ordered'
  <2>1. NowItems'[x] = Claim(m)
    BY <1>1, <1>2, NowNext DEF x
  <2>2. OldUpdate(m, NowStream', NowItems')
    BY <1>2, <2>1, NotAfterOrder DEF OldUpdate, x
  <2>3. PICK N : N = Total
    OBVIOUS
  <2>4. N \in 0..Total /\ N <= Total' /\ \A k \in (N + 1)..Total' : k = Total + 1
    BY <1>3, <2>3
  <2>5. \A k \in (N + 1)..Total' :
              /\ IsUpdate(Msg(k))' => OldUpdate(Msg(k)', NowStream', NowItems')
              /\ Told(k)' => StreamOf(k)' = NowStream' /\ ItemsOf(k)' = NowItems'
    BY <1>3, <2>2, <2>4
  <2> QED
    BY <1>1, <1>2, <1>3, <1>4, <2>3, <2>4, <2>5, OrderedKept DEF Flow
<1>6. ASSUME live.on, NEW i \in Items, Known(live.items[i]),
             NEW n, n = Total, NEW S, S = NowStream, NEW q, q = live.items[i].seq
      PROVE  Fed(n, S, i, q)'
  <2>1. Fed(n, S, i, q)
    BY <1>1, <1>6 DEF Flow, Gapless, LedOn
  <2> QED
    BY <1>2, <1>3, <1>4, <1>6, <2>1, KeptFed
<1>7. PICK T : T = Total + 1
  OBVIOUS
<1>8. /\ T = Total' /\ T \in Nat /\ T \in 1..Total' /\ T - 1 = Total /\ Msg(T)' = m /\ ~Told(T)'
      /\ Total = T - 1 /\ T > 0
  BY <1>3, <1>7
<1>9. ASSUME NEW p \in 1..Total'
      PROVE  LedUp(p)'
  <2>1. CASE p \in 1..Total
    <3>1. p - 1 \in 0..Total /\ p - 1 \in Nat /\ Msg(p)' = Msg(p)
      BY <1>3, <2>1
    <3>2. Covers(p - 1)
      BY <1>3, <1>4, <3>1, KeptLess, KeptCovers
    <3> QED
      BY <1>2, <2>1, <3>1, <3>2, LedUpKept DEF Flow, Gapless
  <2>2. CASE p = T
    <3>1. SUFFICES ASSUME m.kind = "delta"
                   PROVE  Fed(p - 1, m.stream, m.item, m.at.seq - 1)'
      BY <1>8, <2>2 DEF LedUp
    <3>2. PICK n, S, q : n = Total /\ S = NowStream /\ q = live.items[x].seq
      OBVIOUS
    <3>3. /\ n = p - 1 /\ m.stream = S /\ q = m.at.seq - 1 /\ live.on /\ Known(live.items[x])
      BY <1>1, <1>8, <2>2, <3>1, <3>2 DEF x
    <3>4. Fed(n, S, x, q)'
      BY <1>2, <1>6, <3>2, <3>3
    <3> QED
      BY <3>3, <3>4 DEF x
  <2>3. p \in 1..Total \/ p = T
    BY <1>3, <1>7
  <2> QED
    BY <2>1, <2>2, <2>3
<1>10. ASSUME NEW i \in Items, Known(live'.items[i])
       PROVE  Fed(Total, NowStream, i, live.items[i].seq)'
  <2>1. PICK S, q : S = NowStream' /\ q = live'.items[i].seq
    OBVIOUS
  <2>2. CASE i = x
    <3>1. m.stream = S /\ m.item = i /\ m.at.seq >= q
      BY <1>1, <1>2, <2>1, <2>2 DEF x
    <3>2. Brings(T, S, i, q)'
      BY <1>2, <1>8, <3>1 DEF Brings
    <3>3. \A j \in (T + 1)..T : FALSE
      BY <1>3, <1>7
    <3>4. T \in 1..T
      BY <1>8
    <3>5. Fed(T, S, i, q)'
      BY <3>2, <3>3, <3>4 DEF Fed, Clear
    <3> QED
      BY <1>8, <2>1, <3>5 DEF Fed, Brings, InView
  <2>3. CASE i # x
    <3>1. live.on /\ live'.items[i] = live.items[i] /\ S = NowStream
      BY <1>1, <1>10, <2>1, <2>3 DEF x
    <3>2. PICK n \in Nat : n = Total
      BY <1>3
    <3>3. Fed(n, S, i, q)'
      BY <1>6, <1>10, <2>1, <3>1, <3>2
    <3>4. n + 1 = T
      BY <1>7, <3>2
    <3>5. ~IsBarrier(Msg(n + 1)')
      BY <1>2, <1>3, <3>2
    <3>6. Fed(T, S, i, q)'
      BY <3>3, <3>4, <3>5, FedMore
    <3> QED
      BY <1>8, <2>1, <3>6 DEF Fed, Brings, InView
  <2> QED
    BY <2>2, <2>3
<1>11. Gapless'
  BY <1>9, <1>10 DEF Gapless, LedOn
<1>12. ASSUME NEW a \in Nat, a > 0, Clear(a, Total)'
       PROVE  Clear(a, Total)
  <2> SUFFICES ASSUME NEW j \in a..Total
               PROVE  ~IsBarrier(Msg(j))
    BY DEF Clear
  <2>1. j \in 1..Total /\ j \in a..Total'
    BY <1>3, <1>12
  <2>2. ~IsBarrier(Msg(j)')
    BY <1>12, <2>1 DEF Clear
  <2> QED
    BY <1>3, <2>1, <2>2
<1>13. ASSUME NEW b \in Nat, b < T
       PROVE  Follows(b, x)'
  <2>1. T \in (b + 1)..Total'
    BY <1>8, <1>13
  <2> QED
    BY <1>1, <1>2, <1>8, <2>1 DEF Follows, x
<1>14. ASSUME NEW b \in Nat, b < T, NEW S, NEW f, Current(b, S, f)
       PROVE  Current(b, S, f)' /\ live.on
  <2>1. live.on
    BY <1>1, <1>14 DEF Current
  <2>2. PICK J : J = {x}
    OBVIOUS
  <2>3. \A i \in Items \ J : Unmoved(i)
    BY <1>1, <2>1, <2>2 DEF Unmoved, x
  <2>4. \A i \in Items \cap J : Shows(f[i], i)' \/ Follows(b, i)'
    BY <1>13, <1>14, <2>2
  <2>5. \A k \in (b + 1)..Total : IsUpdate(Msg(k)) => Msg(k)' = Msg(k)
    <3>1. \A k \in (b + 1)..Total : k \in 1..Total
      BY <1>3
    <3> QED
      BY <1>3, <3>1
  <2>6. Total <= Total'
    BY <1>3
  <2> QED
    BY <1>1, <1>3, <1>14, <2>1, <2>3, <2>4, <2>5, <2>6, CurrentKept
<1>15. ASSUME NEW b \in 1..Total', Told(b)', Clear(b + 1, Total)'
       PROVE  /\ Current(b, StreamOf(b), ItemsOf(b))'
              /\ b <= Len(wire') => wire'[b].run = status'
              /\ (b > Len(wire') /\ capture'.phase = "read") => capture'.run = status'
  <2>1. b \in 1..Total /\ b < T /\ b \in Nat
    BY <1>3, <1>8, <1>15
  <2>2. Told(b) /\ StreamOf(b)' = StreamOf(b) /\ ItemsOf(b)' = ItemsOf(b)
        /\ (b <= Len(wire')) = (b <= Len(wire)) /\ (b <= Len(wire) => wire'[b] = wire[b])
    BY <1>3, <1>15, <2>1
  <2>3. Clear(b + 1, Total)
    BY <1>12, <1>15, <2>1
  <2>4. PICK S, f : S = StreamOf(b) /\ f = ItemsOf(b)
    OBVIOUS
  <2>5. InForce(b) /\ Current(b, S, f)
    BY <1>1, <2>1, <2>2, <2>3, <2>4 DEF Flow, UpToDate, InForce
  <2>6. Current(b, S, f)'
    BY <1>14, <2>1, <2>5
  <2>7. Current(b, StreamOf(b), ItemsOf(b))'
    BY <2>2, <2>4, <2>6 DEF Current
  <2>8. Len(wire') \in Nat
    BY DEF StoreKept, DeliveryOK, DeliveryTypes
  <2>9. b <= Len(wire') => wire'[b].run = status'
    BY <1>1, <2>2, <2>3, <2>5 DEF InForce
  <2>10. (b > Len(wire') /\ capture'.phase = "read") => capture'.run = status'
    BY <1>1, <1>2, <2>2, <2>3, <2>5, <2>8 DEF InForce
  <2> QED
    BY <2>7, <2>9, <2>10
<1>16. InHand'
  <2>1. PICK S, f : S = view.stream /\ f = view.items
    OBVIOUS
  <2>2. Current(0, S, f) => Current(0, S, f)'
    BY <1>8, <1>14
  <2>3. Clear(1, Total)' => Clear(1, Total)
    BY <1>12
  <2> QED
    BY <1>1, <1>2, <2>1, <2>2, <2>3 DEF Flow, UpToDate, InHand, Current
<1>17. InWork'
  <2> SUFFICES ASSUME capture.phase = "cloned", capture.stream = NowStream',
                      NEW i \in Items, Known(live'.items[i])
               PROVE  capture.items[i] = live'.items[i] \/ Follows(Len(wire) + 1, i)'
    BY <1>1 DEF InWork
  <2>1. live.on /\ NowStream' = NowStream /\ (i # x => live'.items[i] = live.items[i])
    BY <1>1, <1>2 DEF StreamsInv, x
  <2>2. Len(wire') = Len(wire) /\ Len(wire) + 1 < T
    BY <1>2, <1>3, <1>7, IdleType
  <2>3. PICK b \in Nat : b = Len(wire) + 1
    BY <1>2
  <2>4. i = x => Follows(b, i)'
    BY <1>13, <2>2, <2>3
  <2>5. ASSUME i # x, Follows(b, i)
        PROVE  Follows(b, i)'
    <3>1. \A k \in (b + 1)..Total : IsUpdate(Msg(k)) => Msg(k)' = Msg(k)
      <4>1. \A k \in (b + 1)..Total : k \in 1..Total
        BY <1>3
      <4> QED
        BY <1>3, <4>1
    <3>2. Total <= Total'
      BY <1>3
    <3> QED
      BY <1>3, <2>1, <2>5, <3>1, <3>2, FollowsKept
  <2>6. i # x => capture.items[i] = live.items[i] \/ Follows(b, i)
    BY <1>1, <2>1, <2>3 DEF Flow, UpToDate, InWork
  <2>7. Follows(b, i)' => Follows(Len(wire) + 1, i)'
    BY <2>2, <2>3 DEF Follows
  <2> QED
    BY <2>1, <2>4, <2>5, <2>6, <2>7
<1> QED
  BY <1>1, <1>5, <1>11, <1>15, <1>16, <1>17 DEF Flow, UpToDate, InForce

\* A capture that begins says what is true now.
LEMMA BegunDef ==
    ASSUME Sound, StoreKept, Begun
    PROVE  /\ capture'.phase = "cloned" /\ capture'.stream = NowStream'
           /\ capture'.items = live'.items /\ Merged(capture'.items, rows') = NowItems'
<1>1. live' \in Lives /\ stamp' \in Nat /\ (~live'.on => live'.items = NoItems)
  BY DEF StoreKept, StoreTypes, StoreInv
<1>2. /\ capture'.phase = "cloned" /\ capture'.stream = NowStream' /\ capture'.items = live'.items
  BY <1>1 DEF Begun, Clone, NowStream
<1> QED
  BY <1>2 DEF NowItems

\* The server's contents show themselves.
LEMMA NowCurrent ==
    ASSUME StoreTypes', live'.on \/ status' = "ended", NEW b \in Nat
    PROVE  Current(b, NowStream, NowItems)'
BY NowNext DEF Current, Shows, Same

\* A snapshot has been reserved.
LEMMA PublishedFlow ==
    ASSUME Sound, StoreKept, Steady, Flow, Published
    PROVE  Flow'
<1>1. PICK y \in BOOLEAN :
        /\ subscribed' /\ slots' = Append(slots, Reserved(y)) /\ NowAhead
        /\ UNCHANGED <<wire, rows>>
        /\ IF slots = <<>> THEN Begun ELSE subscribed /\ UNCHANGED capture
        /\ \/ live' = live /\ NowStream' = NowStream
           \/ ~Past(NowStream') /\ live'.items = NoItems
  BY DEF Published
<1>2. /\ UNCHANGED <<view, pending, ready, sync, fate>> /\ StoreTypes' /\ Len(wire) \in Nat
      /\ slots \in Seq(Waiting) /\ Len(slots) \in Nat /\ Total = Len(wire) + Len(slots)
      /\ StreamsInv /\ DeliveryOK /\ Total \in Nat
      /\ LET m == Reserved(y) IN ~IsUpdate(m) /\ IsBarrier(m) /\ m.kind # "delta"
  BY SoundParts DEF Steady, projection, StoreKept, IsUpdate, IsBarrier, Reserved
<1>3. PICK T : T = Total + 1
  OBVIOUS
<1>4. /\ T = Total' /\ T \in Nat /\ T \in 1..T /\ Total < T
  BY <1>1, <1>2, <1>3 DEF Total
<1>5. Msg(T)' = Reserved(y)
  <2>1. ~(T <= Len(wire)) /\ T - Len(wire) = Len(slots) + 1
    BY <1>2, <1>3
  <2>2. slots'[Len(slots) + 1] = Reserved(y)
    BY <1>1, <1>2, AppendProperties
  <2> QED
    BY <1>1, <2>1, <2>2 DEF Msg
<1>6. ~IsUpdate(Msg(T))' /\ IsBarrier(Msg(T))' /\ Msg(T)'.kind # "delta"
  BY <1>2, <1>5
<1>7. ASSUME NEW k \in 1..Total
      PROVE  /\ Msg(k)' = Msg(k) /\ (Told(k)' => Told(k))
             /\ StreamOf(k)' = StreamOf(k) /\ ItemsOf(k)' = ItemsOf(k)
  <2>1. Msg(k)' = Msg(k)
    <3>1. CASE k <= Len(wire)
      BY <1>1, <3>1 DEF Msg
    <3>2. CASE ~(k <= Len(wire))
      <4>1. k - Len(wire) \in 1..Len(slots)
        BY <1>2, <3>2
      <4>2. slots'[k - Len(wire)] = slots[k - Len(wire)]
        BY <1>1, <1>2, <4>1, AppendProperties
      <4> QED
        BY <1>1, <3>2, <4>2 DEF Msg
    <3> QED
      BY <3>1, <3>2
  <2>2. CASE slots = <<>>
    <3>1. k <= Len(wire) /\ k # Len(wire) + 1
      BY <1>2, <2>2
    <3> QED
      BY <1>1, <2>1, <3>1 DEF Told, StreamOf, ItemsOf
  <2>3. CASE slots # <<>>
    BY <1>1, <2>1, <2>3 DEF Told, StreamOf, ItemsOf
  <2> QED
    BY <2>2, <2>3
<1>8. ASSUME Told(T)'
      PROVE  slots = <<>> /\ StreamOf(T)' = NowStream' /\ ItemsOf(T)' = NowItems'
  <2>1. ~(T <= Len(wire)) /\ T = Len(wire) + 1
    BY <1>1, <1>2, <1>3, <1>8 DEF Told
  <2>2. slots = <<>>
    BY <1>2, <1>3, <2>1, EmptySeq
  <2> QED
    BY <1>1, <2>1, <2>2, BegunDef DEF StreamOf, ItemsOf
<1>9. Kept(Total) /\ Covers(Total)
  <2>1. PICK n \in Nat : n = Total
    BY <1>2
  <2>2. Kept(n) /\ Covers(n)
    BY <1>7, <2>1, KeptCovers DEF Kept
  <2> QED
    BY <2>1, <2>2
<1>10. Ordered'
  <2>1. PICK N : N = Total
    OBVIOUS
  <2>2. N \in 0..Total /\ N <= Total' /\ (\A k \in (N + 1)..Total' : k = T) /\ Total' \in Nat
    BY <1>2, <1>3, <1>4, <2>1
  <2>3. \A k \in (N + 1)..Total' :
              /\ IsUpdate(Msg(k))' => OldUpdate(Msg(k)', NowStream', NowItems')
              /\ Told(k)' => StreamOf(k)' = NowStream' /\ ItemsOf(k)' = NowItems'
    BY <1>6, <1>8, <2>2
  <2> QED
    BY <1>1, <1>2, <1>9, <2>1, <2>2, <2>3, OrderedKept DEF Flow
<1>11. ASSUME NEW p \in 1..Total'
       PROVE  LedUp(p)'
  <2>1. CASE p \in 1..Total
    <3>1. p - 1 \in 0..Total /\ p - 1 \in Nat /\ Msg(p)' = Msg(p)
      BY <1>2, <1>7, <2>1
    <3>2. Covers(p - 1)
      BY <1>2, <1>9, <3>1, KeptLess, KeptCovers
    <3> QED
      BY <1>2, <2>1, <3>1, <3>2, LedUpKept DEF Flow, Gapless
  <2>2. CASE p = T
    BY <1>6, <2>2 DEF LedUp
  <2>3. p \in 1..Total \/ p = T
    BY <1>2, <1>3, <1>4
  <2> QED
    BY <2>1, <2>2, <2>3
<1>12. ASSUME NEW i \in Items, Known(live'.items[i])
       PROVE  Fed(Total, NowStream, i, live.items[i].seq)'
  <2>1. PICK S, q : S = NowStream' /\ q = live'.items[i].seq
    OBVIOUS
  <2>2. NowItems'[i] = live'.items[i] /\ q \in Nat
    <3>1. live'.items \in Contents
      BY <1>2 DEF StoreTypes, Lives
    <3> QED
      BY <1>2, <1>12, <2>1, <3>1, NowNext, ContentsFields
  <2>3. Told(T)' => Known(ItemsOf(T)'[i]) /\ ItemsOf(T)'[i].seq >= q
    BY <1>8, <1>12, <2>1, <2>2
  <2>4. Brings(T, S, i, q)'
    BY <1>6, <2>3 DEF Brings
  <2>5. \A j \in (T + 1)..T : FALSE
    BY <1>2, <1>3
  <2>6. Fed(T, S, i, q)'
    BY <1>4, <2>4, <2>5 DEF Fed, Clear
  <2> QED
    BY <1>4, <2>1, <2>6 DEF Fed, Brings, InView
<1>13. Gapless'
  BY <1>11, <1>12 DEF Gapless, LedOn
<1>14. ASSUME NEW b \in 1..Total', Told(b)', Clear(b + 1, Total)'
       PROVE  /\ Current(b, StreamOf(b), ItemsOf(b))'
              /\ b <= Len(wire') => wire'[b].run = status'
              /\ (b > Len(wire') /\ capture'.phase = "read") => capture'.run = status'
  <2>1. b = T
    <3>1. b < T => T \in (b + 1)..Total'
      BY <1>2, <1>3, <1>4
    <3>2. b < T \/ b = T
      BY <1>2, <1>3, <1>4
    <3> QED
      BY <1>6, <1>14, <3>1, <3>2 DEF Clear
  <2>2. slots = <<>> /\ StreamOf(b)' = NowStream' /\ ItemsOf(b)' = NowItems'
    BY <1>8, <1>14, <2>1
  <2>3. live'.on \/ status' = "ended"
    BY <1>1, <2>2 DEF Begun
  <2>4. b \in Nat /\ ~(b <= Len(wire'))
    BY <1>1, <1>2, <1>3, <2>1
  <2>5. Current(b, NowStream, NowItems)'
    BY <1>2, <2>3, <2>4, NowCurrent
  <2>6. capture'.phase # "read"
    BY <1>1, <2>2, BegunDef
  <2> QED
    BY <2>2, <2>4, <2>5, <2>6 DEF Current
<1>15. InHand'
  <2>1. ~Clear(1, Total)'
    BY <1>4, <1>6 DEF Clear
  <2> QED
    BY <2>1 DEF InHand
<1>16. InWork'
  <2> SUFFICES ASSUME capture'.phase = "cloned", capture'.stream = NowStream',
                      NEW i \in Items, Known(live'.items[i])
               PROVE  capture'.items[i] = live'.items[i] \/ Follows(Len(wire) + 1, i)'
    BY DEF InWork
  <2>1. CASE slots = <<>>
    BY <1>1, <2>1, BegunDef
  <2>2. CASE slots # <<>>
    <3>1. capture' = capture /\ NowStream' = NowStream /\ live' = live /\ subscribed
      BY <1>1, <1>2, <2>2 DEF StreamsInv
    <3>2. PICK b \in Nat : b = Len(wire) + 1
      BY <1>2
    <3>3. capture.items[i] = live.items[i] \/ Follows(b, i)
      BY <3>1, <3>2 DEF Flow, UpToDate, InWork
    <3>4. Follows(b, i) => Follows(b, i)'
      <4>1. \A k \in (b + 1)..Total : k \in 1..Total
        BY <1>2
      <4>2. Total <= Total' /\ Total' \in Nat
        BY <1>2, <1>3, <1>4
      <4> QED
        BY <1>2, <1>7, <3>1, <4>1, <4>2, FollowsKept
    <3> QED
      BY <1>1, <3>1, <3>2, <3>3, <3>4 DEF Follows
  <2> QED
    BY <2>1, <2>2
<1> QED
  BY <1>10, <1>13, <1>14, <1>15, <1>16 DEF Flow, UpToDate, InForce

\* A capture has ended, and another may have begun.
LEMMA FilledFlow ==
    ASSUME Sound, StoreKept, Steady, Flow, Filled
    PROVE  Flow'
<1>1. PICK m \in Snapshots \cup {Failure}, n \in 0..(Len(slots) - 1) :
        /\ subscribed /\ subscribed' /\ capture # Idle
        /\ IsSnapshot(m) => /\ capture.phase = "read" /\ m.stream = capture.stream
                            /\ m.items = capture.items /\ m.run = capture.run
        /\ Len(wire') = Len(wire) + 1 + n /\ Len(slots') = Len(slots) - 1 - n
        /\ \A k \in 1..Len(wire) : wire'[k] = wire[k]
        /\ wire'[Len(wire) + 1] = m
        /\ \A k \in 1..n : wire'[Len(wire) + 1 + k] = slots[k + 1]
        /\ \A k \in 1..Len(slots') : slots'[k] = slots[n + 1 + k]
        /\ IF slots' = <<>> THEN capture' = Idle ELSE Begun
        /\ UNCHANGED <<rows, status, stamp, op, due, closed>> /\ NowAhead
        /\ \/ live' = live /\ NowStream' = NowStream
           \/ ~Past(NowStream') /\ live'.items = NoItems /\ slots' # <<>>
  BY DEF Filled
<1>2. /\ UNCHANGED <<view, pending, ready, sync, fate>> /\ StoreTypes' /\ Len(wire) \in Nat
      /\ slots \in Seq(Waiting) /\ Len(slots) \in Nat /\ Total = Len(wire) + Len(slots)
      /\ StreamsInv /\ NothingStrands /\ NothingStrands' /\ Total \in Nat
      /\ slots' \in Seq(Waiting) /\ Len(slots') \in Nat /\ n \in Nat
      /\ capture.phase # "idle"
  <2>1. DeliveryOK /\ DeliveryOK' /\ Len(wire) \in Nat /\ Len(slots) \in Nat /\ StreamsInv
        /\ Total = Len(wire) + Len(slots) /\ Total \in Nat /\ slots \in Seq(Waiting)
    BY SoundParts DEF StoreKept
  <2>2. /\ NothingStrands /\ NothingStrands' /\ capture.phase # "idle" /\ slots' \in Seq(Waiting)
    BY <1>1, <2>1 DEF DeliveryOK, DeliveryTypes
  <2>3. UNCHANGED <<view, pending, ready, sync, fate>> /\ StoreTypes'
    BY DEF Steady, projection, StoreKept
  <2>4. Len(slots') \in Nat /\ n \in Nat
    BY <1>1, <2>1, <2>2
  <2> QED
    BY <2>1, <2>2, <2>3, <2>4
<1>3. ~IsUpdate(m) /\ IsBarrier(m) /\ m.kind # "delta"
  BY <1>1, SnapshotFields DEF IsUpdate, IsBarrier, Failure, Snapshots
<1>4. PICK w, h : w = Len(wire) + 1 /\ h = Len(wire) + n + 2
  OBVIOUS
<1>5. /\ w \in 1..Total /\ Total' = Total /\ w < h /\ w \in Nat /\ h \in Nat /\ Total \in Nat
      /\ Len(wire) = w - 1 /\ Len(wire') = h - 1 /\ h - 1 \in 0..Total
      /\ slots' = <<>> => h = Total + 1
      /\ slots' # <<>> => h \in 1..Total
  <2>1. Len(slots') = 0 <=> slots' = <<>>
    BY <1>2, EmptySeq
  <2>2. Len(slots) > 0 /\ Total' = Len(wire') + Len(slots')
    BY <1>1, <1>2 DEF Total
  <2>3. Len(wire') = Len(wire) + 1 + n /\ Len(slots') = Len(slots) - 1 - n
    BY <1>1
  <2>4. /\ w \in 1..Total /\ Total' = Total /\ w < h /\ w \in Nat /\ h \in Nat
        /\ Len(wire) = w - 1 /\ Len(wire') = h - 1 /\ h - 1 \in 0..Total
        /\ h = Total + 1 - Len(slots')
    BY <1>2, <1>4, <2>2, <2>3
  <2> QED
    BY <1>2, <2>1, <2>4
<1>6. ASSUME NEW k \in 1..Total
      PROVE  /\ k # w => Msg(k)' = Msg(k)
             /\ k = w => Msg(k)' = m /\ IsBarrier(Msg(k)) /\ ~IsUpdate(Msg(k))
  <2>1. CASE k < w
    <3>1. k <= Len(wire) /\ k <= Len(wire') /\ k \in 1..Len(wire)
      BY <1>1, <1>2, <1>5, <2>1
    <3> QED
      BY <1>1, <2>1, <3>1 DEF Msg
  <2>2. CASE k = w
    <3>1. /\ ~(k <= Len(wire)) /\ k - Len(wire) = 1 /\ k <= Len(wire') /\ wire'[k] = m
          /\ Head(slots) = slots[1]
      BY <1>1, <1>2, <1>4, <1>5, <2>2
    <3>2. Head(slots).kind = "reserved"
      BY <1>1, <1>2 DEF NothingStrands
    <3> QED
      BY <2>2, <3>1, <3>2 DEF Msg, IsBarrier, IsUpdate
  <2>3. CASE w < k /\ k < h
    <3>1. PICK j : j = k - w
      OBVIOUS
    <3>2. /\ j \in 1..n /\ k = Len(wire) + 1 + j /\ ~(k <= Len(wire)) /\ k <= Len(wire')
          /\ k - Len(wire) = j + 1
      BY <1>1, <1>2, <1>4, <2>3, <3>1
    <3>3. wire'[k] = slots[j + 1]
      BY <1>1, <3>2
    <3> QED
      BY <2>3, <3>2, <3>3 DEF Msg
  <2>4. CASE h <= k
    <3>1. PICK j : j = k - Len(wire')
      OBVIOUS
    <3>2. /\ j \in 1..Len(slots') /\ ~(k <= Len(wire)) /\ ~(k <= Len(wire'))
          /\ k - Len(wire) = n + 1 + j
      BY <1>1, <1>2, <1>4, <2>4, <3>1
    <3>3. k - Len(wire') = j /\ k # w
      BY <1>5, <2>4, <3>1
    <3>4. slots'[j] = slots[n + 1 + j]
      BY <1>1, <3>2
    <3> QED
      BY <3>2, <3>3, <3>4 DEF Msg
  <2> QED
    BY <1>4, <1>5, <2>1, <2>2, <2>3, <2>4
<1>7. ASSUME NEW k \in 1..Total, Told(k)', k # h
      PROVE  /\ Told(k) /\ StreamOf(k)' = StreamOf(k) /\ ItemsOf(k)' = ItemsOf(k)
             /\ k <= w /\ (k = w => IsSnapshot(m))
  <2>1. k <= Len(wire') /\ IsSnapshot(wire'[k])
    BY <1>2, <1>5, <1>7 DEF Told
  <2>2. CASE k < w
    <3>1. k <= Len(wire) /\ k \in 1..Len(wire)
      BY <1>2, <1>5, <2>2
    <3>2. wire'[k] = wire[k] /\ IsSnapshot(wire[k]) /\ k <= w /\ k # w
      BY <1>1, <1>5, <2>1, <2>2, <3>1
    <3> QED
      BY <2>1, <3>1, <3>2 DEF Told, StreamOf, ItemsOf
  <2>3. CASE k = w
    <3>1. ~(k <= Len(wire)) /\ k = Len(wire) + 1
      BY <1>2, <1>4, <2>3
    <3>2. wire'[k] = m /\ IsSnapshot(m)
      BY <1>1, <2>1, <3>1
    <3>3. /\ capture.phase = "read" /\ m.stream = capture.stream /\ m.items = capture.items
      BY <1>1, <3>2
    <3>4. Told(k)
      BY <1>2, <3>1 DEF Told
    <3>5. StreamOf(k)' = m.stream /\ StreamOf(k) = capture.stream
      BY <2>1, <3>1, <3>2 DEF StreamOf
    <3>6. ItemsOf(k)' = m.items /\ ItemsOf(k) = capture.items
      BY <2>1, <3>1, <3>2, <3>3 DEF ItemsOf
    <3> QED
      BY <2>3, <3>2, <3>3, <3>4, <3>5, <3>6, <1>5
  <2>4. CASE w < k
    <3>1. PICK j : j = k - w
      OBVIOUS
    <3>2. /\ j \in 1..n /\ k = Len(wire) + 1 + j /\ j + 1 \in 1..Len(slots)
      <4>1. k <= Len(wire) + 1 + n /\ n <= Len(slots) - 1 /\ k \in Nat
        BY <1>1, <1>2, <1>5, <2>1
      <4> QED
        BY <1>2, <1>4, <2>4, <3>1, <4>1
    <3>3. wire'[k] = slots[j + 1] /\ slots[j + 1] \in Waiting
      BY <1>1, <1>2, <3>2
    <3> QED
      BY <2>1, <3>3, WaitingKinds DEF IsSnapshot
  <2> QED
    BY <1>5, <2>2, <2>3, <2>4
<1>8. ASSUME Told(h)'
      PROVE  slots' # <<>> /\ StreamOf(h)' = NowStream' /\ ItemsOf(h)' = NowItems'
  <2>1. ~(h <= Len(wire'))
    BY <1>1, <1>2, <1>5
  <2>2. capture'.phase # "idle"
    BY <1>8, <2>1 DEF Told
  <2>3. slots' # <<>> /\ Begun
    BY <1>1, <2>2, IdleType
  <2> QED
    BY <2>1, <2>3, BegunDef DEF StreamOf, ItemsOf
<1>9. \A k \in 1..Total : /\ IsUpdate(Msg(k)) \/ IsUpdate(Msg(k))' => Msg(k)' = Msg(k)
                          /\ IsBarrier(Msg(k))' = IsBarrier(Msg(k))
  <2> TAKE k \in 1..Total
  <2>1. CASE k = w
    BY <1>3, <1>6, <2>1 DEF IsBarrier
  <2>2. CASE k # w
    BY <1>6, <2>2
  <2> QED
    BY <2>1, <2>2
<1>10. ASSUME NEW k \in 0..(h - 1)
       PROVE  Kept(k) /\ Covers(k) /\ k \in Nat
  <2>1. k \in Nat /\ \A j \in 1..k : j \in 1..Total /\ j # h
    BY <1>5
  <2>2. Kept(k)
    BY <1>7, <1>9, <2>1 DEF Kept
  <2> QED
    BY <2>1, <2>2, KeptCovers
<1>11. PICK S, f : S = NowStream' /\ f = NowItems'
  OBVIOUS
<1>12. Before(Total, S, f)
  BY <1>1, <1>2, <1>11, BeforeAhead, NowNext DEF Flow, Ordered
<1>13. Ordered'
  <2>1. PICK N : N = h - 1
    OBVIOUS
  <2>2. N \in 0..Total /\ N <= Total' /\ (\A k \in (N + 1)..Total' : k \in 1..Total /\ k >= h)
        /\ Total' \in Nat /\ Kept(N)
    BY <1>2, <1>5, <1>10, <2>1
  <2>3. ASSUME NEW k \in (N + 1)..Total'
        PROVE  /\ IsUpdate(Msg(k))' => OldUpdate(Msg(k)', NowStream', NowItems')
               /\ Told(k)' => StreamOf(k)' = NowStream' /\ ItemsOf(k)' = NowItems'
    <3>1. k \in 1..Total /\ k >= h
      BY <2>2
    <3>2. IsUpdate(Msg(k))' => OldUpdate(Msg(k)', NowStream', NowItems')
      BY <1>9, <1>11, <1>12, <3>1 DEF Before
    <3>3. Told(k)' => k = h
      BY <1>5, <1>7, <3>1
    <3> QED
      BY <1>8, <3>2, <3>3
  <2> QED
    BY <1>1, <1>2, <2>2, <2>3, OrderedKept DEF Flow
<1>14. ASSUME NEW k \in w..Total, NEW R, NEW i \in Items, NEW q, Fed(k, R, i, q),
              R = S => Known(f[i]) /\ f[i].seq >= q
       PROVE  Fed(k, R, i, q)'
  <2>1. \A j \in 1..k : j \in 1..Total
    BY <1>5
  <2>2. ~Clear(1, k)
    <3>1. w \in 1..k /\ w \in 1..Total
      BY <1>5
    <3> QED
      BY <1>6, <3>1 DEF Clear
  <2>3. PICK j \in 1..k : Brings(j, R, i, q) /\ Clear(j + 1, k)
    BY <1>14, <2>2 DEF Fed
  <2>4. Clear(j + 1, k)'
    <3>1. \A l \in (j + 1)..k : l \in 1..Total
      BY <1>5
    <3> QED
      BY <1>9, <2>3, <3>1 DEF Clear
  <2>5. Brings(j, R, i, q)'
    BY <1>7, <1>8, <1>9, <1>11, <1>14, <2>1, <2>3 DEF Brings
  <2> QED
    BY <2>4, <2>5 DEF Fed
<1>15. ASSUME NEW p \in 1..Total'
       PROVE  LedUp(p)'
  <2>1. p \in 1..Total /\ p \in Nat
    BY <1>5
  <2>2. CASE p <= h
    <3>1. p - 1 \in 0..(h - 1)
      BY <1>5, <2>1, <2>2
    <3> QED
      BY <1>2, <1>9, <1>10, <2>1, <3>1, LedUpKept DEF Flow, Gapless
  <2>3. CASE p > h
    <3> SUFFICES ASSUME Msg(p)'.kind = "delta"
                 PROVE  LedUp(p)'
      BY DEF LedUp
    <3>1. Msg(p)' = Msg(p) /\ IsUpdate(Msg(p)) /\ Msg(p).kind = "delta"
      BY <1>9, <2>1 DEF IsUpdate
    <3>2. PICK u : u = Msg(p)
      OBVIOUS
    <3>3. /\ u \in Updates /\ u.item \in Items /\ u.at.seq \in Nat /\ Known(Claim(u))
          /\ Claim(u).seq = u.at.seq
      BY <2>1, <3>1, <3>2, MsgDef, UpdateFields, ClaimType
    <3>4. Fed(p - 1, u.stream, u.item, u.at.seq - 1)
      BY <2>1, <3>1, <3>2 DEF Flow, Gapless, LedUp
    <3>5. OldUpdate(u, S, f)
      BY <1>12, <2>1, <3>1, <3>2 DEF Before
    <3>6. u.stream = S => Known(f[u.item]) /\ f[u.item].seq >= u.at.seq - 1
      <4>1. f[u.item].seq \in Nat
        BY <1>2, <1>11, <3>3, NowNext, ContentsFields
      <4> QED
        BY <3>3, <3>5, <4>1 DEF OldUpdate, NotAfter
    <3>7. p - 1 \in w..Total
      BY <1>5, <2>1, <2>3
    <3>8. Fed(p - 1, u.stream, u.item, u.at.seq - 1)'
      BY <1>14, <3>3, <3>4, <3>6, <3>7
    <3> QED
      BY <3>1, <3>2, <3>8 DEF LedUp
  <2> QED
    BY <1>5, <2>1, <2>2, <2>3
<1>16. ASSUME live'.on, NEW i \in Items, Known(live'.items[i])
       PROVE  Fed(Total, NowStream, i, live.items[i].seq)'
  <2>1. live' = live /\ NowStream' = NowStream
    BY <1>1, <1>16, NoItemsType
  <2>2. PICK k, q : k = Total /\ q = live.items[i].seq
    OBVIOUS
  <2>3. Fed(k, S, i, q)
    BY <1>1, <1>11, <1>16, <2>1, <2>2 DEF Flow, Gapless, LedOn
  <2>4. f[i] = live'.items[i] /\ live'.items[i].seq \in Nat
    <3>1. live'.items \in Contents
      BY <1>2 DEF StoreTypes, Lives
    <3> QED
      BY <1>2, <1>11, <1>16, <3>1, NowNext, ContentsFields
  <2>5. k \in w..Total
    BY <1>2, <1>5, <2>2
  <2>6. Fed(k, S, i, q)'
    BY <1>14, <1>16, <2>1, <2>2, <2>3, <2>4, <2>5
  <2> QED
    BY <1>5, <1>11, <2>1, <2>2, <2>6 DEF Fed, Brings, InView
<1>17. Gapless'
  BY <1>15, <1>16 DEF Gapless, LedOn
<1>18. \A a, k \in 1..Total : ~(a <= k /\ IsBarrier(Msg(k)) /\ Clear(a, Total)')
  <2>1. \A a, k \in 1..Total : a <= k => k \in a..Total'
    BY <1>5
  <2> QED
    BY <1>9, <2>1 DEF Clear
<1>19. IsBarrier(Msg(w)) /\ (slots' # <<>> => IsBarrier(Msg(h)))
  <2>1. slots' # <<>> => Msg(h)' = Msg(h) /\ h \in 1..Total
    BY <1>5, <1>6
  <2>2. slots' # <<>> => Msg(h)' = Head(slots')
    <3>1. ~(h <= Len(wire')) /\ h - Len(wire') = 1
      BY <1>5
    <3> QED
      BY <1>2, <3>1, HeadTailProperties DEF Msg
  <2> QED
    BY <1>2, <1>5, <1>6, <2>1, <2>2 DEF NothingStrands, IsBarrier
<1>20. ASSUME NEW b \in 1..Total', Told(b)', Clear(b + 1, Total)'
       PROVE  /\ Current(b, StreamOf(b), ItemsOf(b))'
              /\ b <= Len(wire') => wire'[b].run = status'
              /\ (b > Len(wire') /\ capture'.phase = "read") => capture'.run = status'
  <2>1. b \in 1..Total /\ b \in Nat
    BY <1>5
  <2>2. CASE slots' # <<>>
    <3>1. b = h
      <4>1. b >= h
        <5>1. b < h => b + 1 \in 1..Total /\ h \in 1..Total /\ b + 1 <= h
          BY <1>5, <2>1, <2>2
        <5> QED
          BY <1>5, <1>18, <1>19, <1>20, <2>1, <2>2, <5>1
      <4> QED
        BY <1>5, <1>7, <1>20, <2>1, <4>1
    <3>2. StreamOf(b)' = NowStream' /\ ItemsOf(b)' = NowItems'
      BY <1>8, <1>20, <3>1
    <3>3. Begun /\ (live'.on \/ status' = "ended")
      BY <1>1, <2>2 DEF Begun
    <3>4. Current(b, NowStream, NowItems)'
      BY <1>2, <2>1, <3>3, NowCurrent
    <3>5. capture'.phase # "read" /\ ~(b <= Len(wire'))
      BY <1>5, <3>1, <3>3, BegunDef
    <3> QED
      BY <3>2, <3>4, <3>5 DEF Current
  <2>3. CASE slots' = <<>>
    <3>1. h = Total + 1 /\ b # h /\ live' = live /\ NowStream' = NowStream
      BY <1>1, <1>2, <1>5, <2>1, <2>3
    <3>2. b = w
      <4>1. b < w => b + 1 \in 1..Total /\ b + 1 <= w
        BY <1>5, <2>1
      <4>2. b <= w
        BY <1>7, <1>20, <2>1, <3>1
      <4> QED
        BY <1>5, <1>18, <1>19, <1>20, <2>1, <4>1, <4>2
    <3>3. /\ Told(b) /\ StreamOf(b)' = StreamOf(b) /\ ItemsOf(b)' = ItemsOf(b) /\ IsSnapshot(m)
      BY <1>7, <1>20, <2>1, <3>1, <3>2
    <3>4. Clear(b + 1, Total)
      <4>1. \A j \in (b + 1)..Total : j \in 1..Total /\ j \in (b + 1)..Total'
        BY <1>5
      <4> QED
        BY <1>9, <1>20, <4>1 DEF Clear
    <3>5. PICK R, g : R = StreamOf(b) /\ g = ItemsOf(b)
      OBVIOUS
    <3>6. InForce(b) /\ Current(b, R, g)
      BY <1>1, <2>1, <3>3, <3>4, <3>5 DEF Flow, UpToDate, InForce
    <3>7. Current(b, R, g)'
      <4>1. PICK J : J = {}
        OBVIOUS
      <4>2. \A i \in Items \ J : Unmoved(i)
        BY <1>1, <3>1 DEF Unmoved, Underway
      <4>3. \A i \in Items \cap J : Shows(g[i], i)' \/ Follows(b, i)'
        BY <4>1
      <4>4. Total <= Total' /\ Total' \in Nat
        BY <1>5
      <4>5. \A k \in (b + 1)..Total : IsUpdate(Msg(k)) => Msg(k)' = Msg(k)
        <5>1. \A k \in (b + 1)..Total : k \in 1..Total
          BY <1>5
        <5> QED
          BY <1>9, <5>1
      <4>6. live.on \/ status = "ended" => live'.on \/ status' = "ended"
        BY <1>1, <3>1
      <4> QED
        BY <1>5, <2>1, <3>1, <3>6, <4>2, <4>3, <4>4, <4>5, <4>6, CurrentKept
    <3>8. capture.run = status /\ wire'[b] = m /\ b <= Len(wire')
      <4>1. b > Len(wire) /\ b = Len(wire) + 1 /\ b <= Len(wire')
        BY <1>2, <1>4, <1>5, <3>2
      <4> QED
        BY <1>1, <3>3, <3>4, <3>6, <4>1 DEF InForce
    <3>9. wire'[b].run = status' /\ ~(b > Len(wire'))
      BY <1>1, <1>2, <1>5, <3>2, <3>3, <3>8
    <3> QED
      BY <3>3, <3>5, <3>7, <3>9 DEF Current
  <2> QED
    BY <2>2, <2>3
<1>21. InHand'
  <2>1. 1 \in 1..Total /\ 1 <= w
    BY <1>5
  <2>2. ~Clear(1, Total)'
    BY <1>5, <1>18, <1>19, <2>1
  <2> QED
    BY <2>2 DEF InHand
<1>22. InWork'
  <2>1. capture'.phase = "cloned" => capture'.items = live'.items
    BY <1>1, BegunDef, IdleType
  <2> QED
    BY <2>1 DEF InWork
<1> QED
  BY <1>13, <1>17, <1>20, <1>21, <1>22 DEF Flow, UpToDate, InForce

-----------------------------------------------------------------------------
(* The flow: what the client takes                                          *)

\* An update of the past leaves the view in the past.
LEMMA AppliedOld ==
    ASSUME NEW v \in Views, NEW u \in Updates, NEW S, NEW f,
           OldItems(v.stream, v.items, S, f), OldUpdate(u, S, f)
    PROVE  OldItems(Applied(v, u).stream, Applied(v, u).items, S, f)
<1>1. v.items \in [Items -> Cursor]
  BY DEF Views, Contents
<1>2. CASE Result(v, u) # "applied"
  BY <1>2, AppliedType
<1>3. CASE Result(v, u) = "applied"
  <2>1. /\ Applied(v, u).stream = v.stream /\ u.stream = v.stream
        /\ Applied(v, u).items = [v.items EXCEPT ![u.item] = Claim(u)]
    BY <1>3, AppliedType
  <2>2. \A i \in Items : \/ Applied(v, u).items[i] = v.items[i]
                         \/ i = u.item /\ Applied(v, u).items[i] = Claim(u)
    BY <1>1, <2>1
  <2> QED
    BY <2>1, <2>2 DEF OldItems, OldUpdate
<1> QED
  BY <1>2, <1>3

\* So does replaying.
LEMMA ReplayedOld ==
    ASSUME NEW v \in Views, NEW ok \in BOOLEAN, NEW q \in Seq(Updates), NEW S, NEW f,
           OldItems(v.stream, v.items, S, f), \A k \in 1..Len(q) : OldUpdate(q[k], S, f)
    PROVE  LET r == Replayed([view |-> v, ok |-> ok], q)[Len(q)]
           IN  OldItems(r.view.stream, r.view.items, S, f)
<1> DEFINE a == [view |-> v, ok |-> ok]
<1> DEFINE R(n) == Replayed(a, q)[n]
<1> DEFINE D == {n \in 0..Len(q) : OldItems(R(n).view.stream, R(n).view.items, S, f)}
<1>1. /\ Replayed(a, q)[0] = a
      /\ \A n \in 1..Len(q) : Replayed(a, q)[n] = Replay(Replayed(a, q)[n - 1], q[n])
  BY ReplayedDef
<1>2. 0 \in D
  BY <1>1
<1>3. ASSUME NEW n \in 0..Len(q), n \in D, n + 1 \in 0..Len(q)
      PROVE  n + 1 \in D
  <2>1. q[n + 1] \in Updates /\ n + 1 \in 1..Len(q)
    BY <1>3
  <2>2. R(n + 1) = Replay(R(n), q[n + 1])
    BY <1>1, <2>1
  <2>3. R(n).view \in Views
    BY ReplayedFurther
  <2>4. R(n + 1).view = Applied(R(n).view, q[n + 1])
    BY <2>2 DEF Replay
  <2>5. OldItems(R(n).view.stream, R(n).view.items, S, f)
    BY <1>3
  <2> HIDE DEF R, a
  <2>6. OldItems(R(n + 1).view.stream, R(n + 1).view.items, S, f)
    BY <2>1, <2>3, <2>4, <2>5, AppliedOld
  <2> QED
    BY <1>3, <2>6
<1> HIDE DEF D, R
<1>4. Len(q) \in Nat
  OBVIOUS
<1>5. \A n \in 0..Len(q) : n \in D
  BY <1>2, <1>3, <1>4, SetInduction
<1> QED
  BY <1>4, <1>5 DEF D, R

\* An update that is not ahead of the view is not applied.
LEMMA OldNotApplied ==
    ASSUME NEW v \in Views, NEW u \in Updates, OldUpdate(u, v.stream, v.items)
    PROVE  Applied(v, u) = v
<1> SUFFICES ASSUME Result(v, u) = "applied" PROVE FALSE
  BY AppliedType
<1>1. u.stream = v.stream /\ (v.items[u.item].seq < u.at.seq \/ ~Known(v.items[u.item]))
  BY AppliedType
<1>2. Known(Claim(u)) /\ Claim(u).seq = u.at.seq /\ u.item \in Items /\ u.at.seq \in Nat
  BY ClaimType, UpdateFields
<1>3. v.items[u.item].seq \in Nat
  BY <1>2, ContentsFields DEF Views
<1> QED
  BY <1>1, <1>2, <1>3 DEF OldUpdate, NotAfter

\* So replaying such updates changes nothing.
LEMMA ReplayedSame ==
    ASSUME NEW v \in Views, NEW ok \in BOOLEAN, NEW q \in Seq(Updates),
           \A k \in 1..Len(q) : OldUpdate(q[k], v.stream, v.items)
    PROVE  Replayed([view |-> v, ok |-> ok], q)[Len(q)].view = v
<1> DEFINE a == [view |-> v, ok |-> ok]
<1> DEFINE R(n) == Replayed(a, q)[n]
<1> DEFINE D == {n \in 0..Len(q) : R(n).view = v}
<1>1. /\ Replayed(a, q)[0] = a
      /\ \A n \in 1..Len(q) : Replayed(a, q)[n] = Replay(Replayed(a, q)[n - 1], q[n])
  BY ReplayedDef
<1>2. 0 \in D
  BY <1>1
<1>3. ASSUME NEW n \in 0..Len(q), n \in D, n + 1 \in 0..Len(q)
      PROVE  n + 1 \in D
  <2>1. q[n + 1] \in Updates /\ n + 1 \in 1..Len(q)
    BY <1>3
  <2>2. R(n + 1) = Replay(R(n), q[n + 1])
    BY <1>1, <2>1
  <2>3. R(n + 1).view = Applied(R(n).view, q[n + 1])
    BY <2>2 DEF Replay
  <2>4. R(n).view = v
    BY <1>3
  <2>5. Applied(v, q[n + 1]) = v
    BY <2>1, OldNotApplied
  <2> HIDE DEF R, a
  <2> QED
    BY <1>3, <2>3, <2>4, <2>5
<1> HIDE DEF D, R
<1>4. Len(q) \in Nat
  OBVIOUS
<1>5. \A n \in 0..Len(q) : n \in D
  BY <1>2, <1>3, <1>4, SetInduction
<1> QED
  BY <1>4, <1>5 DEF D, R

\* What has not fitted once does not fit in the end.
LEMMA ReplayedFits ==
    ASSUME NEW v \in Views, NEW ok \in BOOLEAN, NEW q \in Seq(Updates)
    PROVE  Replayed([view |-> v, ok |-> ok], q)[Len(q)].ok => ok
<1> DEFINE a == [view |-> v, ok |-> ok]
<1> DEFINE R(n) == Replayed(a, q)[n]
<1> DEFINE D == {n \in 0..Len(q) : R(n).ok => ok}
<1>1. /\ Replayed(a, q)[0] = a
      /\ \A n \in 1..Len(q) : Replayed(a, q)[n] = Replay(Replayed(a, q)[n - 1], q[n])
  BY ReplayedDef
<1>2. 0 \in D
  BY <1>1
<1>3. ASSUME NEW n \in 0..Len(q), n \in D, n + 1 \in 0..Len(q)
      PROVE  n + 1 \in D
  <2>1. q[n + 1] \in Updates /\ n + 1 \in 1..Len(q)
    BY <1>3
  <2>2. R(n + 1) = Replay(R(n), q[n + 1])
    BY <1>1, <2>1
  <2>3. R(n + 1).ok => R(n).ok
    <3>1. R(n) \in [view : Views, ok : BOOLEAN]
      BY ReplayedFurther
    <3>2. R(n + 1).ok = (R(n).ok /\ Fits(R(n).view, q[n + 1]))
      BY <2>2 DEF Replay
    <3> HIDE DEF R
    <3> QED
      BY <3>1, <3>2
  <2>4. R(n).ok => ok
    BY <1>3
  <2> HIDE DEF R, a
  <2> QED
    BY <1>3, <2>3, <2>4
<1> HIDE DEF D, R
<1>4. Len(q) \in Nat
  OBVIOUS
<1>5. \A n \in 0..Len(q) : n \in D
  BY <1>2, <1>3, <1>4, SetInduction
<1> QED
  BY <1>4, <1>5 DEF D, R

\* A snapshot of the past leaves the view in the past.
LEMMA RebasedOld ==
    ASSUME NEW v \in Views, NEW s \in Snapshots, NEW S, NEW f,
           OldItems(v.stream, v.items, S, f), OldItems(s.stream, s.items, S, f)
    PROVE  OldItems(Rebased(v, s).stream, Rebased(v, s).items, S, f)
BY DEF Rebased, Keeps, OldItems

\* The view has what the snapshot has.
LEMMA AcceptCovers ==
    ASSUME TypeOK, NEW s \in Snapshots, NEW i \in Items, Known(s.items[i])
    PROVE  Known(Accept(s).view.items[i]) /\ Accept(s).view.items[i].seq >= s.items[i].seq
<1>1. /\ view \in Views /\ view.items \in Contents /\ s.items \in Contents
      /\ Accept(s).view \in Views /\ Accept(s).view.items \in Contents
      /\ Further(Rebased(view, s), Accept(s).view)
  BY AcceptType, SnapshotFields, TypeParts DEF ClientTypes, Views
<1>2. /\ view.items[i].seq \in Nat /\ s.items[i].seq \in Nat /\ Accept(s).view.items[i].seq \in Nat
  BY <1>1, ContentsFields
<1>3. Rebased(view, s).items[i] = IF Keeps(view, s, i) THEN view.items[i] ELSE s.items[i]
  BY DEF Rebased
<1>4. Known(Rebased(view, s).items[i]) /\ Rebased(view, s).items[i].seq >= s.items[i].seq
      /\ Rebased(view, s).items[i].seq \in Nat
  BY <1>2, <1>3 DEF Keeps
<1> QED
  BY <1>1, <1>2, <1>4 DEF Further

\* One that is not before the view, and fits, is taken as it is.
LEMMA AcceptExact ==
    ASSUME TypeOK, NEW s \in Snapshots, Accept(s).ok,
           OldItems(view.stream, view.items, s.stream, s.items),
           \A k \in 1..Len(pending) : OldUpdate(pending[k], s.stream, s.items)
    PROVE  /\ Accept(s).view.stream = s.stream /\ Accept(s).view.run = s.run
           /\ Accept(s).view.items = s.items
<1> DEFINE ok == ~\E i \in Items : Clashes(view, s, i)
           v == Rebased(view, s)
<1>1. /\ view \in Views /\ pending \in Seq(Updates) /\ ok \in BOOLEAN /\ s.items \in Contents
      /\ view.items \in Contents
  BY SnapshotFields, TypeParts DEF ClientTypes, Views
<1>2. v \in Views /\ v.stream = s.stream /\ v.run = s.run
  BY <1>1, RebasedType
<1>3. ASSUME NEW i \in Items
      PROVE  v.items[i] = IF Keeps(view, s, i) THEN view.items[i] ELSE s.items[i]
  BY DEF Rebased
<1>4. Accept(s) = Replayed([view |-> v, ok |-> ok], pending)[Len(pending)]
  BY DEF Accept
<1>5. ASSUME NEW i \in Items
      PROVE  \/ v.items[i] = s.items[i]
             \/ Clashes(view, s, i)
  <2>1. CASE ~Keeps(view, s, i)
    BY <1>3, <2>1
  <2>2. CASE Keeps(view, s, i)
    <3>1. /\ NotAfter(view.items[i], s.items[i]) /\ Known(view.items[i])
          /\ v.items[i] = view.items[i] /\ Known(s.items[i]) => s.items[i].seq <= view.items[i].seq
      BY <1>3, <2>2 DEF OldItems, Keeps
    <3>2. view.items[i].seq \in Nat /\ s.items[i].seq \in Nat
      BY <1>1, ContentsFields
    <3>3. Known(s.items[i]) /\ s.items[i].seq = view.items[i].seq
      BY <2>2, <3>1, <3>2 DEF NotAfter, Keeps
    <3> QED
      BY <1>3, <2>2, <3>3 DEF Clashes
  <2> QED
    BY <2>1, <2>2
<1>6. \A i \in Items : ~Clashes(view, s, i)
  <2>1. Accept(s).ok => ok
    BY <1>1, <1>2, <1>4, ReplayedFits
  <2> QED
    BY <2>1
<1>7. v.items = s.items
  <2>1. v.items \in [Items -> Cursor] /\ s.items \in [Items -> Cursor]
    BY <1>1, <1>2 DEF Views, Contents
  <2>2. \A i \in Items : v.items[i] = s.items[i]
    BY <1>5, <1>6
  <2> HIDE DEF v
  <2> QED
    BY <2>1, <2>2
<1> HIDE DEF v, ok
<1>8. Accept(s).view = v
  BY <1>1, <1>2, <1>4, <1>7, ReplayedSame
<1> QED
  BY <1>2, <1>7, <1>8

\* What has ended is not changed back.
LEMMA AppliedEnded ==
    ASSUME NEW v \in Views, NEW u \in Updates, NEW i \in Items, Ended(v.items[i])
    PROVE  Ended(Applied(v, u).items[i])
<1>1. v.items \in [Items -> Cursor] /\ v.items \in Contents
  BY DEF Views, Contents
<1>2. CASE Result(v, u) # "applied" \/ i # u.item
  BY <1>1, <1>2, AppliedType
<1>3. CASE Result(v, u) = "applied" /\ i = u.item
  <2>1. /\ u.kind = "delta" => v.items[i].st = "running"
        /\ Applied(v, u).items = [v.items EXCEPT ![i] = Claim(u)]
    BY <1>3, AppliedType
  <2>2. u.kind = "item" /\ Valid(i, u.at) /\ Known(u.at)
    BY <1>3, <2>1, UpdateFields DEF Ended
  <2>3. UpsertResult(v.items[i], u.at) = "applied"
    BY <1>3, <2>2 DEF Result
  <2>4. u.at.st # "running"
    <3>1. /\ v.items[i].seq \in Nat /\ u.at.seq \in Nat
      BY <1>1, ContentsFields, UpdateFields
    <3> QED
      BY <2>3, <3>1 DEF UpsertResult, Ended, Known
  <2>5. i \in Messages /\ i \notin Inputs
    <3>1. Valid(i, v.items[i])
      BY <1>1, ContentsFields
    <3> QED
      BY <3>1, RunStreamConstants DEF Valid, Ended, Nothing, At
  <2>6. Ended(u.at)
    BY <2>2, <2>4, <2>5 DEF Valid, Ended, Known, Nothing, At
  <2> QED
    BY <1>1, <2>1, <2>2, <2>6 DEF Claim
<1> QED
  BY <1>2, <1>3

\* An update before which nothing is missing brings its item to its position.
LEMMA AppliedReaches ==
    ASSUME NEW v \in Views, NEW u \in Updates, u.stream = v.stream,
           u.kind = "delta" =>
              /\ Known(v.items[u.item])
              /\ v.items[u.item].seq >= u.at.seq - 1 \/ Ended(v.items[u.item])
    PROVE  LET c == Applied(v, u).items[u.item] IN
           /\ Known(c) /\ (c.seq >= u.at.seq \/ Ended(c))
           /\ Result(v, u) \notin {"missing_item", "sequence_gap", "offset_gap"}
<1> DEFINE i == u.item
           c == v.items[i]
<1>1. /\ v.items \in [Items -> Cursor] /\ v.items \in Contents /\ i \in Items
      /\ u.kind \in {"item", "delta"}
  BY UpdateFields DEF Views, Contents
<1>2. /\ c \in Cursor /\ c.seq \in Nat /\ c.len \in Nat /\ Valid(i, c)
      /\ u.at.seq \in Nat /\ u.at.len \in Nat
  BY <1>1, ContentsFields, UpdateFields
<1>3. CASE Result(v, u) = "applied"
  <2>1. Applied(v, u).items = [v.items EXCEPT ![i] = Claim(u)]
    BY <1>3, AppliedType
  <2>2. Known(Claim(u)) /\ Claim(u).seq = u.at.seq
    BY ClaimType
  <2> QED
    BY <1>1, <1>2, <1>3, <2>1, <2>2
<1>4. CASE Result(v, u) # "applied"
  <2>1. Applied(v, u) = v
    BY <1>4, AppliedType
  <2>2. CASE u.kind = "item"
    <3>1. Result(v, u) = UpsertResult(c, u.at)
      BY <2>2 DEF Result
    <3>2. /\ Known(c) /\ (c.seq >= u.at.seq \/ Ended(c))
          /\ UpsertResult(c, u.at) \notin {"missing_item", "sequence_gap", "offset_gap"}
      <4> HIDE DEF c
      <4>1. CASE Known(c) /\ u.at.seq < c.seq
        BY <1>2, <4>1 DEF UpsertResult
      <4>2. CASE Known(c) /\ u.at.seq = c.seq
        BY <1>2, <4>2 DEF UpsertResult
      <4>3. CASE (Known(c) => u.at.seq > c.seq) /\ Ended(c)
        <5>1. Known(c)
          BY <4>3 DEF Known, Ended
        <5> QED
          BY <1>2, <4>3, <5>1 DEF UpsertResult
      <4>4. CASE (Known(c) => u.at.seq > c.seq) /\ ~Ended(c)
        <5>1. UpsertResult(c, u.at) = "applied"
          BY <1>2, <4>4 DEF UpsertResult
        <5> QED
          BY <1>4, <3>1, <5>1
      <4> QED
        BY <1>2, <4>1, <4>2, <4>3, <4>4
    <3> QED
      BY <2>1, <3>1, <3>2
  <2>3. CASE u.kind = "delta"
    <3>1. Result(v, u) = DeltaResult(c, u.at) /\ i \in Messages /\ u.at.seq = u.at.len + 1
      BY <2>3, UpdateFields DEF Result
    <3>2. Known(c) /\ (c.seq >= u.at.seq - 1 \/ Ended(c))
      BY <2>3
    <3>3. \/ c.st = "running" /\ c.len = c.seq
          \/ Ended(c) /\ c.st # "running"
      BY <1>2, <3>1, <3>2, RunStreamConstants DEF Valid, Known, Nothing, At, Ended
    <3>4. CASE c.st = "running" /\ c.len = c.seq
      <4>1. c.seq >= u.at.seq - 1
        BY <3>2, <3>4 DEF Ended
      <4>2. u.at.seq < c.seq \/ u.at.seq = c.seq \/ u.at.seq = c.seq + 1
        BY <1>2, <4>1
      <4> HIDE DEF c
      <4>3. u.at.seq = c.seq + 1 => DeltaResult(c, u.at) = "applied"
        BY <1>2, <3>1, <3>2, <3>4 DEF DeltaResult
      <4>4. u.at.seq < c.seq => DeltaResult(c, u.at) = "duplicate"
        BY <1>2, <3>2 DEF DeltaResult
      <4>5. u.at.seq = c.seq => DeltaResult(c, u.at) \in {"duplicate", "cursor_conflict"}
        BY <1>2, <3>2 DEF DeltaResult
      <4> QED
        BY <1>2, <1>4, <2>1, <3>1, <3>2, <4>2, <4>3, <4>4, <4>5 DEF c
    <3>5. CASE Ended(c) /\ c.st # "running"
      <4> HIDE DEF c
      <4>1. DeltaResult(c, u.at) \in {"duplicate", "cursor_conflict", "terminal_item"}
        BY <1>2, <3>2, <3>5 DEF DeltaResult
      <4> QED
        BY <2>1, <3>1, <3>2, <3>5, <4>1 DEF c
    <3> QED
      BY <3>3, <3>4, <3>5
  <2> QED
    BY <1>1, <2>2, <2>3
<1> QED
  BY <1>3, <1>4

\* The client takes the first message.
Taken(m) ==
    /\ m = wire[1] /\ m \in Wired /\ Len(wire) > 0
    /\ \/ TakeUpdate(m) \/ TakeSnapshot(m) \/ TakeConnected(m) \/ TakeAnswer(m)
       \/ TakeFailure(m)
    /\ Len(wire') = Len(wire) - 1
    /\ \A k \in 1..(Len(wire) - 1) : wire'[k] = wire[k + 1]
    /\ UNCHANGED <<store, delivery>>

\* It does while nothing overtakes.
LEMMA TakenDef ==
    ASSUME Sound, Take, ~swapped'
    PROVE  ~swapped /\ \E m : Taken(m)
<1>1. TypeOK /\ Len(wire) \in Nat /\ swapped \in BOOLEAN
  BY SoundParts, TypeParts
<1>2. PICK p \in 1..Len(wire) :
        /\ wire[p] \in Wired
        /\ \/ TakeUpdate(wire[p]) \/ TakeSnapshot(wire[p]) \/ TakeConnected(wire[p])
           \/ TakeAnswer(wire[p]) \/ TakeFailure(wire[p])
        /\ swapped' = (swapped \/ p > 1)
        /\ Len(wire') = Len(wire) - 1
        /\ \A k \in 1..(Len(wire) - 1) : wire'[k] = IF k < p THEN wire[k] ELSE wire[k + 1]
        /\ UNCHANGED <<store, delivery>>
  BY <1>1, TakeDef
<1>3. p = 1 /\ ~swapped /\ Len(wire) > 0
  <2>1. (p > 1 => swapped') /\ (swapped => swapped')
    BY <1>2
  <2> QED
    BY <1>1, <1>2, <2>1
<1>4. \A k \in 1..(Len(wire) - 1) : wire'[k] = wire[k + 1]
  BY <1>1, <1>2, <1>3
<1>5. Taken(wire[1])
  BY <1>2, <1>3, <1>4 DEF Taken
<1> QED
  BY <1>3, <1>5

\* What is on the way moves up by one.
LEMMA TakenShift ==
    ASSUME Sound, NEW m, Taken(m)
    PROVE  /\ Total' = Total - 1 /\ Total \in Nat /\ Total > 0 /\ Total' \in Nat
           /\ Msg(1) = m /\ (Told(1) <=> IsSnapshot(m))
           /\ Told(1) => StreamOf(1) = m.stream /\ ItemsOf(1) = m.items
           /\ \A k \in 1..(Total - 1) :
                 /\ Msg(k)' = Msg(k + 1) /\ (Told(k)' <=> Told(k + 1))
                 /\ StreamOf(k)' = StreamOf(k + 1) /\ ItemsOf(k)' = ItemsOf(k + 1)
                 /\ k <= Len(wire') <=> k + 1 <= Len(wire)
                 /\ k <= Len(wire') => wire'[k] = wire[k + 1]
           /\ NowStream' = NowStream /\ NowItems' = NowItems
           /\ UNCHANGED <<live, stamp, status, rows, op, due, closed, subscribed, slots, capture>>
           /\ \A i : Underway(i)' <=> Underway(i)
<1>1. /\ Len(wire) \in Nat /\ Len(slots) \in Nat /\ Total = Len(wire) + Len(slots)
      /\ Total \in Nat
  BY SoundParts
<1>2. /\ m = wire[1] /\ Len(wire) > 0 /\ Len(wire') = Len(wire) - 1
      /\ \A k \in 1..(Len(wire) - 1) : wire'[k] = wire[k + 1]
      /\ UNCHANGED <<live, stamp, status, rows, op, due, closed, subscribed, slots, capture>>
  BY DEF Taken, store, delivery
<1>3. Total' = Total - 1 /\ Total > 0 /\ Total' \in Nat
  BY <1>1, <1>2 DEF Total
<1>4. 1 <= Len(wire) /\ 1 # Len(wire) + 1
  BY <1>1, <1>2
<1>5. /\ Msg(1) = m /\ (Told(1) <=> IsSnapshot(m))
      /\ Told(1) => StreamOf(1) = m.stream /\ ItemsOf(1) = m.items
  BY <1>2, <1>4 DEF Msg, Told, StreamOf, ItemsOf
<1>6. ASSUME NEW k \in 1..(Total - 1)
      PROVE  /\ Msg(k)' = Msg(k + 1) /\ (Told(k)' <=> Told(k + 1))
             /\ StreamOf(k)' = StreamOf(k + 1) /\ ItemsOf(k)' = ItemsOf(k + 1)
             /\ k <= Len(wire') <=> k + 1 <= Len(wire)
             /\ k <= Len(wire') => wire'[k] = wire[k + 1]
  <2>1. CASE k + 1 <= Len(wire)
    <3>1. /\ k <= Len(wire') /\ k # Len(wire') + 1 /\ k + 1 # Len(wire) + 1
          /\ k \in 1..(Len(wire) - 1)
      BY <1>1, <1>2, <2>1
    <3>2. wire'[k] = wire[k + 1]
      BY <1>2, <3>1
    <3> QED
      BY <2>1, <3>1, <3>2 DEF Msg, Told, StreamOf, ItemsOf
  <2>2. CASE ~(k + 1 <= Len(wire))
    <3>1. /\ ~(k <= Len(wire')) /\ (k = Len(wire') + 1 <=> k + 1 = Len(wire) + 1)
          /\ k - Len(wire') = (k + 1) - Len(wire)
      BY <1>1, <1>2, <2>2
    <3> QED
      BY <1>2, <2>2, <3>1 DEF Msg, Told, StreamOf, ItemsOf
  <2> QED
    BY <2>1, <2>2
<1>7. NowStream' = NowStream /\ NowItems' = NowItems /\ \A i : Underway(i)' <=> Underway(i)
  BY <1>2 DEF NowStream, NowItems, Underway
<1> QED
  BY <1>1, <1>2, <1>3, <1>5, <1>6, <1>7

\* The client stays in the past.
LEMMA TakenOld ==
    ASSUME Sound, NEW m, Taken(m), NEW S, NEW f, Before(1, S, f)
    PROVE  /\ OldItems(view'.stream, view'.items, S, f)
           /\ \A k \in 1..Len(pending') : OldUpdate(pending'[k], S, f)
<1>1. /\ TypeOK /\ view \in Views /\ pending \in Seq(Updates) /\ m \in Wired /\ TRUE \in BOOLEAN
  BY SoundParts DEF Taken
<1>2. /\ OldItems(view.stream, view.items, S, f)
      /\ \A k \in 1..Len(pending) : OldUpdate(pending[k], S, f)
      /\ IsUpdate(m) => OldUpdate(m, S, f)
      /\ IsSnapshot(m) => OldItems(m.stream, m.items, S, f)
  <2>1. 1 \in 1..1
    OBVIOUS
  <2> QED
    BY <2>1, TakenShift DEF Before
<1>3. \A k \in 1..Len(<<>>) : OldUpdate(<<>>[k], S, f)
  OBVIOUS
<1>4. CASE TakeUpdate(m)
  <2>1. m \in Updates /\ IsUpdate(m)
    BY <1>1, <1>4, WiredKinds DEF TakeUpdate, IsUpdate
  <2>2. view' \in {view, Applied(view, m)}
    BY <1>4 DEF TakeUpdate
  <2>3. pending' \in {pending, <<>>, Append(pending, m)}
    BY <1>4 DEF TakeUpdate, Synchronize, Ask
  <2>4. \A k \in 1..Len(Append(pending, m)) : OldUpdate(Append(pending, m)[k], S, f)
    <3>1. \A k \in 1..Len(Append(pending, m)) : \/ Append(pending, m)[k] = m
                                               \/ /\ k \in 1..Len(pending)
                                                  /\ Append(pending, m)[k] = pending[k]
      BY <1>1
    <3> QED
      BY <1>2, <2>1, <3>1
  <2>5. OldItems(Applied(view, m).stream, Applied(view, m).items, S, f)
    BY <1>1, <1>2, <2>1, AppliedOld
  <2> QED
    BY <1>2, <1>3, <2>2, <2>3, <2>4, <2>5
<1>5. CASE TakeSnapshot(m) \/ TakeAnswer(m)
  <2>1. m \in Snapshots /\ IsSnapshot(m)
    BY <1>1, <1>5, WiredKinds DEF TakeSnapshot, TakeAnswer, IsSnapshot
  <2>2. view' = Accept(m).view /\ pending' = <<>>
    BY <1>5 DEF TakeSnapshot, TakeAnswer, Synchronize, Ask
  <2>3. PICK ok \in BOOLEAN : ok = ~\E i \in Items : Clashes(view, m, i)
    OBVIOUS
  <2>4. Accept(m) = Replayed([view |-> Rebased(view, m), ok |-> ok], pending)[Len(pending)]
    BY <2>3 DEF Accept
  <2>5. OldItems(Rebased(view, m).stream, Rebased(view, m).items, S, f)
    BY <1>1, <1>2, <2>1, RebasedOld
  <2>6. Rebased(view, m) \in Views
    BY <1>1, <2>1, RebasedType
  <2>7. OldItems(Accept(m).view.stream, Accept(m).view.items, S, f)
    BY <1>1, <1>2, <2>4, <2>5, <2>6, ReplayedOld
  <2> QED
    BY <1>3, <2>2, <2>7
<1>6. CASE TakeConnected(m)
  <2>1. view' = view /\ pending' \in {pending, <<>>}
    BY <1>6 DEF TakeConnected, Synchronize, Ask
  <2> QED
    BY <1>2, <1>3, <2>1
<1>7. CASE TakeFailure(m)
  <2>1. view' = Abort.view /\ pending' = <<>>
    BY <1>7 DEF TakeFailure
  <2>2. OldItems(Abort.view.stream, Abort.view.items, S, f)
    BY <1>1, <1>2, ReplayedOld DEF Abort
  <2> QED
    BY <1>3, <2>1, <2>2
<1> QED
  BY <1>4, <1>5, <1>6, <1>7 DEF Taken

\* So contents stay in order.
LEMMA TakenOrdered ==
    ASSUME Sound, NEW m, Taken(m), Ordered
    PROVE  Ordered'
<1>1. /\ Total' = Total - 1 /\ Total \in Nat /\ Total > 0
      /\ \A k \in 1..(Total - 1) :
            /\ Msg(k)' = Msg(k + 1) /\ (Told(k)' <=> Told(k + 1))
            /\ StreamOf(k)' = StreamOf(k + 1) /\ ItemsOf(k)' = ItemsOf(k + 1)
      /\ NowStream' = NowStream /\ NowItems' = NowItems
  BY TakenShift
<1>2. ASSUME NEW n \in 0..(Total - 1), NEW S, NEW f, Before(n + 1, S, f)
      PROVE  Before(n, S, f)'
  <2>1. 1 \in 0..(n + 1) /\ n + 1 \in Nat
    BY <1>1
  <2>2. Before(1, S, f)
    BY <1>2, <2>1, BeforeLess
  <2>3. ASSUME NEW k \in 1..n
        PROVE  /\ IsUpdate(Msg(k))' => OldUpdate(Msg(k)', S, f)
               /\ Told(k)' => OldItems(StreamOf(k)', ItemsOf(k)', S, f)
    <3>1. k \in 1..(Total - 1) /\ k + 1 \in 1..(n + 1)
      BY <1>1
    <3> QED
      BY <1>1, <1>2, <3>1 DEF Before
  <2> QED
    BY <2>2, <2>3, TakenOld DEF Before
<1>3. ASSUME NEW k \in 1..Total', Told(k)'
      PROVE  Before(k - 1, StreamOf(k), ItemsOf(k))'
  <2>1. k \in 1..(Total - 1) /\ k + 1 \in 1..Total /\ k - 1 \in 0..(Total - 1) /\ (k - 1) + 1 = k
    BY <1>1
  <2>2. PICK S, f : S = StreamOf(k + 1) /\ f = ItemsOf(k + 1)
    OBVIOUS
  <2>3. Before((k + 1) - 1, S, f)
    BY <1>1, <1>3, <2>1, <2>2 DEF Ordered
  <2>4. (k + 1) - 1 = (k - 1) + 1
    BY <2>1
  <2>5. Before(k - 1, S, f)'
    BY <1>2, <2>1, <2>3, <2>4
  <2> QED
    BY <1>1, <2>1, <2>2, <2>5 DEF Before
<1>4. Before(Total, NowStream, NowItems)'
  <2>1. PICK n, S, f : n = Total - 1 /\ S = NowStream /\ f = NowItems
    OBVIOUS
  <2>2. n \in 0..(Total - 1) /\ n + 1 = Total
    BY <1>1, <2>1
  <2>3. Before(n, S, f)'
    BY <1>2, <2>1, <2>2 DEF Ordered
  <2> QED
    BY <1>1, <2>1, <2>3 DEF Before
<1> QED
  BY <1>3, <1>4 DEF Ordered

\* What has come as far before the first message and with it, the client has then.
LEMMA TakenView ==
    ASSUME Sound, NEW m, Taken(m), LedUp(1), NEW S, NEW i \in Items, NEW q \in Int,
           ready', fate' # "failed",
           \/ Brings(1, S, i, q)
           \/ ~IsBarrier(m) /\ ((ready /\ fate # "failed") => InView(S, i, q))
    PROVE  InView(S, i, q)'
<1>1. /\ TypeOK /\ view \in Views /\ view.items \in Contents /\ m \in Wired
      /\ Msg(1) = m /\ (Told(1) <=> IsSnapshot(m))
      /\ Told(1) => StreamOf(1) = m.stream /\ ItemsOf(1) = m.items
  BY SoundParts, TakenShift DEF Taken
<1> SUFFICES ASSUME view'.stream = S
             PROVE  Known(view'.items[i]) /\ (view'.items[i].seq >= q \/ Ended(view'.items[i]))
  BY DEF InView
<1>2. view.items[i].seq \in Nat
  BY <1>1, ContentsFields
<1>3. CASE TakeUpdate(m)
  <2>1. m \in Updates /\ IsUpdate(m) /\ ~IsBarrier(m) /\ ready /\ fate # "failed"
        /\ view' = Applied(view, m)
    BY <1>1, <1>3, WiredKinds DEF TakeUpdate, IsUpdate, IsBarrier, Synchronize, Ask
  <2>2. view.stream = S
    BY <1>1, <2>1, AppliedType
  <2>3. m.item \in Items /\ m.at.seq \in Nat /\ view.items[m.item].seq \in Nat
        /\ Applied(view, m) \in Views /\ Applied(view, m).items \in Contents
    BY <1>1, <2>1, UpdateFields, ContentsFields, AppliedType DEF Views
  <2>4. Applied(view, m).items[i].seq \in Nat
    BY <2>3, ContentsFields
  <2>5. CASE m.stream = S /\ m.item = i /\ m.at.seq >= q
    <3>1. m.kind = "delta" =>
              /\ Known(view.items[i])
              /\ view.items[i].seq >= m.at.seq - 1 \/ Ended(view.items[i])
      <4> SUFFICES ASSUME m.kind = "delta"
                   PROVE  InView(S, i, m.at.seq - 1)
        BY <2>2 DEF InView
      <4>1. Fed(1 - 1, S, i, m.at.seq - 1)
        BY <1>1, <2>5 DEF LedUp
      <4>2. \A k : k \notin 1..(1 - 1)
        OBVIOUS
      <4> QED
        BY <2>1, <4>1, <4>2 DEF Fed
    <3>2. /\ Known(Applied(view, m).items[i])
          /\ Applied(view, m).items[i].seq >= m.at.seq \/ Ended(Applied(view, m).items[i])
      BY <1>1, <2>1, <2>2, <2>5, <3>1, AppliedReaches
    <3> QED
      BY <2>1, <2>3, <2>4, <2>5, <3>2
  <2>6. CASE InView(S, i, q)
    <3>1. Known(view.items[i]) /\ (view.items[i].seq >= q \/ Ended(view.items[i]))
      BY <2>2, <2>6 DEF InView
    <3>2. Known(view'.items[i]) /\ view'.items[i].seq >= view.items[i].seq
      BY <1>1, <2>1, <3>1, AppliedFurther DEF Further
    <3>3. Ended(view.items[i]) => Ended(view'.items[i])
      BY <1>1, <2>1, AppliedEnded
    <3> QED
      BY <1>2, <2>1, <2>4, <3>1, <3>2, <3>3
  <2> QED
    BY <1>1, <2>1, <2>5, <2>6 DEF Brings
<1>4. CASE TakeSnapshot(m) \/ TakeAnswer(m)
  <2>1. m \in Snapshots /\ IsSnapshot(m) /\ IsBarrier(m) /\ ~IsUpdate(m)
    BY <1>1, <1>4, WiredKinds DEF TakeSnapshot, TakeAnswer, IsSnapshot, IsBarrier, IsUpdate
  <2>2. view' = Accept(m).view /\ Accept(m).view.stream = m.stream /\ Accept(m).view \in Views
    BY <1>1, <1>4, <2>1, AcceptType DEF TakeSnapshot, TakeAnswer
  <2>3. Known(m.items[i]) /\ m.items[i].seq >= q
    BY <1>1, <2>1, <2>2 DEF Brings
  <2>4. Known(view'.items[i]) /\ view'.items[i].seq >= m.items[i].seq
    BY <1>1, <2>1, <2>2, <2>3, AcceptCovers
  <2>5. m.items[i].seq \in Nat /\ view'.items[i].seq \in Nat
    <3>1. m.items \in Contents /\ view'.items \in Contents
      BY <2>1, <2>2, SnapshotFields DEF Views
    <3> QED
      BY <3>1, ContentsFields
  <2> QED
    BY <2>3, <2>4, <2>5
<1>5. CASE TakeConnected(m)
  <2>1. view' = view /\ ready /\ fate # "failed" /\ ~IsUpdate(m) /\ ~IsBarrier(m)
    BY <1>5 DEF TakeConnected, Synchronize, Ask, IsUpdate, IsBarrier
  <2> QED
    BY <1>1, <2>1 DEF Brings, InView
<1>6. CASE TakeFailure(m)
  BY <1>6 DEF TakeFailure
<1> QED
  BY <1>3, <1>4, <1>5, <1>6 DEF Taken

\* What comes to a position comes to it.
LEMMA TakenFed ==
    ASSUME Sound, NEW m, Taken(m), LedUp(1), NEW n \in 0..(Total - 1),
           NEW S, NEW i \in Items, NEW q \in Int, Fed(n + 1, S, i, q)
    PROVE  Fed(n, S, i, q)'
<1>1. /\ Total \in Nat /\ Total > 0 /\ Msg(1) = m /\ (Told(1) <=> IsSnapshot(m))
      /\ \A k \in 1..(Total - 1) :
            /\ Msg(k)' = Msg(k + 1) /\ (Told(k)' <=> Told(k + 1))
            /\ StreamOf(k)' = StreamOf(k + 1) /\ ItemsOf(k)' = ItemsOf(k + 1)
  BY TakenShift
<1>2. ASSUME NEW a \in Nat, Clear(a + 1, n + 1)
      PROVE  a > 0 => Clear(a, n)'
  <2> SUFFICES ASSUME a > 0, NEW j \in a..n
               PROVE  ~IsBarrier(Msg(j)')
    BY DEF Clear
  <2>1. j \in 1..(Total - 1) /\ j + 1 \in (a + 1)..(n + 1)
    BY <1>1
  <2> QED
    BY <1>1, <1>2, <2>1 DEF Clear
<1>3. CASE \E k \in 1..(n + 1) : k > 1 /\ Brings(k, S, i, q) /\ Clear(k + 1, n + 1)
  <2>1. PICK k \in 1..(n + 1) : k > 1 /\ Brings(k, S, i, q) /\ Clear(k + 1, n + 1)
    BY <1>3
  <2>2. PICK j \in 1..n : j + 1 = k
    <3>1. k - 1 \in 1..n /\ (k - 1) + 1 = k
      BY <2>1
    <3> QED
      BY <3>1
  <2>3. j \in 1..(Total - 1) /\ j \in Nat /\ j + 1 \in Nat /\ j > 0 /\ j + 1 > 0
    BY <1>1
  <2>4. Brings(j, S, i, q)'
    BY <1>1, <2>1, <2>2, <2>3 DEF Brings
  <2>5. Clear(j + 1, n)'
    BY <1>2, <2>1, <2>2, <2>3
  <2> QED
    BY <2>4, <2>5 DEF Fed
<1>4. CASE \/ Brings(1, S, i, q) /\ Clear(2, n + 1)
           \/ Clear(1, n + 1) /\ ((ready /\ fate # "failed") => InView(S, i, q))
  <2>1. \/ Brings(1, S, i, q)
        \/ ~IsBarrier(m) /\ ((ready /\ fate # "failed") => InView(S, i, q))
    <3>1. 1 \in 1..(n + 1)
      OBVIOUS
    <3> QED
      BY <1>1, <1>4, <3>1 DEF Clear
  <2>2. Clear(1 + 1, n + 1)
    <3>1. \A j \in (1 + 1)..(n + 1) : j \in 1..(n + 1) /\ j \in 2..(n + 1)
      OBVIOUS
    <3> QED
      BY <1>4, <3>1 DEF Clear
  <2>3. Clear(1, n)'
    BY <1>2, <2>2
  <2>4. (ready' /\ fate' # "failed") => InView(S, i, q)'
    BY <2>1, TakenView
  <2> QED
    BY <2>3, <2>4 DEF Fed
<1>5. \A k \in 1..(n + 1) : k > 1 \/ (k = 1 /\ k + 1 = 2)
  OBVIOUS
<1> QED
  BY <1>3, <1>4, <1>5 DEF Fed

\* So no gap opens.
LEMMA TakenGapless ==
    ASSUME Sound, NEW m, Taken(m), Gapless
    PROVE  Gapless'
<1>1. /\ Total' = Total - 1 /\ Total \in Nat /\ Total > 0
      /\ \A k \in 1..(Total - 1) : Msg(k)' = Msg(k + 1)
      /\ NowStream' = NowStream /\ UNCHANGED <<live, subscribed>>
  BY TakenShift
<1>2. LedUp(1)
  <2>1. 1 \in 1..Total
    BY <1>1
  <2> QED
    BY <2>1 DEF Gapless
<1>3. ASSUME NEW p \in 1..Total'
      PROVE  LedUp(p)'
  <2> SUFFICES ASSUME Msg(p)'.kind = "delta"
               PROVE  LedUp(p)'
    BY DEF LedUp
  <2>1. p \in 1..(Total - 1) /\ p + 1 \in 1..Total /\ p - 1 \in 0..(Total - 1)
    BY <1>1
  <2>2. PICK u : u = Msg(p + 1)
    OBVIOUS
  <2>3. Msg(p)' = u /\ u.kind = "delta" /\ IsUpdate(u)
    BY <1>1, <2>1, <2>2 DEF IsUpdate
  <2>4. u \in Updates /\ u.item \in Items /\ u.at.seq - 1 \in Int
    <3>1. u \in Updates
      BY <2>1, <2>2, <2>3, MsgDef
    <3>2. u.item \in Items /\ u.at.seq \in Nat
      BY <3>1, UpdateFields
    <3> QED
      BY <3>1, <3>2
  <2>5. Fed((p + 1) - 1, u.stream, u.item, u.at.seq - 1)
    BY <2>1, <2>2, <2>3 DEF Gapless, LedUp
  <2>6. (p + 1) - 1 = (p - 1) + 1
    BY <2>1
  <2>7. Fed(p - 1, u.stream, u.item, u.at.seq - 1)'
    BY <1>2, <2>1, <2>4, <2>5, <2>6, TakenFed
  <2> QED
    BY <2>3, <2>7 DEF LedUp
<1>4. ASSUME subscribed, live.on, NEW i \in Items, Known(live.items[i])
      PROVE  Fed(Total, NowStream, i, live.items[i].seq)'
  <2>1. PICK n, S, q : n = Total - 1 /\ S = NowStream /\ q = live.items[i].seq
    OBVIOUS
  <2>2. n \in 0..(Total - 1) /\ n + 1 = Total /\ q \in Int
    <3>1. q \in Nat
      BY <2>1, SoundParts, LiveFields
    <3> QED
      BY <1>1, <2>1, <3>1
  <2>3. Fed(n + 1, S, i, q)
    BY <1>4, <2>1, <2>2 DEF Gapless, LedOn
  <2>4. Fed(n, S, i, q)'
    BY <1>2, <2>2, <2>3, TakenFed
  <2> QED
    BY <1>1, <2>1, <2>4 DEF Fed, Brings, InView
<1> QED
  BY <1>1, <1>3, <1>4 DEF Gapless, LedOn

\* A follower moves up.
LEMMA TakenFollows ==
    ASSUME Sound, NEW m, Taken(m), NEW b \in Nat, NEW i, Follows(b + 1, i)
    PROVE  Follows(b, i)'
<1>1. /\ Total' = Total - 1 /\ Total \in Nat
      /\ \A k \in 1..(Total - 1) : Msg(k)' = Msg(k + 1)
      /\ NowStream' = NowStream /\ UNCHANGED live
  BY TakenShift
<1>2. PICK k \in (b + 2)..Total :
        /\ IsUpdate(Msg(k)) /\ Msg(k).stream = NowStream /\ Msg(k).item = i
        /\ Claim(Msg(k)) = live.items[i]
  <2>1. (b + 1) + 1 = b + 2
    OBVIOUS
  <2> QED
    BY <2>1 DEF Follows
<1>3. PICK j \in (b + 1)..Total' : j + 1 = k
  <2>1. k - 1 \in (b + 1)..Total' /\ (k - 1) + 1 = k
    BY <1>1
  <2> QED
    BY <2>1
<1>4. j \in 1..(Total - 1)
  BY <1>1
<1>5. Msg(j)' = Msg(k)
  BY <1>1, <1>3, <1>4
<1> QED
  BY <1>1, <1>2, <1>5 DEF Follows

\* So does what is current.
LEMMA TakenCurrent ==
    ASSUME Sound, NEW m, Taken(m), NEW b \in Nat, NEW S, NEW f, Current(b + 1, S, f)
    PROVE  Current(b, S, f)'
<1>1. /\ NowStream' = NowStream /\ UNCHANGED <<live, status, rows>>
      /\ \A i : Underway(i)' <=> Underway(i)
  BY TakenShift
<1>2. \A i \in Items : Follows(b + 1, i) => Follows(b, i)'
  BY TakenFollows
<1>3. \A i \in Items : Shows(f[i], i) => Shows(f[i], i)'
  BY <1>1 DEF Shows
<1> QED
  BY <1>1, <1>2, <1>3 DEF Current

\* An update of the server's own stream brings the view to what the server has.
LEMMA TakenUpdate ==
    ASSUME Sound, Ordered, NEW m, Taken(m), IsUpdate(m), ready, Fits(view, m),
           Current(0, view.stream, view.items), NEW v, v = Applied(view, m)
    PROVE  Current(0, v.stream, v.items)'
<1>1. /\ TypeOK /\ view \in Views /\ view.items \in Contents /\ view.items \in [Items -> Cursor]
      /\ m \in Updates /\ Msg(1) = m /\ Total \in Nat /\ Total > 0
      /\ Total' = Total - 1 /\ NowStream' = NowStream
      /\ UNCHANGED <<live, status, rows>> /\ \A i : Underway(i)' <=> Underway(i)
      /\ \A k \in 1..(Total - 1) : Msg(k)' = Msg(k + 1)
      /\ live.items \in Contents /\ rows \in Contents
  BY SoundParts, WiredKinds, TakenShift DEF Taken, IsUpdate, Views, Contents
<1> DEFINE x == m.item
           c == view.items[x]
           d == NowItems[x]
<1>2. /\ x \in Items /\ m.at.seq \in Nat /\ Claim(m).seq = m.at.seq /\ Known(Claim(m))
      /\ Claim(m) \in Cursor /\ c.seq \in Nat /\ d.seq \in Nat /\ live.items[x].seq \in Nat
      /\ d = IF Known(live.items[x]) THEN live.items[x] ELSE rows[x]
      /\ m.kind = "delta" => m.at.seq > 0
  BY <1>1, UpdateFields, ClaimType, ContentsFields, NowDef
<1>3. /\ m.stream = view.stream /\ view.stream = NowStream
      /\ Result(view, m) \in {"applied", "duplicate"}
  BY DEF Fits, Result, Current
<1>4. NotAfter(Claim(m), d) /\ NotAfter(c, d)
  <2>1. 1 \in 1..Total
    BY <1>1
  <2>2. OldUpdate(m, NowStream, NowItems) /\ OldItems(view.stream, view.items, NowStream, NowItems)
    BY <1>1, <2>1 DEF Ordered, Before
  <2> QED
    BY <1>2, <1>3, <2>2 DEF OldUpdate, OldItems
<1>5. ASSUME NEW i \in Items, i # x
      PROVE  Applied(view, m).items[i] = view.items[i]
  <2>1. Applied(view, m) # view => Applied(view, m).items = [view.items EXCEPT ![x] = Claim(m)]
    BY <1>1, AppliedType
  <2> QED
    BY <1>1, <1>5, <2>1
<1>6. \/ /\ Result(view, m) = "applied" /\ Applied(view, m).items[x] = Claim(m)
         /\ c.seq < m.at.seq \/ ~Known(c)
      \/ Result(view, m) = "duplicate" /\ Applied(view, m).items[x] = c
  <2>1. CASE Result(view, m) = "applied"
    <3>1. /\ Applied(view, m).items = [view.items EXCEPT ![x] = Claim(m)]
          /\ c.seq < m.at.seq \/ ~Known(c)
      BY <1>1, <2>1, AppliedType
    <3> QED
      BY <1>1, <1>2, <2>1, <3>1
  <2>2. CASE Result(view, m) = "duplicate"
    BY <2>2 DEF Applied
  <2> QED
    BY <1>3, <2>1, <2>2
<1>7. Result(view, m) = "duplicate" => /\ Known(c) /\ c.seq >= m.at.seq
                                       /\ c.seq = m.at.seq => m.kind = "delta" \/ c = m.at
  <2> SUFFICES ASSUME Result(view, m) = "duplicate"
               PROVE  /\ Known(c) /\ c.seq >= m.at.seq
                      /\ c.seq = m.at.seq => m.kind = "delta" \/ c = m.at
    OBVIOUS
  <2>1. CASE m.kind = "item"
    <3>1. UpsertResult(c, m.at) = "duplicate"
      BY <1>3, <2>1 DEF Result
    <3> HIDE DEF c
    <3> QED
      BY <1>2, <2>1, <3>1 DEF UpsertResult
  <2>2. CASE m.kind = "delta"
    <3>1. DeltaResult(c, m.at) = "duplicate"
      BY <1>3, <2>2 DEF Result
    <3> HIDE DEF c
    <3> QED
      BY <1>2, <2>2, <3>1 DEF DeltaResult
  <2> QED
    BY <2>1, <2>2 DEF IsUpdate
<1> HIDE DEF c, d, x
<1>8. ASSUME Known(live.items[x]), Claim(m) = live.items[x]
      PROVE  Applied(view, m).items[x] = live.items[x]
  <2>1. CASE Result(view, m) = "applied"
    BY <1>6, <1>8, <2>1
  <2>2. CASE Result(view, m) = "duplicate"
    <3>1. c.seq <= Claim(m).seq /\ (c.seq = Claim(m).seq /\ c.seq > 0 => c = Claim(m))
      BY <1>2, <1>4, <1>7, <1>8, <2>2 DEF NotAfter
    <3>2. c.seq = m.at.seq
      BY <1>2, <1>7, <2>2, <3>1
    <3>3. c = Claim(m)
      <4>1. CASE m.kind = "delta"
        BY <1>2, <3>1, <3>2, <4>1
      <4>2. CASE m.kind = "item"
        BY <1>7, <2>2, <3>2, <4>2 DEF Claim
      <4> QED
        BY <4>1, <4>2 DEF IsUpdate
    <3> QED
      BY <1>6, <1>8, <2>2, <3>3
  <2> QED
    BY <1>3, <2>1, <2>2
<1>9. ASSUME Known(live.items[x]), c = live.items[x]
      PROVE  Applied(view, m).items[x] = live.items[x]
  <2>1. d = c /\ Known(d)
    BY <1>2, <1>9
  <2>2. Claim(m).seq <= c.seq
    BY <1>2, <1>4, <2>1 DEF NotAfter
  <2>3. Result(view, m) # "applied"
    BY <1>2, <1>6, <2>1, <2>2
  <2> QED
    BY <1>6, <1>9, <2>3
<1>10. ASSUME ~Known(live.items[x]), Same(c, rows[x]) \/ Underway(x)
       PROVE  Same(Applied(view, m).items[x], rows[x]) \/ Underway(x)
  <2>1. CASE Underway(x)
    BY <2>1
  <2>2. CASE Same(c, rows[x])
    <3>1. d = rows[x] /\ Known(d) /\ d.seq = 0 /\ Claim(m).seq <= d.seq
      BY <1>2, <1>4, <1>10, SoundParts DEF NotAfter, StoreInv
    <3>2. Known(c)
      BY <2>2, <3>1 DEF Same, Known
    <3>3. Result(view, m) # "applied"
      BY <1>2, <1>6, <3>1, <3>2
    <3> QED
      BY <1>6, <2>2, <3>3
  <2> QED
    BY <1>10, <2>1, <2>2
<1>11. ASSUME NEW i \in Items, Follows(0, i)
       PROVE  Follows(0, i)' \/ (i = x /\ Known(live.items[x]) /\ Claim(m) = live.items[x])
  <2>1. Known(live.items[i])
    BY <1>11 DEF Follows
  <2>2. PICK k \in (0 + 1)..Total :
           /\ IsUpdate(Msg(k)) /\ Msg(k).stream = NowStream /\ Msg(k).item = i
           /\ Claim(Msg(k)) = live.items[i]
    BY <1>11 DEF Follows
  <2>3. CASE k = 1
    BY <1>1, <2>1, <2>2, <2>3 DEF x
  <2>4. CASE k # 1
    <3>1. k \in ((0 + 1) + 1)..Total
      BY <1>1, <2>2, <2>4
    <3>2. Follows(0 + 1, i)
      BY <2>1, <2>2, <3>1 DEF Follows
    <3> QED
      BY <3>2, TakenFollows
  <2> QED
    BY <2>3, <2>4
<1>12. ASSUME NEW i \in Items
       PROVE  Shows(v.items[i], i)' \/ Follows(0, i)'
  <2>1. Shows(view.items[i], i) \/ Follows(0, i)
    BY DEF Current
  <2>2. PICK e : e = Applied(view, m).items[i]
    OBVIOUS
  <2>3. Shows(e, i) => Shows(e, i)'
    BY <1>1 DEF Shows
  <2>4. Shows(e, i) \/ Follows(0, i)'
    <3>1. CASE i # x
      BY <1>5, <1>11, <2>1, <2>2, <3>1
    <3>2. CASE i = x
      <4>1. CASE Known(live.items[x]) /\ (c = live.items[x] \/ Claim(m) = live.items[x])
        BY <1>8, <1>9, <2>2, <3>2, <4>1 DEF Shows
      <4>2. CASE ~Known(live.items[x]) /\ (Same(c, rows[x]) \/ Underway(x))
        BY <1>10, <2>2, <3>2, <4>2 DEF Shows
      <4>3. Shows(c, x) \/ Follows(0, x)
        BY <2>1, <3>2 DEF c
      <4> QED
        BY <1>11, <3>2, <4>1, <4>2, <4>3 DEF Shows
    <3> QED
      BY <3>1, <3>2
  <2> QED
    BY <2>2, <2>3, <2>4
<1>13. v.stream = NowStream' /\ (live'.on \/ status' = "ended")
  BY <1>1, <1>3, AppliedType DEF Current
<1> QED
  BY <1>12, <1>13 DEF Current

\* What the client shows is right once it has taken the last message that matters.
LEMMA TakenHand ==
    ASSUME Sound, NEW m, Taken(m), Flow, subscribed
    PROVE  InHand'
<1>1. /\ Total' = Total - 1 /\ Total \in Nat /\ Total > 0
      /\ Msg(1) = m /\ (Told(1) <=> IsSnapshot(m))
      /\ Told(1) => StreamOf(1) = m.stream /\ ItemsOf(1) = m.items
      /\ \A k \in 1..(Total - 1) : Msg(k)' = Msg(k + 1)
      /\ UNCHANGED <<live, status>> /\ TypeOK /\ m \in Wired /\ view \in Views
  BY SoundParts, TakenShift DEF Taken
<1> SUFFICES ASSUME Clear(1, Total)', ready', sync' = "idle", fate' = "fine"
             PROVE  Current(0, view.stream, view.items)' /\ view'.run = status'
  BY DEF InHand
<1>2. Clear(2, Total)
  <2> SUFFICES ASSUME NEW j \in 2..Total
               PROVE  ~IsBarrier(Msg(j))
    BY DEF Clear
  <2>1. PICK k \in 1..Total' : k + 1 = j
    <3>1. j - 1 \in 1..Total' /\ (j - 1) + 1 = j
      BY <1>1
    <3> QED
      BY <3>1
  <2>2. k \in 1..(Total - 1)
    BY <1>1
  <2> QED
    BY <1>1, <2>1, <2>2 DEF Clear
<1>3. CASE TakeUpdate(m)
  <2>1. /\ ready /\ Fits(view, m) /\ sync = "idle" /\ fate = "fine" /\ view' = Applied(view, m)
        /\ IsUpdate(m) /\ ~IsBarrier(m) /\ m \in Updates
    BY <1>1, <1>3, WiredKinds DEF TakeUpdate, Synchronize, Ask, IsUpdate, IsBarrier
  <2>2. Clear(1, Total)
    <3>1. \A j \in 1..Total : j = 1 \/ j \in 2..Total
      BY <1>1
    <3> QED
      BY <1>1, <1>2, <2>1, <3>1 DEF Clear
  <2>3. Current(0, view.stream, view.items) /\ view.run = status
    BY <2>1, <2>2 DEF Flow, UpToDate, InHand
  <2>4. PICK v : v = Applied(view, m)
    OBVIOUS
  <2>5. Current(0, v.stream, v.items)'
    BY <2>1, <2>3, <2>4, TakenUpdate DEF Flow
  <2>6. v.run = view.run
    BY <1>1, <2>1, <2>4, AppliedType
  <2> QED
    BY <1>1, <2>1, <2>3, <2>4, <2>5, <2>6 DEF Current
<1>4. CASE TakeSnapshot(m) \/ TakeAnswer(m)
  <2>1. m \in Snapshots /\ IsSnapshot(m)
    BY <1>1, <1>4, WiredKinds DEF TakeSnapshot, TakeAnswer, IsSnapshot
  <2>2. view' = Accept(m).view /\ Accept(m).ok
    BY <1>4 DEF TakeSnapshot, TakeAnswer, Synchronize, Ask
  <2>3. Told(1) /\ StreamOf(1) = m.stream /\ ItemsOf(1) = m.items /\ 1 \in 1..Total
        /\ 1 <= Len(wire) /\ wire[1] = m
    <3>1. Len(wire) > 0 /\ wire[1] = m /\ Len(wire) \in Nat
      BY SoundParts DEF Taken
    <3> QED
      BY <1>1, <2>1, <3>1
  <2>4. Current(1, m.stream, m.items) /\ m.run = status
    <3>1. Clear(1 + 1, Total)
      BY <1>2
    <3> QED
      BY <2>3, <3>1 DEF Flow, UpToDate, InForce
  <2>5. Before(1 - 1, m.stream, m.items)
    BY <2>3 DEF Flow, Ordered
  <2>6. /\ view'.stream = m.stream /\ view'.run = m.run /\ view'.items = m.items
    BY <1>1, <2>1, <2>2, <2>5, AcceptExact DEF Before
  <2>7. PICK S, f : S = m.stream /\ f = m.items
    OBVIOUS
  <2>8. Current(0, S, f)'
    <3>1. Current(0 + 1, S, f)
      BY <2>4, <2>7
    <3> QED
      BY <3>1, TakenCurrent
  <2> QED
    BY <1>1, <2>4, <2>6, <2>7, <2>8 DEF Current
<1>5. CASE TakeConnected(m)
  BY <1>5 DEF TakeConnected, Synchronize, Ask
<1>6. CASE TakeFailure(m)
  BY <1>6 DEF TakeFailure
<1> QED
  BY <1>3, <1>4, <1>5, <1>6 DEF Taken

\* What the client takes while nothing overtakes.
LEMMA TakenFlow ==
    ASSUME Sound, NEW m, Taken(m), Flow
    PROVE  Flow'
<1>1. /\ Total' = Total - 1 /\ Total \in Nat /\ Total > 0 /\ Len(wire) \in Nat
      /\ \A k \in 1..(Total - 1) :
            /\ Msg(k)' = Msg(k + 1) /\ (Told(k)' <=> Told(k + 1))
            /\ StreamOf(k)' = StreamOf(k + 1) /\ ItemsOf(k)' = ItemsOf(k + 1)
            /\ k <= Len(wire') <=> k + 1 <= Len(wire)
            /\ k <= Len(wire') => wire'[k] = wire[k + 1]
      /\ UNCHANGED <<live, status, capture, subscribed>> /\ NowStream' = NowStream
      /\ Len(wire') = Len(wire) - 1 /\ Len(wire) > 0
  BY SoundParts, TakenShift DEF Taken
<1>2. Ordered' /\ Gapless'
  BY TakenOrdered, TakenGapless DEF Flow
<1>3. ASSUME subscribed, NEW b \in 1..Total', Told(b)', Clear(b + 1, Total)'
      PROVE  /\ Current(b, StreamOf(b), ItemsOf(b))'
             /\ b <= Len(wire') => wire'[b].run = status'
             /\ (b > Len(wire') /\ capture'.phase = "read") => capture'.run = status'
  <2>1. b \in 1..(Total - 1) /\ b + 1 \in 1..Total /\ b \in Nat
    BY <1>1
  <2>2. Clear((b + 1) + 1, Total)
    <3> SUFFICES ASSUME NEW j \in ((b + 1) + 1)..Total
                 PROVE  ~IsBarrier(Msg(j))
      BY DEF Clear
    <3>1. PICK k \in (b + 1)..Total' : k + 1 = j
      <4>1. j - 1 \in (b + 1)..Total' /\ (j - 1) + 1 = j
        BY <1>1, <2>1
      <4> QED
        BY <4>1
    <3>2. k \in 1..(Total - 1)
      BY <1>1, <2>1
    <3> QED
      BY <1>1, <1>3, <3>1, <3>2 DEF Clear
  <2>3. PICK S, f : S = StreamOf(b + 1) /\ f = ItemsOf(b + 1)
    OBVIOUS
  <2>4. InForce(b + 1) /\ Told(b + 1) /\ Current(b + 1, S, f)
    BY <1>1, <1>3, <2>1, <2>2, <2>3 DEF Flow, UpToDate, InForce
  <2>5. Current(b, S, f)'
    BY <2>1, <2>4, TakenCurrent
  <2>6. /\ b <= Len(wire') => b + 1 <= Len(wire) /\ wire'[b] = wire[b + 1]
        /\ b > Len(wire') => b + 1 > Len(wire)
    BY <1>1, <2>1
  <2> QED
    BY <1>1, <2>1, <2>2, <2>3, <2>4, <2>5, <2>6 DEF InForce, Current
<1>4. subscribed => InHand'
  BY TakenHand
<1>5. subscribed => InWork'
  <2>1. PICK b \in Nat : b = Len(wire')
    BY <1>1
  <2>2. \A i : Follows((b + 1) + 1, i) => Follows(b + 1, i)'
    BY <2>1, TakenFollows
  <2>3. (b + 1) + 1 = Len(wire) + 1
    BY <1>1, <2>1
  <2> QED
    BY <1>1, <2>1, <2>2, <2>3 DEF Flow, UpToDate, InWork, Follows
<1> QED
  BY <1>1, <1>2, <1>3, <1>4, <1>5 DEF Flow, UpToDate, InForce

-----------------------------------------------------------------------------
(* The invariant                                                            *)

\* A step of the server.
LEMMA ServedFlow ==
    ASSUME Sound, StoreKept, Steady, Flow, Served
    PROVE  Flow'
BY QuietFlow, RowedFlow, SeveredFlow, PushedFlow, PublishedFlow, FilledFlow DEF Served

\* The invariant is inductive.
LEMMA StepInvariant ==
    ASSUME RunStreamInv, [Next]_vars
    PROVE  RunStreamInv'
<1>1. Sound /\ TypeOK /\ StoreInv /\ DeliveryInv /\ FlowInv
  BY DEF RunStreamInv, Sound
<1>2. TypeOK' /\ StoreKept /\ DeliveryInv' /\ (Steady \/ Take)
  BY <1>1, StepKept
<1>3. StoreTypes' /\ StoreInv'
  BY <1>2 DEF StoreKept
<1>4. CASE ~Take
  <2>1. Steady /\ Served
    BY <1>1, <1>2, <1>3, <1>4, StepServed
  <2>2. StreamsInv'
    BY <1>1, <1>2, <2>1, StreamsServed
  <2>3. FlowInv'
    BY <1>1, <1>2, <2>1, ServedFlow DEF FlowInv, Flow, Steady
  <2> QED
    BY <1>2, <1>3, <2>2, <2>3 DEF RunStreamInv
<1>5. CASE Take
  <2>1. StreamsInv'
    BY <1>1, <1>5, StreamsTaken
  <2>2. ASSUME ~swapped'
        PROVE  Flow'
    <3>1. ~swapped /\ \E m : Taken(m)
      BY <1>1, <1>5, <2>2, TakenDef
    <3>2. Flow
      BY <1>1, <3>1 DEF FlowInv, Flow
    <3> QED
      BY <1>1, <3>1, <3>2, TakenFlow
  <2>3. FlowInv'
    BY <2>2 DEF FlowInv, Flow
  <2> QED
    BY <1>2, <1>3, <2>1, <2>3 DEF RunStreamInv
<1> QED
  BY <1>4, <1>5

\* It holds in the beginning: nothing is on the way.
LEMMA InitInvariant ==
    ASSUME Init
    PROVE  RunStreamInv
<1>1. /\ NoItems \in Contents /\ Idle \in Captures /\ NoItems = [i \in Items |-> Nothing]
      /\ ~Known(Nothing) /\ Nothing.seq = 0
  BY NoItemsType, IdleType DEF NoItems, Nothing, At
<1>2. TypeOK
  <2>1. StoreTypes
    BY <1>1 DEF Init, StoreTypes, Runs, Lives
  <2>2. DeliveryTypes
    <3>1. <<>> \in Seq(Waiting) /\ <<>> \in Seq(Wired)
      OBVIOUS
    <3>2. /\ subscribed \in BOOLEAN /\ asked \in BOOLEAN /\ online \in BOOLEAN
          /\ slots \in Seq(Waiting) /\ wire \in Seq(Wired) /\ capture \in Captures
      BY <1>1, <3>1 DEF Init
    <3> QED
      BY <3>2 DEF DeliveryTypes
  <2>3. ClientTypes
    <3>1. <<>> \in Seq(Updates)
      OBVIOUS
    <3>2. <<"local", 0>> \in Streams
      BY DEF Streams
    <3>3. view \in Views
      BY <1>1, <3>2 DEF Init, Views
    <3>4. /\ ready \in BOOLEAN /\ pending \in Seq(Updates)
          /\ sync \in {"idle", "first", "second"} /\ fate \in {"fine", "failed", "torn"}
      BY <3>1 DEF Init
    <3> QED
      BY <3>3, <3>4 DEF ClientTypes
  <2>4. swapped \in BOOLEAN /\ turns \in Nat
    BY DEF Init
  <2> QED
    BY <2>1, <2>2, <2>3, <2>4, TypeParts
<1>3. StoreInv
  BY <1>1 DEF Init, StoreInv
<1>4. DeliveryInv
  BY IdleType DEF Init, DeliveryInv, NothingStrands
<1>5. StreamsInv
  BY DEF Init, StreamsInv, Past, Idle
<1>6. Sound
  BY <1>2, <1>3, <1>4, <1>5 DEF Sound
<1>7. Total = 0 /\ pending = <<>> /\ view.stream = <<"local", 0>> /\ ~subscribed
  BY DEF Init, Total
<1>8. \A k : k \notin 1..Total
  BY <1>7
<1>9. Ordered
  <2>1. NowStream # view.stream
    BY <1>7 DEF NowStream
  <2> QED
    BY <1>7, <1>8, <2>1 DEF Ordered, Before, OldItems
<1>10. Gapless
  BY <1>7, <1>8 DEF Gapless
<1> QED
  BY <1>2, <1>3, <1>4, <1>5, <1>7, <1>9, <1>10 DEF RunStreamInv, FlowInv, UpToDate

\* What the client takes next leaves no text out.
LEMMA NothingMissing ==
    ASSUME RunStreamInv
    PROVE  NoGap
<1> SUFFICES ASSUME wire # <<>>, ready, fate # "failed", ~swapped,
                    Head(wire).kind \in {"item", "delta"}
             PROVE  Result(view, Head(wire)) \notin {"missing_item", "sequence_gap", "offset_gap"}
  BY DEF NoGap
<1>1. Sound /\ Gapless /\ view \in Views /\ wire \in Seq(Wired)
  BY SoundParts DEF RunStreamInv, Sound, FlowInv
<1>2. PICK u : u = Head(wire)
  OBVIOUS
<1>3. u = wire[1] /\ Len(wire) > 0 /\ u \in Wired /\ Len(wire) \in Nat
  BY <1>1, <1>2, HeadTailProperties, EmptySeq
<1>4. u \in Updates
  BY <1>2, <1>3, WiredKinds
<1>5. CASE u.stream # view.stream
  BY <1>2, <1>5 DEF Result
<1>6. CASE u.stream = view.stream
  <2>1. 1 \in 1..Total /\ Msg(1) = u
    BY <1>1, <1>3, SoundParts DEF Msg
  <2>2. u.kind = "delta" => Fed(1 - 1, u.stream, u.item, u.at.seq - 1)
    BY <1>1, <2>1 DEF Gapless, LedUp
  <2>3. \A k : k \notin 1..(1 - 1)
    OBVIOUS
  <2>4. u.kind = "delta" => InView(u.stream, u.item, u.at.seq - 1)
    BY <2>2, <2>3 DEF Fed
  <2> QED
    BY <1>1, <1>2, <1>4, <1>6, <2>4, AppliedReaches DEF InView
<1> QED
  BY <1>5, <1>6

\* What the client shows when all is quiet is what the server has.
LEMMA QuietIsCurrent ==
    ASSUME RunStreamInv
    PROVE  SettledIsCurrent
<1> SUFFICES ASSUME Settled, fate = "fine", ~swapped
             PROVE  IsCurrent
  BY DEF SettledIsCurrent
<1>1. Sound /\ UpToDate /\ ready /\ StoreInv
  BY DEF RunStreamInv, Sound, FlowInv, DeliveryInv, Settled
<1>2. Total = 0
  BY DEF Settled, Total
<1>3. \A k : k \notin 1..Total /\ k \notin (0 + 1)..Total
  BY <1>2
<1>4. Current(0, view.stream, view.items) /\ view.run = status
  BY <1>1, <1>3 DEF UpToDate, InHand, Clear, Settled
<1>5. ASSUME NEW i \in Items
      PROVE  Same(view.items[i], Truth(i))
  <2>1. Shows(view.items[i], i)
    BY <1>3, <1>4 DEF Current, Follows
  <2>2. ~Underway(i)
    BY DEF Settled, Underway
  <2>3. Known(live.items[i]) => live.on
    BY <1>1, NoItemsType DEF StoreInv, NoItems
  <2> QED
    BY <2>1, <2>2, <2>3 DEF Shows, Truth, Same
<1> QED
  BY <1>4, <1>5 DEF IsCurrent

\* The inductive invariant of the server's queue and the client's screen holds.
THEOREM StreamInductive == Spec => []RunStreamInv
BY InitInvariant, StepInvariant, PTL DEF Spec

\* Delivery loses no place: what waits in the FIFO of subscriptions.ts waits for a
\* capture, and the update that the client takes next fits or is old.
THEOREM StreamTheorem == Spec => []StreamInv
<1>1. RunStreamInv => StreamInv
  BY NothingMissing DEF StreamInv
<1> QED
  BY <1>1, StreamInductive, PTL

\* Once all is quiet a client that took everything in order and saw no error shows
\* the run and every item as RunStore has them.
THEOREM CurrentTheorem == Spec => []SettledIsCurrent
BY QuietIsCurrent, StreamInductive, PTL

\* RunStreamProjection never takes an item away nor moves its cursor back in a stream.
THEOREM NoRegressionTheorem == Spec => NoRegression
<1>1. ASSUME RunStreamInv, [Next]_vars
      PROVE  [view'.stream = view.stream =>
                \A i \in Items : Known(view.items[i]) =>
                    Known(view'.items[i]) /\ view'.items[i].seq >= view.items[i].seq]_vars
  BY <1>1, StepNoRegression DEF RunStreamInv, Further
<1> QED
  BY <1>1, StreamInductive, PTL DEF Spec, NoRegression
=============================================================================
