------------------------------ MODULE RunStream -------------------------------
(***************************************************************************)
(* How the items of one run reach the screen of one client.                 *)
(*                                                                         *)
(* Server: RunStore keeps rows in the database and a live stream in memory, *)
(* with a sequence number for each item; every change is published.  The    *)
(* connection (ws/subscriptions.ts) puts each push into a slot of a FIFO; a *)
(* snapshot reserves its slot at once and is captured later, one capture at *)
(* a time: the stream is copied, then the rows are read.                    *)
(*                                                                         *)
(* Client: RunStreamProjection merges snapshots and pushes by their cursors *)
(* and asks for a new snapshot when they do not fit.  On the desktop events *)
(* are decoded one after the other, but the answer to a request is decoded  *)
(* beside them and may come before or after its neighbours on the wire.     *)
(*                                                                         *)
(* An item is a status and the length of its text: a delta carries the text *)
(* at its offset, so equal lengths mean equal texts.  Each delta is 1 long. *)
(*                                                                         *)
(* Bounds: MaxWrites rows written; MaxText deltas per message; MaxTurns      *)
(* continuations of the run, other changes of its state, losses of the      *)
(* connection, crashes and failing captures.  MaxSlots is the code's limit. *)
(***************************************************************************)
EXTENDS Naturals, FiniteSetsExt, SequencesExt

CONSTANTS
    Messages,        \* items written by the agent, with text that grows
    Inputs,          \* items of steering messages, stored by another transaction
    MaxSlots, MaxWrites, MaxText, MaxTurns

ASSUME RunStreamConstants ==
    /\ Messages \cap Inputs = {}
    /\ MaxSlots \in Nat \ {0}
    /\ {MaxWrites, MaxText, MaxTurns} \subseteq Nat

Items == Messages \cup Inputs

VARIABLES
    \* RunStore
    status,          \* active, waiting (complete() with a status that is not final), ended
    closed,          \* closedItemRuns
    stamp,           \* updatedAt of the run
    rows,            \* the last record of each item in the database
    live,            \* itemStreams: is there one, its identifier, its items
    op,              \* the item mutation whose row is written and that is not in the stream
    due,             \* inputs whose row is written and whose projection is not
    \* the connection, on the server
    subscribed, slots, capture, asked,
    \* on the way to the client
    online, wire,
    \* RunStreamProjection and the hook around it
    view, ready, pending, sync, fate,
    swapped,         \* history: something was not taken in the order of the wire
    turns            \* how often any of this has been disturbed; a bound of the model

store      == <<status, closed, stamp, rows, live, op, due>>
delivery   == <<subscribed, slots, capture>>
projection == <<view, ready, pending, sync, fate>>
vars       == <<store, delivery, asked, online, wire, projection, swapped, turns>>

\* An item with its cursor; the text offset of a cursor is the item's length.
At(n, s, l) == [seq |-> n, st |-> s, len |-> l]
Nothing     == At(0, "none", 0)
Known(c)    == c.st # "none"
NoItems     == [i \in Items |-> Nothing]
Ended(c)    == c.st = "completed"

NoOp  == [item |-> "none", st |-> "none", len |-> 0]
Idle  == [phase |-> "idle", stream |-> <<"none", 0>>, items |-> NoItems, run |-> "none"]

-----------------------------------------------------------------------------
(* The live stream                                                          *)

\* getOrCreateActiveItemStream
Opened(l) == IF l.on THEN l ELSE [on |-> TRUE, id |-> l.id + 1, items |-> NoItems]

\* captureItemStream.  A finished run that has no stream gets a name of its own.
Needed(l, s) == IF s = "ended" THEN l ELSE Opened(l)

Clone(l, t) == [phase  |-> "cloned",
                stream |-> IF l.on THEN <<"live", l.id>> ELSE <<"snapshot", t>>,
                items  |-> IF l.on THEN l.items ELSE NoItems,
                run    |-> "none"]

\* listItemSnapshot: what the stream does not have comes from the rows.
Merged(c, r) == [i \in Items |-> IF Known(c[i]) THEN c[i] ELSE r[i]]

-----------------------------------------------------------------------------
(* The delivery FIFO of the connection                                      *)

IsReply(m) == m.kind \in {"answer", "failure"}
Failure    == [kind |-> "failure"]

\* A slip: the request that has no answer is forgotten.
CutOffSilently(n) ==
    /\ online' = FALSE /\ subscribed' = FALSE /\ asked' = FALSE
    /\ slots' = <<>> /\ capture' = Idle
    /\ wire' = SubSeq(wire, 1, n)

\* clearRunDeliveries, the socket is gone.  Part of what is on the wire may
\* still arrive; a request without an answer fails at the client.
CutOff(n) ==
    LET arrived == SubSeq(wire, 1, n) IN
    /\ online' = FALSE /\ subscribed' = FALSE /\ asked' = FALSE
    /\ slots' = <<>> /\ capture' = Idle
    /\ wire' = IF sync # "idle" /\ ~\E k \in DOMAIN arrived : IsReply(arrived[k])
               THEN Append(arrived, Failure) ELSE arrived

\* A push that is ready: reserveRunDelivery and the delivery at once.
Push(m) ==
    IF ~subscribed
    THEN UNCHANGED <<delivery, asked, online, wire>>
    ELSE IF Len(slots) >= MaxSlots
    THEN CutOff(Len(wire))
    ELSE /\ IF slots = <<>> THEN wire' = Append(wire, m) /\ UNCHANGED slots
            ELSE slots' = Append(slots, m) /\ UNCHANGED wire
         /\ UNCHANGED <<subscribed, capture, asked, online>>

Reserved(k) == [kind |-> "reserved", answer |-> k]

\* reserveRunCapture and start, with the stream and the status as they are now.
Reserve(k, l, s, t) ==
    /\ slots' = Append(slots, Reserved(k))
    /\ IF capture = Idle
       THEN live' = Needed(l, s) /\ capture' = Clone(live', t)
       ELSE live' = l /\ UNCHANGED capture

\* A slip: no snapshot while one is being captured.
PublishRunIfQuiet(l, s, t) ==
    IF ~subscribed \/ capture # Idle
    THEN live' = l /\ UNCHANGED <<delivery, asked, online, wire>>
    ELSE Reserve(FALSE, l, s, t) /\ UNCHANGED <<subscribed, asked, online, wire>>

\* The run bus: every subscriber asks for a snapshot.
PublishRun(l, s, t) ==
    IF ~subscribed
    THEN live' = l /\ UNCHANGED <<delivery, asked, online, wire>>
    ELSE IF Len(slots) >= MaxSlots
    THEN live' = l /\ CutOff(Len(wire))
    ELSE Reserve(FALSE, l, s, t) /\ UNCHANGED <<subscribed, asked, online, wire>>

\* The rows are read, and then the run.
ReadRows ==
    /\ capture.phase = "cloned"
    /\ capture' = [capture EXCEPT !.phase = "read", !.items = Merged(@, rows), !.run = status]
    /\ UNCHANGED <<store, subscribed, slots, asked, online, wire, projection, swapped, turns>>

\* A slip: only the slot that was just filled is sent.
DrainedAlone(q) == [out |-> <<>>, left |-> q]

\* drainRunDelivery: slots leave in order, up to the first that is still reserved.
Drained(q) ==
    LET blocked == {k \in DOMAIN q : q[k].kind = "reserved"}
        n == IF blocked = {} THEN Len(q) ELSE Min(blocked) - 1
    IN [out |-> SubSeq(q, 1, n), left |-> SubSeq(q, n + 1, Len(q))]

\* settleRunCapture and drainRunDelivery; the next capture starts.
Fill(m) ==
    LET rest == Drained(Tail(slots)) IN
    /\ wire' = wire \o <<m>> \o rest.out
    /\ slots' = rest.left
    /\ IF slots' = <<>>
       THEN capture' = Idle /\ UNCHANGED live
       ELSE live' = Needed(live, status) /\ capture' = Clone(live', stamp)

Captured(k) == [kind |-> IF k THEN "answer" ELSE "snapshot",
                stream |-> capture.stream, items |-> capture.items, run |-> capture.run]

Settle ==
    /\ capture.phase = "read"
    /\ Fill(Captured(Head(slots).answer))
    /\ UNCHANGED <<status, closed, stamp, rows, op, due,
                   subscribed, asked, online, projection, swapped, turns>>

\* The capture throws: a request is answered with the error, any other
\* snapshot ends the connection.
CaptureFails ==
    /\ capture # Idle /\ turns < MaxTurns
    /\ turns' = turns + 1
    /\ IF Head(slots).answer
       THEN Fill(Failure) /\ UNCHANGED <<subscribed, asked, online>>
       ELSE CutOff(Len(wire)) /\ UNCHANGED live
    /\ UNCHANGED <<status, closed, stamp, rows, op, due, projection, swapped>>

\* run:subscribe.  The slot is reserved before the subscription starts.
HandleSubscribe ==
    /\ online /\ asked /\ Len(slots) < MaxSlots
    /\ asked' = FALSE /\ subscribed' = TRUE
    /\ Reserve(TRUE, live, status, stamp)
    /\ UNCHANGED <<status, closed, stamp, rows, op, due, online, wire, projection, swapped, turns>>

\* No slot is left for it.
RefuseSubscribe ==
    /\ online /\ asked /\ Len(slots) >= MaxSlots
    /\ CutOff(Len(wire))
    /\ UNCHANGED <<store, projection, swapped, turns>>

-----------------------------------------------------------------------------
(* RunStore: the items                                                      *)

\* How many rows have been written; a bound of the model.
Rank    == [none |-> 0, running |-> 1, completed |-> 2, queued |-> 1, leased |-> 2, acked |-> 3]
Written == FoldFunction(LAMBDA c, n : Rank[c.st] + n, 0, rows)

\* applyItemUpdate, first half: the row of an item that is not yet there, or
\* of one that has ended.  Mutations of the items of a run wait for each other.
WriteMessage(i) ==
    /\ status = "active" /\ ~closed /\ op = NoOp /\ Written < MaxWrites
    /\ \/ ~Known(rows[i]) /\ op' = [item |-> i, st |-> "running", len |-> 0]
       \/ /\ live.on /\ live.items[i].st = "running"
          /\ op' = [item |-> i, st |-> "completed", len |-> live.items[i].len]
    /\ rows' = [rows EXCEPT ![i] = At(0, op'.st, op'.len)]
    /\ UNCHANGED <<status, closed, stamp, live, due, delivery, asked, online, wire, projection, swapped, turns>>

\* Second half: the stream, and the push.
Advance(c, s, l) == At(IF Known(c) THEN c.seq + 1 ELSE 0, s, l)

Project(i, s, l) ==
    LET stream == Opened(live)
        now    == Advance(stream.items[i], s, l)
    IN /\ live' = [stream EXCEPT !.items[i] = now]
       /\ Push([kind |-> "item", stream |-> <<"live", stream.id>>, item |-> i, at |-> now])

ApplyMessage ==
    /\ op # NoOp
    /\ Project(op.item, op.st, op.len)
    /\ op' = NoOp
    /\ UNCHANGED <<status, closed, stamp, rows, due, projection, swapped, turns>>

\* appendItemBody
Delta(i) ==
    /\ status = "active" /\ ~closed /\ op = NoOp
    /\ live.on /\ live.items[i].st = "running" /\ live.items[i].len < MaxText
    /\ LET c == live.items[i] IN
        /\ live' = [live EXCEPT !.items[i] = At(c.seq + 1, c.st, c.len + 1)]
        /\ Push([kind |-> "delta", stream |-> <<"live", live.id>>, item |-> i,
                 at |-> At(c.seq + 1, c.st, c.len)])
    /\ UNCHANGED <<status, closed, stamp, rows, op, due, projection, swapped, turns>>

\* The row of a steering message changes with the ledger of inputs, in one
\* transaction; the projection comes after it.
InputMoves == [none |-> "queued", queued |-> "leased", leased |-> "acked"]

StoreInput(i) ==
    /\ status = "active" /\ ~due[i] /\ Written < MaxWrites
    /\ rows[i].st \in DOMAIN InputMoves
    /\ rows' = [rows EXCEPT ![i].st = InputMoves[@]]
    /\ due' = [due EXCEPT ![i] = TRUE]
    /\ UNCHANGED <<status, closed, stamp, live, op, delivery, asked, online, wire, projection, swapped, turns>>

\* projectPersistedItems; a closed run refuses it.
ProjectInput(i) ==
    /\ due[i] /\ op = NoOp
    /\ due' = [due EXCEPT ![i] = FALSE]
    /\ IF closed THEN UNCHANGED <<live, delivery, asked, online, wire>>
       ELSE Project(i, rows[i].st, 0)
    /\ UNCHANGED <<status, closed, stamp, rows, op, projection, swapped, turns>>

-----------------------------------------------------------------------------
(* RunStore: the run                                                        *)

\* complete: it waits for the item mutation, drops the stream and publishes.
Complete(s) ==
    /\ status = "active" /\ op = NoOp
    /\ status' = s /\ closed' = TRUE /\ stamp' = stamp + 1
    /\ PublishRun([live EXCEPT !.on = FALSE, !.items = NoItems], s, stamp')
    /\ UNCHANGED <<rows, op, due, projection, swapped, turns>>

\* updateStatus('running'): an approval, an answer or a resume goes on.
Reopen ==
    /\ status = "waiting" /\ turns < MaxTurns
    /\ status' = "active" /\ closed' = FALSE /\ stamp' = stamp + 1
    /\ turns' = turns + 1
    /\ PublishRun(live, "active", stamp')
    /\ UNCHANGED <<rows, op, due, projection, swapped>>

\* mutateState
Touch ==
    /\ turns < MaxTurns
    /\ stamp' = stamp + 1 /\ turns' = turns + 1
    /\ PublishRun(live, status, stamp')
    /\ UNCHANGED <<status, closed, rows, op, due, projection, swapped>>

\* The server dies and recovers the run from its rows.
Crash ==
    /\ turns < MaxTurns
    /\ turns' = turns + 1
    /\ status' = IF status = "active" THEN "waiting" ELSE status
    /\ closed' = FALSE /\ stamp' = stamp + 1
    /\ live' = [live EXCEPT !.on = FALSE, !.items = NoItems]
    /\ op' = NoOp /\ due' = [i \in Inputs |-> FALSE]
    /\ \E n \in 0..Len(wire) : CutOff(n)
    /\ UNCHANGED <<rows, projection, swapped>>

-----------------------------------------------------------------------------
(* The connection                                                           *)

Drop ==
    /\ online /\ turns < MaxTurns
    /\ turns' = turns + 1
    /\ \E n \in 0..Len(wire) : CutOff(n)
    /\ UNCHANGED <<store, projection, swapped>>

\* The next request of any kind opens a new one.  The answers of the old one
\* have been seen by then.
Reconnect ==
    /\ ~online /\ ~\E k \in DOMAIN wire : IsReply(wire[k])
    /\ online' = TRUE
    /\ wire' = Append(wire, [kind |-> "connected"])
    /\ UNCHANGED <<store, delivery, asked, projection, swapped, turns>>

-----------------------------------------------------------------------------
(* RunStreamProjection                                                      *)

\* applyUpsert, for an update of the stream the projection follows.
UpsertResult(c, a) ==
    CASE Known(c) /\ a.seq < c.seq -> "duplicate"
      [] Known(c) /\ a = c -> "duplicate"
      [] Known(c) /\ a.seq = c.seq /\ a # c -> "cursor_conflict"
      [] (Known(c) => a.seq > c.seq) /\ Ended(c) /\ a.st = "running" -> "state_regression"
      [] OTHER -> "applied"

\* applyDelta; d.len is the offset at which its text begins.
DeltaResult(c, d) ==
    CASE ~Known(c) -> "missing_item"
      [] Known(c) /\ d.seq < c.seq -> "duplicate"
      [] Known(c) /\ d.seq = c.seq -> IF c.len = d.len + 1 THEN "duplicate" ELSE "cursor_conflict"
      [] Known(c) /\ d.seq > c.seq /\ c.st # "running" -> "terminal_item"
      [] Known(c) /\ d.seq > c.seq + 1 /\ c.st = "running" -> "sequence_gap"
      [] Known(c) /\ d.seq = c.seq + 1 /\ c.st = "running" -> IF d.len = c.len THEN "applied" ELSE "offset_gap"

Result(v, u) ==
    IF u.stream # v.stream THEN "stream_mismatch"
    ELSE IF u.kind = "item" THEN UpsertResult(v.items[u.item], u.at)
    ELSE DeltaResult(v.items[u.item], u.at)

Fits(v, u) == Result(v, u) \in {"applied", "duplicate"}

Applied(v, u) ==
    IF Result(v, u) # "applied" THEN v
    ELSE [v EXCEPT !.items[u.item] = IF u.kind = "item" THEN u.at
                                     ELSE At(u.at.seq, @.st, @.len + 1)]

Replay(a, u) == [view |-> Applied(a.view, u), ok |-> a.ok /\ Fits(a.view, u)]

\* A slip: what the snapshot says is taken as it is.
KeepsNothing(v, s, i) == FALSE

\* What acceptSnapshot keeps of the old projection: items whose cursor is not
\* behind that of the snapshot, if it is the same stream.
Keeps(v, s, i) ==
    /\ v.stream = s.stream /\ Known(v.items[i])
    /\ Known(s.items[i]) => s.items[i].seq <= v.items[i].seq

Clashes(v, s, i) ==
    /\ Keeps(v, s, i) /\ Known(s.items[i])
    /\ s.items[i].seq = v.items[i].seq /\ s.items[i] # v.items[i]

Rebased(v, s) == [stream |-> s.stream, run |-> s.run,
                  items  |-> [i \in Items |-> IF Keeps(v, s, i) THEN v.items[i] ELSE s.items[i]]]

\* What becomes of a by each of the first n buffered updates in their order.
Replayed(a, q) ==
    LET after[n \in 0..Len(q)] == IF n = 0 THEN a ELSE Replay(after[n - 1], q[n])
    IN  after

\* acceptSnapshot
Accept(s) ==
    Replayed([view |-> Rebased(view, s), ok |-> ~\E i \in Items : Clashes(view, s, i)],
             pending)[Len(pending)]

\* abortSnapshot
Abort == Replayed([view |-> view, ok |-> TRUE], pending)[Len(pending)]

-----------------------------------------------------------------------------
(* The hook useRunState                                                     *)

\* beginLiveSnapshot and subscribeRun
Ask(s) == /\ ready' = FALSE /\ pending' = <<>>
          /\ sync' = s /\ asked' = TRUE

\* synchronize does nothing while a synchronization is under way.
Synchronize(r, p) ==
    IF sync = "idle" THEN Ask("first")
    ELSE ready' = r /\ pending' = p /\ UNCHANGED <<sync, asked>>

\* acceptItem, acceptDelta
TakeUpdate(u) ==
    /\ u.kind \in {"item", "delta"}
    /\ view' = IF ready THEN Applied(view, u) ELSE view
    /\ IF ready /\ ~Fits(view, u) THEN Synchronize(ready, pending)
       ELSE /\ pending' = IF ready THEN pending ELSE Append(pending, u)
            /\ UNCHANGED <<ready, sync, asked>>
    /\ UNCHANGED fate

\* A pushed snapshot ends the buffering, whoever asked for it.
TakeSnapshot(s) ==
    /\ s.kind = "snapshot"
    /\ view' = Accept(s).view
    /\ IF Accept(s).ok THEN ready' = TRUE /\ pending' = <<>> /\ UNCHANGED <<sync, asked>>
       ELSE Synchronize(TRUE, <<>>)
    /\ UNCHANGED fate

TakeConnected(m) ==
    /\ m.kind = "connected"
    /\ Synchronize(ready, pending)
    /\ UNCHANGED <<view, fate>>

\* The answer to the subscription: fine, or asked for once more, or given up.
TakeAnswer(s) ==
    /\ s.kind = "answer"
    /\ view' = Accept(s).view
    /\ IF ~Accept(s).ok /\ sync = "first"
       THEN Ask("second") /\ UNCHANGED fate
       ELSE /\ fate' = IF Accept(s).ok THEN "fine" ELSE "torn"
            /\ ready' = TRUE /\ pending' = <<>> /\ sync' = "idle"
            /\ UNCHANGED asked

TakeFailure(m) ==
    /\ m.kind = "failure"
    /\ view' = Abort.view
    /\ ready' = TRUE /\ pending' = <<>> /\ sync' = "idle" /\ fate' = "failed"
    /\ UNCHANGED asked

\* Pushes are taken in order; a reply has a way of its own on the desktop.
Takeable(p) ==
    IsReply(wire[p]) \/ \A q \in 1..(p - 1) : IsReply(wire[q])

Take ==
    \E p \in DOMAIN wire :
        /\ Takeable(p)
        /\ wire' = RemoveAt(wire, p)
        /\ \/ TakeUpdate(wire[p]) \/ TakeSnapshot(wire[p]) \/ TakeConnected(wire[p])
           \/ TakeAnswer(wire[p]) \/ TakeFailure(wire[p])
        /\ swapped' = (swapped \/ p > 1)
        /\ UNCHANGED <<store, delivery, online, turns>>

-----------------------------------------------------------------------------
Init ==
    /\ status = "active" /\ closed = FALSE /\ stamp = 0
    /\ rows = NoItems /\ live = [on |-> FALSE, id |-> 0, items |-> NoItems]
    /\ op = NoOp /\ due = [i \in Inputs |-> FALSE]
    /\ subscribed = FALSE /\ slots = <<>> /\ capture = Idle
    /\ online = TRUE /\ wire = <<>>
    /\ view = [stream |-> <<"local", 0>>, items |-> NoItems, run |-> "none"]
    /\ ready = FALSE /\ pending = <<>> /\ sync = "first" /\ asked = TRUE /\ fate = "fine"
    /\ swapped = FALSE /\ turns = 0

StoreStep ==
    \/ \E i \in Messages : WriteMessage(i) \/ Delta(i)
    \/ ApplyMessage
    \/ \E i \in Inputs : StoreInput(i) \/ ProjectInput(i)
    \/ \E s \in {"waiting", "ended"} : Complete(s)
    \/ Reopen \/ Touch

Serve == ReadRows \/ Settle \/ HandleSubscribe \/ RefuseSubscribe

Next == StoreStep \/ Serve \/ CaptureFails \/ Crash \/ Drop \/ Reconnect \/ Take

\* The event loops work off what is due: the server answers, the client takes
\* what arrived, a request opens a connection.  Nothing obliges the run to go on.
Due == Serve \/ Take \/ (asked /\ Reconnect)

Spec == Init /\ [][Next]_vars /\ WF_vars(Due)

-----------------------------------------------------------------------------
(* Properties                                                              *)

\* What may be said of an item.  The text of a message grows only while it runs, by
\* one with each position in the stream; a steering message has no text.
Runs     == {"active", "waiting", "ended"}
States   == {"none", "running", "completed", "queued", "leased", "acked"}
Cursor   == [seq : Nat, st : States, len : Nat]
Valid(i, c) ==
    \/ c = Nothing
    \/ i \in Messages /\ c.st = "running" /\ c.len = c.seq
    \/ i \in Messages /\ c.st = "completed"
    \/ i \in Inputs /\ c.st \in {"queued", "leased", "acked"} /\ c.len = 0
Contents == {f \in [Items -> Cursor] : \A i \in Items : Valid(i, f[i])}
Streams  == {"none", "local", "live", "snapshot"} \X Nat

Updates ==
    {u \in [kind : {"item", "delta"}, stream : Streams, item : Items, at : Cursor] :
        /\ u.kind = "item" => Valid(u.item, u.at) /\ Known(u.at)
        /\ u.kind = "delta" => u.item \in Messages /\ u.at.seq = u.at.len + 1}
Snapshots == [kind : {"snapshot", "answer"}, stream : Streams, items : Contents, run : Runs]
Words     == [kind : {"connected", "failure"}]
Slots     == [kind : {"reserved"}, answer : BOOLEAN]

TypeOK ==
    /\ status \in Runs /\ closed \in BOOLEAN /\ stamp \in Nat
    /\ rows \in Contents /\ due \in [Inputs -> BOOLEAN]
    /\ live \in [on : BOOLEAN, id : Nat, items : Contents]
    /\ op = NoOp \/ op \in [item : Messages, st : {"running", "completed"}, len : Nat]
    /\ subscribed \in BOOLEAN /\ asked \in BOOLEAN /\ online \in BOOLEAN
    /\ slots \in Seq(Updates \cup Slots)
    /\ capture \in [phase : {"idle", "cloned", "read"}, stream : Streams, items : Contents,
                    run : Runs \cup {"none"}]
    /\ wire \in Seq(Updates \cup Snapshots \cup Words)
    /\ view \in [stream : Streams, items : Contents, run : Runs \cup {"none"}]
    /\ ready \in BOOLEAN /\ pending \in Seq(Updates)
    /\ sync \in {"idle", "first", "second"} /\ fate \in {"fine", "failed", "torn"}
    /\ swapped \in BOOLEAN /\ turns \in Nat

\* What waits for delivery waits for a capture: the first slot is reserved, and
\* its capture is under way (drainRunDelivery leaves nothing behind that is ready).
NothingStrands ==
    /\ (slots = <<>>) = (capture = Idle)
    /\ slots # <<>> => Head(slots).kind = "reserved" /\ subscribed

\* The update that the client takes next may be old, of another stream or in
\* conflict with what a snapshot took from the rows, but no text is missing
\* before it: the order in which snapshots and pushes leave the server makes the
\* repair of gaps a mere precaution, unless a synchronization failed or a reply
\* was decoded out of turn.
NoGap ==
    (wire # <<>> /\ ready /\ fate # "failed" /\ ~swapped /\ Head(wire).kind \in {"item", "delta"}) =>
        Result(view, Head(wire)) \notin {"missing_item", "sequence_gap", "offset_gap"}

\* Everything sent has arrived and no mutation is half way.
Settled ==
    /\ online /\ subscribed /\ slots = <<>> /\ wire = <<>> /\ sync = "idle"
    /\ op = NoOp /\ \A i \in Inputs : ~due[i]

\* What the server would answer now.
Truth(i)  == IF live.on /\ Known(live.items[i]) THEN live.items[i] ELSE rows[i]
Same(a, b) == a.st = b.st /\ a.len = b.len
IsCurrent == view.run = status /\ \A i \in Items : Same(view.items[i], Truth(i))

\* A client that took everything in the order of the wire and was not told of an
\* error shows, once all is quiet, the run and every item as the server has
\* them, whatever was captured, pushed, replayed, dropped as old or asked for
\* again on the way.
SettledIsCurrent == Settled /\ fate = "fine" /\ ~swapped => IsCurrent

\* The same in every order.  It is false: an answer decoded late brings back the
\* stream it was captured from.
LateIsCurrent == Settled /\ fate = "fine" => IsCurrent

\* What does not fit is repaired by a new authoritative snapshot (the comment of
\* useRunState.ts at synchronize): the same even if the second snapshot did not
\* fit either.  It is false: an item that a snapshot took from its row has the
\* cursor 0, its first change in the new stream has it too, and the client keeps
\* the older of the two.
RepairedIsCurrent == Settled /\ fate # "failed" /\ ~swapped => IsCurrent

\* Within a stream a client never goes back: no update, snapshot or replay takes
\* an item away or moves its cursor to an earlier position, however late it is.
NoRegression ==
    [][view'.stream = view.stream =>
        \A i \in Items : Known(view.items[i]) =>
            Known(view'.items[i]) /\ view'.items[i].seq >= view.items[i].seq]_vars

\* A synchronization ends: the connection may drop, the capture may fail and the
\* server may crash, but the client is not left waiting with its updates queued.
SyncSettles == (sync # "idle") ~> (sync = "idle")

-----------------------------------------------------------------------------
(* The inductive invariant                                                  *)

\* Of the store: a stream only of a run that may go on, mutations only of an active
\* run, and the row of an item before its place in the stream.
StoreInv ==
    /\ status = "active" => ~closed
    /\ op # NoOp => status = "active" /\ Known(rows[op.item])
    /\ (op # NoOp /\ op.st = "running") => op.len = 0 /\ ~Known(live.items[op.item])
    /\ \A i \in Inputs : due[i] => Known(rows[i]) /\ (closed \/ status = "active")
    /\ live.on => status # "ended"
    /\ ~live.on => live.items = NoItems
    /\ \A i \in Items : rows[i].seq = 0 /\ (Known(live.items[i]) => Known(rows[i]))

\* Of the connection and the hook.
DeliveryInv ==
    /\ NothingStrands
    /\ subscribed => online
    /\ capture.phase = "idle" => capture = Idle
    /\ capture.phase = "read" => capture.run \in Runs
    /\ ready \/ sync # "idle"

\* No stream of the future is known yet.
Past(S) == /\ S[1] = "live" => S[2] <= live.id
           /\ S[1] = "snapshot" => S[2] <= stamp

StreamsInv ==
    /\ Past(view.stream) /\ Past(capture.stream)
    /\ \A k \in 1..Len(pending) : Past(pending[k].stream)
    /\ \A k \in 1..Len(wire) : "stream" \in DOMAIN wire[k] => Past(wire[k].stream)
    /\ \A k \in 1..Len(slots) : "stream" \in DOMAIN slots[k] => Past(slots[k].stream)

\* What is on the way to the client, in its order: the wire, then the slots.
IsUpdate(m)   == m.kind \in {"item", "delta"}
IsSnapshot(m) == m.kind \in {"snapshot", "answer"}
IsBarrier(m)  == m.kind \in {"snapshot", "answer", "failure", "reserved"}
Total  == Len(wire) + Len(slots)
Msg(k) == IF k <= Len(wire) THEN wire[k] ELSE slots[k - Len(wire)]

\* The contents of the k-th message, if it is a snapshot or will be the one that is
\* being captured.
Told(k)     == \/ k <= Len(wire) /\ IsSnapshot(wire[k])
               \/ k = Len(wire) + 1 /\ capture.phase # "idle"
StreamOf(k) == IF k <= Len(wire) THEN wire[k].stream ELSE capture.stream
ItemsOf(k)  == IF k <= Len(wire) THEN wire[k].items
               ELSE IF capture.phase = "cloned" THEN Merged(capture.items, rows) ELSE capture.items

\* What a capture of this moment would say.
NowStream == IF live.on THEN <<"live", live.id>> ELSE <<"snapshot", stamp>>
NowItems  == Merged(live.items, rows)

\* c is not newer than d, and the same if it is as new and not from a row.
NotAfter(c, d) ==
    Known(c) => Known(d) /\ c.seq <= d.seq /\ (c.seq = d.seq /\ c.seq > 0 => c = d)

\* What an update makes of its item.
Claim(u) == IF u.kind = "item" THEN u.at ELSE At(u.at.seq, "running", u.at.len + 1)

OldUpdate(u, S, f)   == u.stream = S => NotAfter(Claim(u), f[u.item])
OldItems(T, g, S, f) == T = S => \A i \in Items : NotAfter(g[i], f[i])

\* Neither the client nor the first n messages are ahead of contents f of stream S.
Before(n, S, f) ==
    /\ OldItems(view.stream, view.items, S, f)
    /\ \A k \in 1..Len(pending) : OldUpdate(pending[k], S, f)
    /\ \A k \in 1..n : /\ IsUpdate(Msg(k)) => OldUpdate(Msg(k), S, f)
                       /\ Told(k) => OldItems(StreamOf(k), ItemsOf(k), S, f)

\* Contents are in the order in which they were true.
Ordered ==
    /\ \A k \in 1..Total : Told(k) => Before(k - 1, StreamOf(k), ItemsOf(k))
    /\ Before(Total, NowStream, NowItems)

\* Item i of stream S has come to position q before what follows the n-th message:
\* the last snapshot or an update since then brings it there, or the client has it.
Clear(a, b) == \A j \in a..b : ~IsBarrier(Msg(j))
Brings(k, S, i, q) ==
    \/ IsUpdate(Msg(k)) /\ Msg(k).stream = S /\ Msg(k).item = i /\ Msg(k).at.seq >= q
    \/ /\ IsBarrier(Msg(k))
       /\ (Told(k) /\ StreamOf(k) = S) => Known(ItemsOf(k)[i]) /\ ItemsOf(k)[i].seq >= q
InView(S, i, q) ==
    view.stream = S =>
        Known(view.items[i]) /\ (view.items[i].seq >= q \/ Ended(view.items[i]))
Fed(n, S, i, q) ==
    \/ \E k \in 1..n : Brings(k, S, i, q) /\ Clear(k + 1, n)
    \/ Clear(1, n) /\ ((ready /\ fate # "failed") => InView(S, i, q))

\* So has every item before a delta to it, and before the next one there may be.
LedUp(p) ==
    Msg(p).kind = "delta" => Fed(p - 1, Msg(p).stream, Msg(p).item, Msg(p).at.seq - 1)
LedOn == \A i \in Items :
    Known(live.items[i]) => Fed(Total, NowStream, i, live.items[i].seq)
Gapless == (\A p \in 1..Total : LedUp(p)) /\ (subscribed /\ live.on => LedOn)

\* The last snapshot, with the updates after it, says what the server says, but for a
\* mutation that is half way; and so does the client when no snapshot is left to come.
Underway(i) == (op # NoOp /\ op.item = i) \/ (i \in Inputs /\ due[i] /\ ~closed)
Shows(c, i) == IF Known(live.items[i]) THEN c = live.items[i]
               ELSE Same(c, rows[i]) \/ Underway(i)
Follows(b, i) ==
    /\ Known(live.items[i])
    /\ \E k \in (b + 1)..Total :
          /\ IsUpdate(Msg(k)) /\ Msg(k).stream = NowStream /\ Msg(k).item = i
          /\ Claim(Msg(k)) = live.items[i]
Current(b, S, f) ==
    /\ S = NowStream
    /\ live.on \/ status = "ended"
    /\ \A i \in Items : Shows(f[i], i) \/ Follows(b, i)

InForce(b) == (Told(b) /\ Clear(b + 1, Total)) =>
    /\ Current(b, StreamOf(b), ItemsOf(b))
    /\ b <= Len(wire) => wire[b].run = status
    /\ (b > Len(wire) /\ capture.phase = "read") => capture.run = status
InHand  == (Clear(1, Total) /\ ready /\ sync = "idle" /\ fate = "fine") =>
    Current(0, view.stream, view.items) /\ view.run = status
InWork  == (capture.phase = "cloned" /\ capture.stream = NowStream) =>
    \A i \in Items : Known(live.items[i]) =>
        capture.items[i] = live.items[i] \/ Follows(Len(wire) + 1, i)

UpToDate == subscribed => (\A b \in 1..Total : InForce(b)) /\ InHand /\ InWork

FlowInv == ~swapped => Ordered /\ Gapless /\ UpToDate

RunStreamInv == TypeOK /\ StoreInv /\ DeliveryInv /\ StreamsInv /\ FlowInv

\* The invariant of delivery (subscriptions.ts, RunStreamProjection): whatever is lost,
\* crashes or fails, no slot is left stranded, updates keep their order, the last
\* snapshot with what follows it is the server's state, and no text is missing before
\* the update that the client takes next.
StreamInv == RunStreamInv /\ NoGap

=============================================================================
