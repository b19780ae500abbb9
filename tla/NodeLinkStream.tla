--------------------------- MODULE NodeLinkStream ---------------------------
(***************************************************************************)
(* The output of one process.run command: the journal and the credit       *)
(* window of the node daemon (agent.ts, replay.ts), the ordered socket,    *)
(* and the gateway's delivery queue, acknowledgements and settlement of    *)
(* the invocation (fleet/node-link.ts).  The command's own life is module  *)
(* NodeLinkCommands; here it runs, is cut off, and ends.                   *)
(***************************************************************************)
EXTENDS Naturals, Sequences, FiniteSets, SequencesExt

CONSTANTS Pipe,        \* pipes of a process, each read again when its chunk is sent
          Tty,         \* the one pipe of a terminal
          Calls,       \* invocations: of a terminal or not, with an onReset hook that takes a snapshot or
                       \* not, with a result over 128 KB or not, and the sizes of their frames
          Envelope,    \* bytes the event adds to its frame
          ResetBytes,  \* bytes of a reset with its snapshot
          Limit,       \* NODE_LINK_LIMITS.streamBytes
          MaxFrames,   \* bound: frames the process produces
          MaxStalls,   \* bound: publications the full socket refuses
          Faults       \* what may go wrong in an instance

FaultKinds == {"abort", "refuse", "timeout", "giveUp", "prune", "close"}

ASSUME StreamAssumption ==
  /\ Tty \in Pipe
  /\ Limit \in Nat /\ Envelope \in Nat /\ ResetBytes \in Nat
  /\ Calls \subseteq [terminal : BOOLEAN, hook : BOOLEAN, large : BOOLEAN,
                     sizes : SUBSET (1..Limit) \ {{}}]
  /\ MaxFrames \in Nat \ {0} /\ MaxStalls \in Nat
  /\ Faults \subseteq FaultKinds

VARIABLES
  call,     \* the invocation
  (* node *)
  stream,   \* the entry of streams: "none", "live", or "fresh", made by a late acknowledgement
  sizes,    \* bytes of every frame appended
  first,    \* the oldest frame the journal still holds
  sent,     \* offset of source.sent
  acked,    \* source.acknowledged
  credit,   \* source.credit: bytes not yet acknowledged, by offset
  waiting,  \* the frame each writer waits for, 0 when its pipe is read
  flush,    \* the timer of schedule() is set
  stalls,   \* how often publish has returned false
  cut,      \* the process was told to stop
  ended,    \* the receipt is settled and answered
  (* socket *)
  online,   \* it is open
  down,     \* events and answers to the gateway, in order
  up,       \* requests the node has not handled: their handlers run side by side
  (* gateway *)
  queue,    \* candidate.delivery: events waiting for assertCurrent, in order
  cursor,   \* candidate.cursor
  kept,     \* candidate.output: how many frames of a process without a terminal it holds
  acks,     \* candidate.acknowledgments: cursors to acknowledge, one at a time
  flying,   \* the first of them is with the node
  failed,   \* candidate.deliveryError
  phase,    \* where invokeUnqueued is
  left,     \* what the promise it awaits still waits for
  result    \* what the caller got

nodeVars == <<stream, sizes, first, sent, acked, credit, waiting, flush, stalls, cut, ended>>
gatewayVars == <<queue, cursor, kept, acks, flying, failed, phase, left, result>>
vars == <<call, nodeVars, online, down, up, gatewayVars>>

Terminal == call.terminal
Snapshots == call.hook
Sizes == call.sizes
Writers == IF Terminal THEN {Tty} ELSE Pipe

Frame(n, bytes) == [kind |-> "frame", offset |-> n, bytes |-> bytes]
Reset(n) == [kind |-> "reset", offset |-> n, bytes |-> ResetBytes]
Answer(kind) == [kind |-> kind, offset |-> 0, bytes |-> 0]
Ack(n) == [kind |-> "ack", offset |-> n]
Request(kind) == [kind |-> kind, offset |-> 0]

Event == {m \in [kind : {"frame", "reset"}, offset : 1..MaxFrames, bytes : 0..(Limit + Envelope + ResetBytes)] : TRUE}
Answers == {Answer(k) : k \in {"receipt", "acked", "refused", "released"}}
Requests == {Ack(n) : n \in 1..MaxFrames} \cup {Request("cancel"), Request("release")}

TypeOK ==
  /\ call \in Calls
  /\ stream \in {"none", "live", "fresh"}
  /\ sizes \in Seq(Sizes) /\ Len(sizes) <= MaxFrames
  /\ first \in 1..(Len(sizes) + 1)
  /\ sent \in 0..Len(sizes) /\ acked \in 0..sent
  /\ DOMAIN credit \subseteq 1..sent
  /\ waiting \in [Pipe -> 0..Len(sizes)]
  /\ flush \in BOOLEAN /\ stalls \in 0..MaxStalls /\ cut \in BOOLEAN /\ ended \in BOOLEAN
  /\ online \in BOOLEAN
  /\ \A i \in DOMAIN down : down[i] \in Event \cup Answers
  /\ up \subseteq Requests
  /\ \A i \in DOMAIN queue : queue[i] \in Event
  /\ cursor \in 0..Len(sizes) /\ kept \in 0..cursor
  /\ \A i \in DOMAIN acks : acks[i] \in 1..cursor
  /\ flying \in BOOLEAN /\ failed \in BOOLEAN
  /\ phase \in {"running", "delivery", "acks", "releasing", "done"}
  /\ left \in Nat
  /\ result \in {"none", "ok", "failed"}

Bytes(messages) == FoldSeq(LAMBDA m, n : m.bytes + n, 0, messages)
Outstanding(cr) == SumFunction(cr)
Retained(sz, from) == SumFunctionOnSet(sz, from..Len(sz))

Init ==
  /\ call \in Calls
  /\ stream = "live" /\ sizes = <<>> /\ first = 1
  /\ sent = 0 /\ acked = 0 /\ credit = <<>>
  /\ waiting = [w \in Pipe |-> 0]
  /\ flush = FALSE /\ stalls = 0 /\ cut = FALSE /\ ended = FALSE
  /\ online = TRUE /\ down = <<>> /\ up = {}
  /\ queue = <<>> /\ cursor = 0 /\ kept = 0 /\ acks = <<>> /\ flying = FALSE /\ failed = FALSE
  /\ phase = "running" /\ left = 0 /\ result = "none"

-----------------------------------------------------------------------------
(* The node *)

\* The frame up to which credit lets the journal be sent.
Reach(cr, sz, n) ==
  LET account(m) == Outstanding(cr) + SumFunctionOnSet([i \in 1..m |-> sz[i] + Envelope], (sent + 1)..m)
  IN  account(n) <= Limit /\ (n < Len(sz) => account(n + 1) > Limit)

(* drain: send what follows sent, or a reset when the journal no longer has it, until credit is used
   up or publish returns false.  cr, sz and from are the credit and the journal at that moment, timer
   whether the flush timer is set, and reply what is answered afterwards. *)
Drain(cr, sz, from, timer, reply) ==
  LET expired == sent < from - 1
  IN  \E reach \in sent..Len(sz) : \E to \in sent..reach :
        /\ IF expired THEN reach = Len(sz) /\ to \in {sent, reach} ELSE Reach(cr, sz, reach)
        /\ \/ to = reach /\ UNCHANGED stalls
           \/ to < reach /\ stalls < MaxStalls /\ stalls' = stalls + 1
        /\ flush' = (timer \/ to < reach)
        /\ sent' = to
        /\ LET new == (sent + 1)..to
               frames == [i \in 1..(to - sent) |-> Frame(sent + i, sz[sent + i] + Envelope)]
           IN  IF expired /\ to = reach
               THEN /\ credit' = [n \in {to} |-> ResetBytes]
                    /\ down' = Append(down, Reset(to)) \o reply
               ELSE /\ credit' = [n \in DOMAIN cr \cup new |-> IF n \in new THEN sz[n] + Envelope ELSE cr[n]]
                    /\ down' = down \o frames \o reply

\* delivered: writers whose frame is sent go on.
Delivered == waiting' = [w \in Pipe |-> IF waiting[w] <= sent' THEN 0 ELSE waiting[w]]

\* NodeLinkReplay.append: as few of the oldest frames as the limit asks for give way to the new one.
Journal(s) ==
  LET sz == Append(sizes, s)
  IN  /\ sizes' = sz
      /\ first' \in first..Len(sz) /\ Retained(sz, first') <= Limit
      /\ \A n \in first..(first' - 1) : Retained(sz, n) > Limit

\* openNodeLinkTerminal: the first frame, which the agent does not wait for.
Start ==
  /\ Terminal /\ sizes = <<>> /\ stream = "live" /\ ~cut /\ ~ended
  /\ \E s \in Sizes : Journal(s)
  /\ Drain(credit, sizes', first', flush, <<>>)
  /\ UNCHANGED <<call, online, stream, acked, waiting, cut, ended, up, gatewayVars>>

\* Mutant: a pipe is read again before its frame is sent.
OutputUnpaced(w) ==
  /\ Terminal => sizes # <<>>
  /\ stream = "live" /\ ~cut /\ ~ended
  /\ Len(sizes) < MaxFrames
  /\ \E s \in Sizes : Journal(s)
  /\ Drain(credit, sizes', first', flush, <<>>)
  /\ UNCHANGED <<call, online, stream, acked, waiting, cut, ended, up, gatewayVars>>

\* output: one unit of a chunk.  The writer goes on when it is sent.
Output(w) ==
  /\ Terminal => sizes # <<>>
  /\ stream = "live" /\ ~cut /\ ~ended /\ waiting[w] = 0
  /\ Len(sizes) < MaxFrames
  /\ \E s \in Sizes : Journal(s)
  /\ Drain(credit, sizes', first', flush, <<>>)
  /\ waiting' = [v \in Pipe |->
       LET n == IF v = w THEN Len(sizes') ELSE waiting[v] IN IF n <= sent' THEN 0 ELSE n]
  /\ UNCHANGED <<call, online, stream, acked, cut, ended, up, gatewayVars>>

\* The 20 ms timer of schedule().
Flush ==
  /\ flush
  /\ IF stream = "live"
     THEN Drain(credit, sizes, first, FALSE, <<>>) /\ Delivered
     ELSE flush' = FALSE /\ UNCHANGED <<sent, credit, stalls, down, waiting>>
  /\ UNCHANGED <<call, online, stream, sizes, first, acked, cut, ended, up, gatewayVars>>

\* The process is told to stop: its writers' waits are rejected and nothing more is output.
CutOff == cut' = TRUE /\ waiting' = [w \in Pipe |-> 0]

Timeout ==
  /\ "timeout" \in Faults
  /\ ~cut /\ ~ended
  /\ CutOff
  /\ UNCHANGED <<call, online, stream, sizes, first, sent, acked, credit, flush, stalls, ended, down, up, gatewayVars>>

\* The process has exited and no output is pending: drain, then answer with the receipt.
End ==
  /\ ~ended /\ \A w \in Pipe : waiting[w] = 0
  /\ Terminal /\ ~cut => sizes # <<>>
  /\ ended' = TRUE
  /\ stream = "live"
  /\ Drain(credit, sizes, first, flush, <<Answer("receipt")>>)
  /\ UNCHANGED <<call, online, stream, sizes, first, acked, waiting, cut, up, gatewayVars>>

\* pruneStreams: a settled stream goes, at capacity at once.
Prune ==
  /\ "prune" \in Faults
  /\ stream = "live" /\ ended
  /\ stream' = "none"
  /\ UNCHANGED <<call, online, sizes, first, sent, acked, credit, waiting, flush, stalls, cut, ended, down, up, gatewayVars>>

HandleCancel ==
  /\ Request("cancel") \in up
  /\ up' = up \ {Request("cancel")}
  /\ IF ended THEN UNCHANGED <<cut, waiting>> ELSE CutOff
  /\ UNCHANGED <<call, online, stream, sizes, first, sent, acked, credit, flush, stalls, ended, down, gatewayVars>>

\* Mutant: an acknowledgement clears the whole account.
HandleAckClearing ==
  /\ \E n \in acked..sent :
       /\ Ack(n) \in up /\ up' = up \ {Ack(n)}
       /\ stream = "live"
       /\ acked' = n
       /\ Drain(<<>>, sizes, first, flush, <<Answer("acked")>>)
  /\ Delivered
  /\ UNCHANGED <<call, online, stream, sizes, first, cut, ended, gatewayVars>>

\* Mutant: an acknowledgement gives credit back and sends nothing.
HandleAckIdle ==
  /\ \E n \in acked..sent :
       /\ Ack(n) \in up /\ up' = up \ {Ack(n)}
       /\ stream = "live"
       /\ acked' = n
       /\ credit' = [i \in DOMAIN credit \ 1..n |-> credit[i]]
       /\ down' = Append(down, Answer("acked"))
  /\ UNCHANGED <<call, online, stream, sizes, first, sent, waiting, flush, stalls, cut, ended, gatewayVars>>

\* node.link.ack: a contiguous part of what was sent gives its credit back.
HandleAck ==
  /\ \E n \in acked..sent :
       /\ Ack(n) \in up /\ up' = up \ {Ack(n)}
       /\ stream = "live"
       /\ acked' = n
       /\ Drain([i \in DOMAIN credit \ 1..n |-> credit[i]], sizes, first, flush, <<Answer("acked")>>)
  /\ Delivered
  /\ UNCHANGED <<call, online, stream, sizes, first, cut, ended, gatewayVars>>

\* An acknowledgement of another source: the stream was pruned or released, and source() makes it anew.
RefuseAck ==
  /\ \E n \in 1..MaxFrames :
       /\ Ack(n) \in up /\ up' = up \ {Ack(n)}
       /\ stream = "live" => n \notin acked..sent
  /\ stream' = IF stream = "none" THEN "fresh" ELSE stream
  /\ down' = Append(down, Answer("refused"))
  /\ UNCHANGED <<call, online, sizes, first, sent, acked, credit, waiting, flush, stalls, cut, ended, gatewayVars>>

HandleRelease ==
  /\ Request("release") \in up /\ up' = up \ {Request("release")}
  /\ stream' = "none"
  /\ down' = Append(down, Answer("released"))
  /\ UNCHANGED <<call, online, sizes, first, sent, acked, credit, waiting, flush, stalls, cut, ended, gatewayVars>>

-----------------------------------------------------------------------------
(* The gateway *)

\* controller.abort, heard only while the command is unanswered: a cancellation, once.
Cancelled == IF phase = "running" THEN up \cup {Request("cancel")} ELSE up

Fail == failed' = TRUE /\ up' = Cancelled

Abort ==
  /\ "abort" \in Faults
  /\ phase = "running" /\ ~cut /\ Request("cancel") \notin up
  /\ up' = Cancelled
  /\ UNCHANGED <<call, nodeVars, online, down, gatewayVars>>

IsEvent(m) == m.kind \in {"frame", "reset"}

\* Mutant: events are acknowledged when they arrive.
AcceptAcknowledging ==
  /\ down # <<>> /\ IsEvent(Head(down))
  /\ down' = Tail(down)
  /\ IF phase = "done" \/ failed
     THEN UNCHANGED <<queue, acks>>
     ELSE queue' = Append(queue, Head(down)) /\ acks' = Append(acks, Head(down).offset)
  /\ UNCHANGED <<call, nodeVars, online, up, cursor, kept, flying, failed, phase, left, result>>

\* acceptNodeLinkStream: only a pending invocation without an error takes events, up to a bound.
Accept ==
  /\ down # <<>> /\ IsEvent(Head(down))
  /\ down' = Tail(down)
  /\ IF phase = "done" \/ failed
     THEN UNCHANGED <<queue, failed, up>>
     ELSE IF Bytes(queue) + Head(down).bytes > Limit
     THEN Fail /\ UNCHANGED queue
     ELSE queue' = Append(queue, Head(down)) /\ UNCHANGED <<failed, up>>
  /\ UNCHANGED <<call, nodeVars, online, cursor, kept, acks, flying, phase, left, result>>

\* A terminal's output is not kept, and a snapshot is none of the output.
Keep(m) == kept' = IF m.kind = "frame" /\ ~Terminal THEN kept + 1 ELSE kept

\* Mutant: a reset from the journal is applied like a frame, skipping what came before it without a snapshot.
ApplyAnyReset(m) ==
  \/ m.kind = "frame" /\ m.offset <= cursor /\ UNCHANGED <<cursor, kept, acks, failed, up>>
  \/ /\ m.kind = "reset" \/ m.offset = cursor + 1
     /\ cursor' = m.offset /\ acks' = Append(acks, m.offset) /\ Keep(m)
     /\ UNCHANGED <<failed, up>>
  \/ /\ m.kind = "frame" /\ m.offset > cursor + 1
     /\ Fail /\ UNCHANGED <<cursor, kept, acks>>

\* applyNodeLinkStream, of an event the consumer takes: move the cursor and queue its acknowledgement.
Apply(m) ==
  \/ m.kind = "frame" /\ m.offset <= cursor /\ UNCHANGED <<cursor, kept, acks, failed, up>>
  \/ /\ \/ m.kind = "frame" /\ m.offset = cursor + 1
        \/ m.kind = "reset" /\ Snapshots
     /\ cursor' = m.offset /\ acks' = Append(acks, m.offset) /\ Keep(m)
     /\ UNCHANGED <<failed, up>>
  \/ /\ \/ m.kind = "frame" /\ m.offset > cursor + 1
        \/ m.kind = "reset" /\ ~Snapshots
     /\ Fail /\ UNCHANGED <<cursor, kept, acks>>

\* The next event of candidate.delivery, once assertCurrent has answered: every caller's own refuses it
\* when the node's connection is not the one it began with (STALE_AUTHORITY, STALE_SOCKET).
Deliver ==
  /\ queue # <<>>
  /\ queue' = Tail(queue)
  /\ left' = IF phase = "delivery" /\ left > 0 THEN left - 1 ELSE left
  /\ IF failed THEN UNCHANGED <<cursor, kept, acks, failed, up>>
     ELSE IF online THEN Apply(Head(queue))
     ELSE Fail /\ UNCHANGED <<cursor, kept, acks>>
  /\ UNCHANGED <<call, nodeVars, online, down, flying, phase, result>>

\* The lease is gone, the consumer throws, or the output is too large.
Refuse ==
  /\ "refuse" \in Faults
  /\ queue # <<>> /\ ~failed
  /\ queue' = Tail(queue)
  /\ left' = IF phase = "delivery" /\ left > 0 THEN left - 1 ELSE left
  /\ Fail
  /\ UNCHANGED <<call, nodeVars, online, down, cursor, kept, acks, flying, phase, result>>

SendAck ==
  /\ acks # <<>> /\ ~flying
  /\ flying' = TRUE
  /\ up' = up \cup {Ack(Head(acks))}
  /\ UNCHANGED <<call, nodeVars, online, down, queue, cursor, kept, acks, failed, phase, left, result>>

\* Mutant: a refused acknowledgement breaks the chain without resolving it.
TakeAckedUnresolved ==
  /\ down # <<>> /\ Head(down).kind \in {"acked", "refused"}
  /\ down' = Tail(down)
  /\ flying' = FALSE
  /\ IF Head(down).kind = "acked"
     THEN /\ acks' = Tail(acks)
          /\ left' = IF phase = "acks" /\ left > 0 THEN left - 1 ELSE left
          /\ UNCHANGED <<failed, up>>
     ELSE acks' = <<>> /\ UNCHANGED left /\ Fail
  /\ UNCHANGED <<call, nodeVars, online, queue, cursor, kept, phase, result>>

\* The answer to an acknowledgement; after a refusal the chain sends no other.
TakeAcked ==
  /\ down # <<>> /\ Head(down).kind \in {"acked", "refused"}
  /\ down' = Tail(down)
  /\ flying' = FALSE
  /\ IF Head(down).kind = "acked"
     THEN /\ acks' = Tail(acks)
          /\ left' = IF phase = "acks" /\ left > 0 THEN left - 1 ELSE left
          /\ UNCHANGED <<failed, up>>
     ELSE /\ acks' = <<>>
          /\ left' = IF phase = "acks" THEN 0 ELSE left
          /\ Fail
  /\ UNCHANGED <<call, nodeVars, online, queue, cursor, kept, phase, result>>

\* Mutant: the receipt is taken without waiting for deliveries that are under way.
TakeReceiptAtOnce ==
  /\ down # <<>> /\ Head(down).kind = "receipt"
  /\ down' = Tail(down)
  /\ IF phase = "running" THEN phase' = "delivery" /\ left' = 0 ELSE UNCHANGED <<phase, left>>
  /\ UNCHANGED <<call, nodeVars, online, up, queue, cursor, kept, acks, flying, failed, result>>

\* The receipt: what was delivered before it is awaited first, then what that had acknowledged.
TakeReceipt ==
  /\ down # <<>> /\ Head(down).kind = "receipt"
  /\ down' = Tail(down)
  /\ IF phase = "running" THEN phase' = "delivery" /\ left' = Len(queue) ELSE UNCHANGED <<phase, left>>
  /\ UNCHANGED <<call, nodeVars, online, up, queue, cursor, kept, acks, flying, failed, result>>

\* Mutant: the release does not wait for the acknowledgements.
AwaitNoAcks ==
  /\ phase = "delivery" /\ left = 0
  /\ phase' = "acks" /\ left' = 0
  /\ UNCHANGED <<call, nodeVars, online, down, up, queue, cursor, kept, acks, flying, failed, result>>

AwaitAcks ==
  /\ phase = "delivery" /\ left = 0
  /\ phase' = "acks" /\ left' = Len(acks)
  /\ UNCHANGED <<call, nodeVars, online, down, up, queue, cursor, kept, acks, flying, failed, result>>

\* The invocation is over: its pending entry goes, and events still queued find none.
Over(results) == phase' = "done" /\ result' \in results /\ queue' = <<>> /\ left' = 0

\* A result over 128 KB is digests in place of the output, which the kept output must match.
Digested == call.large /\ ~Terminal

(* What the caller gets when err says whether the delivery failed: the error, or the receipt, unless
   the kept output is not the whole (RESULT_EXPIRED).  Of a process that was told to stop, a result
   that timed out holds a notice that was no output, and one that was cancelled is not compared. *)
Outcomes(err) ==
  IF err \/ (Digested /\ ~cut /\ kept # Len(sizes)) THEN {"failed"}
  ELSE IF Digested /\ cut THEN {"ok", "failed"} ELSE {"ok"}

Release ==
  /\ phase = "acks" /\ left = 0
  /\ IF online
     THEN /\ phase' = "releasing" /\ up' = up \cup {Request("release")}
          /\ UNCHANGED <<queue, left, result>>
     ELSE Over(Outcomes(failed)) /\ UNCHANGED up
  /\ UNCHANGED <<call, nodeVars, online, down, cursor, kept, acks, flying, failed>>

TakeReleased ==
  /\ down # <<>> /\ Head(down).kind = "released"
  /\ down' = Tail(down)
  /\ IF phase = "releasing"
     THEN Over(Outcomes(failed))
     ELSE UNCHANGED <<phase, result, queue, left>>
  /\ UNCHANGED <<call, nodeVars, online, up, cursor, kept, acks, flying, failed>>

\* The call times out: the outcome is unconfirmed and the command goes on without a reader.
GiveUp ==
  /\ "giveUp" \in Faults
  /\ phase = "running"
  /\ Over({"failed"})
  /\ UNCHANGED <<call, nodeVars, online, down, up, cursor, kept, acks, flying, failed>>

\* The socket closes: retire rejects the waits and drops the streams, requests of the gateway fail.
\* An invocation that has its receipt goes on; the release it cannot send is left for later.  The check
\* of the first event waiting for a process's caller may have asked for the node already, and go on with
\* the slot's row: that event then finds no candidate and is passed over.
Close ==
  /\ "close" \in Faults
  /\ online /\ online' = FALSE
  /\ cut' = (cut \/ ~ended) /\ ended' = TRUE /\ waiting' = [w \in Pipe |-> 0]
  /\ stream' = "none" /\ flush' = FALSE
  /\ down' = <<>> /\ up' = {}
  /\ acks' = <<>> /\ flying' = FALSE
  /\ failed' = (failed \/ acks # <<>>)
  /\ CASE phase = "running" -> Over({"failed"})
       [] phase = "releasing" -> Over(Outcomes(failed'))
       [] OTHER ->
            /\ UNCHANGED <<phase, result>>
            /\ LET wait == IF phase = "acks" THEN 0 ELSE left
               IN  \/ left' = wait /\ UNCHANGED queue
                  \/ /\ ~Terminal /\ queue # <<>> /\ queue' = Tail(queue)
                     /\ left' = IF wait = 0 THEN 0 ELSE wait - 1
  /\ UNCHANGED <<call, sizes, first, sent, acked, credit, stalls, cursor, kept>>

-----------------------------------------------------------------------------
Node == Flush \/ HandleCancel \/ HandleAck \/ RefuseAck \/ HandleRelease
Gateway == Accept \/ Deliver \/ SendAck \/ TakeAcked \/ TakeReceipt \/ AwaitAcks \/ Release \/ TakeReleased

\* Everything has happened; only then may nothing be possible.
Finished == phase = "done" /\ ended /\ down = <<>> /\ up = {} /\ acks = <<>> /\ ~flush /\ UNCHANGED vars

Next ==
  \/ Start \/ (\E w \in Writers : Output(w)) \/ End
  \/ Node \/ Gateway
  \/ Abort \/ Refuse \/ Timeout \/ GiveUp \/ Prune \/ Close
  \/ Finished

Spec == Init /\ [][Next]_vars

\* The event loops run what is ready, and a process that was told to stop is killed.
Fairness == WF_vars(Node) /\ WF_vars(Gateway) /\ WF_vars(cut /\ End)
FairSpec == Spec /\ Fairness

-----------------------------------------------------------------------------
(* Properties *)

\* Credit comes back only for output the consumer has taken, and the consumer only has what was sent.
AckedIsApplied == TypeOK /\ acked <= cursor /\ cursor <= sent

\* Unless a reset replaces the account, the credit the node keeps covers every event on its way to the
\* consumer or in its queue.  The queue has the same bound, so the gateway never refuses an event for
\* being full (STREAM_BACKPRESSURE).
CreditCovers ==
  (\A s \in Sizes : s * Cardinality(Pipe) <= Limit) =>
    Bytes(SelectSeq(down, IsEvent)) + Bytes(queue) <= Outstanding(credit)

\* The journal gives up only frames that were sent: where it has room for what every pipe may have
\* unsent, the back pressure on the pipes keeps it there, and no reader is ever handed a reset.
NothingExpires ==
  (\A s \in Sizes : s * Cardinality(Pipe) <= Limit) =>
    first <= sent + 1 /\ \A i \in DOMAIN down : down[i].kind # "reset"

\* Pieces of output among the first n frames: the frame that announces a terminal is none.
Pieces(n) == IF Terminal /\ n > 0 THEN n - 1 ELSE n

\* A call that ends well has given its caller all of the output, unless the process was cut off: it was
\* shown, or, if the socket has gone, the receipt of a process without a terminal holds it, as a result
\* of at most 128 KB.
NothingTruncated ==
  result = "ok" /\ ~cut =>
    Pieces(cursor) = Pieces(Len(sizes)) \/ (~online /\ ~Terminal /\ ~call.large)

\* No acknowledgement of a call that ended well is left to reach the node after the release, where it
\* would make the stream anew and nobody would release that.  (The announcement of a terminal that
\* closed without output may do just that: nothing waits for it.)
ReleasedForGood ==
  result = "ok" /\ ~cut /\ (Terminal => Len(sizes) > 1) => stream = "none" /\ acks = <<>>

\* Back pressure is never final: while the call has a reader, a pipe that waits is read again, or the
\* process is told to stop.
OutputFlows == \A w \in Pipe : waiting[w] # 0 ~> waiting[w] = 0 \/ phase = "done"

\* After the command has ended its call returns, whatever happens to deliveries and acknowledgements.
CallReturns == ended ~> phase = "done"

\* The link implements the promise to the caller, who cannot tell a process that was cut off from a
\* socket that was.
Promise ==
  INSTANCE OutputStream WITH snapshots <- Snapshots, produced <- Pieces(Len(sizes)),
                             shown <- Pieces(cursor), cut <- cut \/ ~online
KeepsOrder == Promise!Spec

=============================================================================
