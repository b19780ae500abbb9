------------------------ MODULE NodeLinkStreamProofs ------------------------
(***************************************************************************)
(* What holds of NodeLinkStream for any number of pipes, frames and        *)
(* stalls, for all calls and limits: the gateway shows the caller the      *)
(* output in order, the node gives credit back only for what was shown,    *)
(* and a call that ends well has given all of it and left nothing behind.  *)
(***************************************************************************)
EXTENDS NodeLinkStream, TLAPS, SequenceTheorems

-----------------------------------------------------------------------------
(* The inductive invariant *)

Shape ==
  /\ down \in Seq(Event \cup Answers) /\ queue \in Seq(Event) /\ acks \in Seq(Nat)

\* A terminal that has output nothing but its announcement.
Announced == Terminal /\ Len(sizes) <= 1

\* The events on their way, first those in the gateway's queue, are of increasing offsets, behind
\* what the consumer has and not ahead of what was sent.
OrderInv ==
  /\ \A i \in 1..Len(queue) : cursor < queue[i].offset /\ queue[i].offset <= sent
  /\ \A i, j \in 1..Len(queue) : i < j => queue[i].offset < queue[j].offset
  /\ \A i \in 1..Len(down) : IsEvent(down[i]) => cursor < down[i].offset /\ down[i].offset <= sent
  /\ \A i, j \in 1..Len(down) :
       i < j /\ IsEvent(down[i]) /\ IsEvent(down[j]) => down[i].offset < down[j].offset
  /\ \A i \in 1..Len(queue), j \in 1..Len(down) :
       IsEvent(down[j]) => queue[i].offset < down[j].offset

\* One acknowledgement is under way at a time, of what the consumer has, or its answer is.
AckInv ==
  /\ \A n \in 1..MaxFrames : Ack(n) \in up => flying /\ n <= cursor
  /\ \A n, m \in 1..MaxFrames : Ack(n) \in up /\ Ack(m) \in up => n = m
  /\ \A i \in 1..Len(down) : down[i].kind \in {"acked", "refused"} =>
       flying /\ \A n \in 1..MaxFrames : Ack(n) \notin up
  /\ \A i, j \in 1..Len(down) :
       down[i].kind \in {"acked", "refused"} /\ down[j].kind \in {"acked", "refused"} => i = j
  /\ flying => acks # <<>>

\* The receipt follows the end of the command, and the gateway's steps follow the receipt.
PhaseInv ==
  /\ result # "none" <=> phase = "done"
  /\ phase = "done" => queue = <<>>
  /\ phase = "delivery" => left <= Len(queue)
  /\ phase \in {"delivery", "acks", "releasing"} \/ result = "ok" => ended
  /\ \A i \in 1..Len(down) : down[i].kind = "receipt" => ended
  /\ \A i \in 1..Len(down) : down[i].kind = "released" => phase \in {"releasing", "done"}
  /\ Request("release") \in up => phase \in {"releasing", "done"}

\* A socket that has gone carries nothing.
OfflineInv ==
  ~online => /\ down = <<>> /\ up = {} /\ acks = <<>>
             /\ stream = "none" /\ ended /\ phase # "running"

\* Every frame that is not sent has a writer waiting for it, but for a terminal's announcement,
\* so that a command that ended by itself has sent its output.
PaceInv ==
  /\ ~cut => \A n \in (sent + 1)..Len(sizes) :
       (Terminal /\ n = 1) \/ \E w \in Pipe : waiting[w] = n
  /\ ended /\ ~cut /\ ~Announced => sent = Len(sizes)

\* The event shows its reader the n-th frame.
Covers(m, n) == IF m.kind = "frame" THEN m.offset = n ELSE n <= m.offset

\* Unless the delivery failed, what was sent and is not shown is on its way, ...
CoverInv ==
  online /\ ~failed /\ phase = "running" =>
    \A n \in (cursor + 1)..sent :
      \/ \E i \in 1..Len(queue) : Covers(queue[i], n)
      \/ \E i \in 1..Len(down) : IsEvent(down[i]) /\ Covers(down[i], n)

\* ... ahead of the receipt; the deliveries the gateway then awaits show all of it.
Whole == (online \/ Terminal) /\ ~cut /\ ~Announced

ReceiptInv ==
  ~cut /\ ~Announced => \A i, j \in 1..Len(down) :
    i < j /\ down[i].kind = "receipt" => ~IsEvent(down[j])

AwaitInv ==
  Whole /\ ~failed =>
    /\ phase = "delivery" =>
         \A n \in (cursor + 1)..sent : \E i \in 1..left : Covers(queue[i], n)
    /\ phase \in {"acks", "releasing"} => cursor = Len(sizes)

\* What was kept is a part of what was shown, so that digests are matched only by all of it.
ShownInv == (Whole \/ (Digested /\ ~cut)) /\ result = "ok" => cursor = Len(sizes)

\* Then nothing is left to acknowledge, and the release is the last the node hears.
ReleaseInv ==
  /\ Whole /\ ~failed =>
       /\ phase = "acks" => left = Len(acks)
       /\ phase = "releasing" => acks = <<>>
       /\ phase = "releasing" =>
            \A i \in 1..Len(down) : down[i].kind = "released" => stream = "none"
  /\ ~cut /\ ~Announced /\ result = "ok" => stream = "none" /\ acks = <<>>

Inv ==
  /\ TypeOK /\ Shape /\ acked <= cursor /\ cursor <= sent
  /\ OrderInv /\ AckInv /\ PhaseInv /\ OfflineInv /\ PaceInv
  /\ CoverInv /\ ReceiptInv /\ AwaitInv /\ ShownInv /\ ReleaseInv

-----------------------------------------------------------------------------
(* Messages *)

\* Requests and acknowledgements of the gateway are told apart.
LEMMA RequestsDiffer ==
  /\ \A n, m : Ack(n) = Ack(m) => n = m
  /\ \A n, k : k # "ack" => Ack(n) # Request(k)
  /\ Request("cancel") # Request("release")
  BY DEF Ack, Request

\* An answer is none of the events.
LEMMA Kinds ==
  /\ \A m \in Event : IsEvent(m) /\ m.offset \in 1..MaxFrames /\ m.bytes \in Nat
  /\ \A m \in Answers : ~IsEvent(m) /\ m.kind \in {"receipt", "acked", "refused", "released"}
  /\ \A m \in Event \cup Answers : IsEvent(m) => m \in Event
  BY StreamAssumption DEF Event, Answers, Answer, IsEvent

-----------------------------------------------------------------------------
(* What the node sends *)

\* News of all frames from what was sent before to what is sent now, then the reply.
Sends(news, reply) ==
  /\ down' = (down \o news) \o reply
  /\ \A i \in 1..Len(news) : sent < news[i].offset /\ news[i].offset <= sent'
  /\ \A i, j \in 1..Len(news) : i < j => news[i].offset < news[j].offset
  /\ \A n \in (sent + 1)..sent' : \E i \in 1..Len(news) : Covers(news[i], n)

\* Where the messages are that the node adds.
LEMMA Added ==
  ASSUME NEW news \in Seq(Event), NEW reply \in Seq(Answers),
         down \in Seq(Event \cup Answers), down' = (down \o news) \o reply
  PROVE  /\ down' \in Seq(Event \cup Answers)
         /\ Len(down') = Len(down) + Len(news) + Len(reply)
         /\ \A i \in 1..Len(down) : down'[i] = down[i]
         /\ \A i \in 1..Len(down') : i > Len(down) /\ i <= Len(down) + Len(news) =>
              i - Len(down) \in 1..Len(news) /\ down'[i] = news[i - Len(down)]
         /\ \A i \in 1..Len(down') : i > Len(down) + Len(news) =>
              i - (Len(down) + Len(news)) \in 1..Len(reply)
                /\ down'[i] = reply[i - (Len(down) + Len(news))]
  <1> DEFINE M == Event \cup Answers
  <1>1. news \in Seq(M) /\ reply \in Seq(M)
    BY SeqMonotonic
  <1>2. /\ down \o news \in Seq(M) /\ Len(down \o news) = Len(down) + Len(news)
        /\ \A i \in 1..Len(down \o news) :
             (down \o news)[i] = IF i <= Len(down) THEN down[i] ELSE news[i - Len(down)]
    BY <1>1, ConcatProperties
  <1>3. /\ down' \in Seq(M) /\ Len(down') = Len(down \o news) + Len(reply)
        /\ \A i \in 1..Len(down') :
             down'[i] = IF i <= Len(down \o news) THEN (down \o news)[i]
                                                  ELSE reply[i - Len(down \o news)]
    BY <1>1, <1>2, ConcatProperties
  <1>4. Len(down) \in Nat /\ Len(news) \in Nat /\ Len(reply) \in Nat
    BY LenProperties
  <1> QED
    BY <1>2, <1>3, <1>4

\* Drain sends news of all frames up to where it gets, or of none, and keeps the types of what the
\* node keeps of it.
LEMMA DrainSends ==
  ASSUME NEW sz \in Seq(Sizes), Len(sz) <= MaxFrames, sent \in 0..Len(sz), call \in Calls,
         NEW from \in 1..(Len(sz) + 1), NEW cr, DOMAIN cr \subseteq 1..sent, NEW timer \in BOOLEAN,
         NEW reply \in Seq(Answers), stalls \in 0..MaxStalls, down \in Seq(Event \cup Answers),
         Drain(cr, sz, from, timer, reply)
  PROVE  /\ \E news \in Seq(Event) : Sends(news, reply)
         /\ sent' \in sent..Len(sz) /\ DOMAIN credit' \subseteq 1..sent'
         /\ flush' \in BOOLEAN /\ stalls' \in 0..MaxStalls
  <1> DEFINE expired == sent < from - 1
             frames(to) == [i \in 1..(to - sent) |-> Frame(sent + i, sz[sent + i] + Envelope)]
             new(to) == (sent + 1)..to
             tally(to) == [n \in DOMAIN cr \cup new(to) |-> IF n \in new(to) THEN sz[n] + Envelope ELSE cr[n]]
  <1>1. PICK to \in sent..Len(sz) :
          /\ expired => to = sent \/ to = Len(sz)
          /\ sent' = to /\ (stalls' = stalls \/ (stalls < MaxStalls /\ stalls' = stalls + 1))
          /\ flush' \in BOOLEAN
          /\ \/ /\ expired /\ to = Len(sz)
                /\ credit' = [n \in {to} |-> ResetBytes]
                /\ down' = Append(down, Reset(to)) \o reply
             \/ /\ ~expired \/ to = sent
                /\ credit' = tally(to)
                /\ down' = (down \o frames(to)) \o reply
    <2>1. PICK reach \in sent..Len(sz) : \E end \in sent..reach :
            /\ IF expired THEN reach = Len(sz) /\ end \in {sent, reach} ELSE Reach(cr, sz, reach)
            /\ \/ end = reach /\ UNCHANGED stalls
               \/ end < reach /\ stalls < MaxStalls /\ stalls' = stalls + 1
            /\ flush' = (timer \/ end < reach)
            /\ sent' = end
            /\ IF expired /\ end = reach
               THEN credit' = [n \in {end} |-> ResetBytes] /\ down' = Append(down, Reset(end)) \o reply
               ELSE credit' = tally(end) /\ down' = (down \o frames(end)) \o reply
      BY DEF Drain
    <2>u. PICK end \in sent..reach :
            /\ expired => reach = Len(sz) /\ end \in {sent, reach}
            /\ \/ end = reach /\ UNCHANGED stalls
               \/ end < reach /\ stalls < MaxStalls /\ stalls' = stalls + 1
            /\ flush' = (timer \/ end < reach)
            /\ sent' = end
            /\ IF expired /\ end = reach
               THEN credit' = [n \in {end} |-> ResetBytes] /\ down' = Append(down, Reset(end)) \o reply
               ELSE credit' = tally(end) /\ down' = (down \o frames(end)) \o reply
      BY <2>1
    <2>2. end \in sent..Len(sz) /\ (expired => end = sent \/ end = Len(sz))
      BY <2>u, LenProperties
    <2>3. flush' \in BOOLEAN
      BY <2>u
    <2>4. CASE expired /\ end = reach
      BY <2>u, <2>2, <2>3, <2>4
    <2>5. CASE ~(expired /\ end = reach)
      BY <2>u, <2>2, <2>3, <2>5
    <2> QED
      BY <2>4, <2>5
  <1>2. MaxFrames \in Nat /\ MaxStalls \in Nat /\ Limit \in Nat /\ Envelope \in Nat /\ ResetBytes \in Nat
    BY StreamAssumption
  <1>3. Sizes \subseteq 1..Limit
    BY StreamAssumption DEF Sizes
  <1>4. Len(sz) \in Nat /\ sent \in Nat
    BY LenProperties
  <1>5. CASE expired /\ to = Len(sz) /\ credit' = [n \in {to} |-> ResetBytes]
               /\ down' = Append(down, Reset(to)) \o reply
    <2> DEFINE news == <<Reset(to)>>
    <2>1. Reset(to) \in Event
      BY <1>1, <1>2, <1>4, <1>5 DEF Reset, Event
    <2>2. news \in Seq(Event) /\ Len(news) = 1 /\ news[1] = Reset(to)
      BY <2>1
    <2>3. Append(down, Reset(to)) = down \o news
      BY <2>1, AppendIsConcat
    <2>4. Reset(to).offset = to /\ Reset(to).kind = "reset"
      BY DEF Reset
    <2>5. sent < to
      BY <1>4, <1>5
    <2>6. Sends(news, reply)
      BY <1>1, <1>4, <1>5, <2>2, <2>3, <2>4, <2>5 DEF Sends, Covers
    <2>7. DOMAIN credit' = {to}
      BY <1>5
    <2>8. \E m \in Seq(Event) : Sends(m, reply)
      BY <2>2, <2>6
    <2> HIDE DEF news
    <2> QED
      BY <1>1, <1>2, <1>4, <2>5, <2>7, <2>8
  <1>6. CASE /\ credit' = tally(to) /\ down' = (down \o frames(to)) \o reply
    <2> DEFINE news == frames(to)
    <2>1. \A i \in 1..(to - sent) : /\ sent + i \in 1..Len(sz) /\ sz[sent + i] \in 1..Limit
                                    /\ Frame(sent + i, sz[sent + i] + Envelope) \in Event
      <3> TAKE i \in 1..(to - sent)
      <3>1. sent + i \in 1..Len(sz)
        BY <1>4
      <3>2. sz[sent + i] \in 1..Limit
        BY <1>3, <3>1, ElementOfSeq
      <3> QED
        BY SMTT(20), <1>2, <1>4, <3>1, <3>2 DEF Frame, Event
    <2>2. news \in Seq(Event) /\ Len(news) = to - sent
      <3>1. to - sent \in Nat
        BY <1>4
      <3>2. news \in [1..(to - sent) -> Event]
        BY <2>1
      <3>3. DOMAIN news = 1..(to - sent)
        OBVIOUS
      <3> HIDE DEF news
      <3>4. news \in Seq(Event)
        BY <3>1, <3>2, SeqDef
      <3>5. Len(news) \in Nat /\ 1..Len(news) = 1..(to - sent)
        BY <3>3, <3>4, LenProperties
      <3>6. (Len(news) \in 1..Len(news) <=> Len(news) \in 1..(to - sent))
            /\ (to - sent \in 1..Len(news) <=> to - sent \in 1..(to - sent))
        BY <3>5
      <3> QED
        BY <3>1, <3>4, <3>5, <3>6
    <2>3. \A i \in 1..Len(news) : news[i].offset = sent + i /\ news[i].kind = "frame"
      BY <2>2 DEF Frame
    <2> HIDE DEF news
    <2>4. \A n \in (sent + 1)..to : n - sent \in 1..Len(news) /\ Covers(news[n - sent], n)
      BY SMTT(20), <1>4, <2>2, <2>3 DEF Covers
    <2>5. Sends(news, reply)
      <3>1. down' = (down \o news) \o reply
        BY <1>6 DEF news
      <3>2. \A i \in 1..Len(news) : sent < news[i].offset /\ news[i].offset <= to
        BY <1>4, <2>2, <2>3
      <3>3. \A i, j \in 1..Len(news) : i < j => news[i].offset < news[j].offset
        BY <1>4, <2>2, <2>3
      <3>4. \A n \in (sent + 1)..to : \E i \in 1..Len(news) : Covers(news[i], n)
        BY <2>4
      <3> QED
        BY <1>1, <3>1, <3>2, <3>3, <3>4 DEF Sends
    <2>6. DOMAIN credit' \subseteq 1..to
      BY <1>4, <1>6
    <2> QED
      BY SMTT(20), <1>1, <1>2, <2>2, <2>5, <2>6
  <1> QED
    BY <1>1, <1>5, <1>6

-----------------------------------------------------------------------------
(* Steps of the node *)

\* What a step of the node does to what the gateway relies on: it sends news and a reply.
NodeMoves(news, reply) ==
  /\ Sends(news, reply) /\ sent' \in sent..Len(sizes') /\ Len(reply) <= 1
  /\ up' \subseteq up
  /\ ended => ended' /\ UNCHANGED <<sizes, cut>>
  /\ cut => cut'
  /\ \A i \in 1..Len(reply) :
       /\ reply[i].kind = "receipt" => ended' /\ ~ended
       /\ reply[i].kind = "released" => stream' = "none" /\ Request("release") \in up
       /\ reply[i].kind \in {"acked", "refused"} =>
            \E n \in 1..MaxFrames : Ack(n) \in up /\ up' = up \ {Ack(n)}
  /\ stream' # stream => stream' = "none" \/ \E n \in 1..MaxFrames : Ack(n) \in up
  /\ ~online => UNCHANGED <<down, stream>>
  /\ UNCHANGED <<call, online, gatewayVars>>

\* A step of the node keeps what the gateway relies on.
LEMMA NodeKeeps ==
  ASSUME Inv, NEW news \in Seq(Event), NEW reply \in Seq(Answers), NodeMoves(news, reply),
         TypeOK', PaceInv', acked' <= cursor
  PROVE  Inv'
  <1> DEFINE Old(i) == i \in 1..Len(down) /\ down'[i] = down[i]
             New(i) == /\ i > Len(down) /\ i - Len(down) \in 1..Len(news)
                       /\ down'[i] = news[i - Len(down)]
             Answered(i) == /\ i > Len(down) + Len(news) /\ i = Len(down')
                            /\ Len(reply) = 1 /\ down'[i] = reply[1]
  <1>a. /\ Len(down) \in Nat /\ Len(news) \in Nat /\ Len(reply) \in {0, 1}
        /\ down \in Seq(Event \cup Answers)
    <2>1. Len(reply) \in Nat /\ Len(reply) <= 1
      BY LenProperties DEF NodeMoves
    <2>2. Len(reply) = 0 \/ Len(reply) = 1
      <3>1. \A n \in Nat : n <= 1 => n = 0 \/ n = 1
        OBVIOUS
      <3> QED
        BY ONLY <2>1, <3>1
    <2>3. down \in Seq(Event \cup Answers)
      BY DEF Inv, Shape
    <2>4. Len(down) \in Nat /\ Len(news) \in Nat
      BY <2>3, LenProperties
    <2> QED
      BY <2>2, <2>3, <2>4
  <1>b. down' = (down \o news) \o reply
    BY DEF NodeMoves, Sends
  <1>c. /\ down' \in Seq(Event \cup Answers)
        /\ Len(down') = Len(down) + Len(news) + Len(reply)
        /\ \A i \in 1..Len(down) : down'[i] = down[i]
        /\ \A i \in 1..Len(down') : i > Len(down) /\ i <= Len(down) + Len(news) =>
             i - Len(down) \in 1..Len(news) /\ down'[i] = news[i - Len(down)]
        /\ \A i \in 1..Len(down') : i > Len(down) + Len(news) =>
             i - (Len(down) + Len(news)) \in 1..Len(reply)
               /\ down'[i] = reply[i - (Len(down) + Len(news))]
    BY <1>a, <1>b, Added
  <1>1. /\ Len(down') \in Nat /\ Len(down') >= Len(down) + Len(news)
        /\ \A i \in 1..Len(down') : Old(i) \/ New(i) \/ Answered(i)
        /\ \A i \in 1..Len(down) : i \in 1..Len(down') /\ down'[i] = down[i]
        /\ \A i \in 1..Len(news) : /\ Len(down) + i \in 1..Len(down')
                                   /\ down'[Len(down) + i] = news[i]
    <2>1. ASSUME NEW i \in 1..Len(down'), i > Len(down) + Len(news) PROVE Answered(i)
      <3> DEFINE d == Len(down) + Len(news)
      <3>0. d \in Nat /\ d >= Len(down) /\ (Len(reply) = 0 \/ Len(reply) = 1)
        BY <1>a
      <3>1. i - d \in 1..Len(reply) /\ down'[i] = reply[i - d] /\ Len(down') = d + Len(reply)
        BY <1>c, <2>1
      <3>2. i > d /\ i \in Int
        BY <2>1
      <3> HIDE DEF d
      <3>3. Len(reply) = 1 /\ i - d = 1 /\ i = d + 1
        BY <3>0, <3>1, <3>2
      <3>4. i = Len(down') /\ i > Len(down) /\ Len(reply) = 1 /\ down'[i] = reply[1]
        BY <1>a, <3>0, <3>1, <3>3
      <3> QED
        BY <3>4, <3>2 DEF d
    <2>2. ASSUME NEW i \in 1..Len(news)
          PROVE  Len(down) + i \in 1..Len(down') /\ down'[Len(down) + i] = news[i]
      <3>1. /\ Len(down) + i \in 1..Len(down') /\ Len(down) + i > Len(down)
            /\ Len(down) + i <= Len(down) + Len(news) /\ (Len(down) + i) - Len(down) = i
        BY <1>a, <1>c
      <3> QED
        BY <1>c, <3>1
    <2> QED
      BY <1>a, <1>c, <2>1, <2>2
  <1>2. /\ \A i \in 1..Len(news) : IsEvent(news[i]) /\ news[i].kind \in {"frame", "reset"}
        /\ \A i \in 1..Len(news) : sent < news[i].offset /\ news[i].offset <= sent'
        /\ \A i, j \in 1..Len(news) : i < j => news[i].offset < news[j].offset
        /\ Len(reply) = 1 => ~IsEvent(reply[1]) /\ reply[1].kind \notin {"frame", "reset"}
    <2>1. \A i \in 1..Len(news) : news[i] \in Event
      BY ElementOfSeq
    <2>2. Len(reply) = 1 => reply[1] \in Answers
      BY ElementOfSeq
    <2> QED
      BY <2>1, <2>2, Kinds DEF NodeMoves, Sends, IsEvent
  <1>3. /\ sent \in Nat /\ cursor \in Nat /\ sent' \in Nat /\ cursor <= sent /\ sent <= sent'
        /\ Len(sizes) \in Nat /\ Len(sizes') \in Nat /\ sent' <= Len(sizes') /\ sent <= Len(sizes)
    BY LenProperties DEF Inv, TypeOK, NodeMoves
  <1>4. \A i \in 1..Len(down) : IsEvent(down[i]) => down[i].offset \in Nat
    BY Kinds, StreamAssumption, ElementOfSeq DEF Inv, Shape
  <1>5. \A i \in 1..Len(queue) : queue[i].offset \in Nat
    BY Kinds, StreamAssumption, ElementOfSeq DEF Inv, Shape
  <1>6. \A i \in 1..Len(news) : news[i].offset \in Nat
    BY Kinds, StreamAssumption, ElementOfSeq
  <1>7. ended /\ ~cut' /\ ~Announced' => /\ Len(news) = 0 /\ sent' = sent /\ sent = Len(sizes)
                                         /\ ~cut /\ ~Announced /\ sizes' = sizes
    <2> SUFFICES ASSUME ended, ~cut', ~Announced' 
                 PROVE  /\ Len(news) = 0 /\ sent' = sent /\ sent = Len(sizes)
                        /\ ~cut /\ ~Announced /\ sizes' = sizes
      OBVIOUS
    <2>1. sizes' = sizes /\ ~cut /\ ~Announced
      BY DEF NodeMoves, Announced, Terminal
    <2>2. sent = Len(sizes)
      BY <2>1 DEF Inv, PaceInv
    <2>3. sent' = sent
      BY <1>3, <2>1, <2>2
    <2>4. Len(news) = 0
      BY <1>2, <1>6, <1>a, <1>3, <2>3
    <2> QED
      BY <2>1, <2>2, <2>3, <2>4
  <1>8. UNCHANGED <<call, online, queue, cursor, kept, acks, flying, failed, phase, left, result>>
    BY DEF NodeMoves, gatewayVars
  <1>9. Shape'
    BY <1>c, <1>8 DEF Inv, Shape
  <1>10. OrderInv'
    <2>1. \A i \in 1..Len(queue) : cursor < queue[i].offset /\ queue[i].offset <= sent'
      BY <1>3, <1>5 DEF Inv, OrderInv
    <2>2. ASSUME NEW i \in 1..Len(down'), IsEvent(down'[i])
          PROVE  /\ Old(i) \/ New(i)
                 /\ down'[i].offset \in Nat
                 /\ cursor < down'[i].offset /\ down'[i].offset <= sent'
                 /\ New(i) => down'[i].offset > sent
                 /\ Old(i) => down'[i].offset <= sent
      <3>1. CASE Old(i)
        BY <1>3, <1>4, <1>a, <2>2, <3>1 DEF Inv, OrderInv
      <3>2. CASE New(i)
        BY SMTT(20), <1>2, <1>3, <1>6, <1>a, <3>2
      <3>3. ~Answered(i)
        BY <1>2, <2>2
      <3> QED
        BY <1>1, <3>1, <3>2, <3>3
    <2>3. ASSUME NEW i \in 1..Len(down'), NEW j \in 1..Len(down'), i < j,
                 IsEvent(down'[i]), IsEvent(down'[j])
          PROVE  down'[i].offset < down'[j].offset
      <3>1. CASE Old(i) /\ Old(j)
        <4>1. \A a, b \in 1..Len(down) :
                a < b /\ IsEvent(down[a]) /\ IsEvent(down[b]) => down[a].offset < down[b].offset
          BY DEF Inv, OrderInv
        <4>2. IsEvent(down[i]) /\ IsEvent(down[j])
          BY <2>3, <3>1
        <4> QED
          BY <2>3, <3>1, <4>1, <4>2
      <3>2. CASE Old(i) /\ New(j)
        <4>1. down'[i].offset <= sent /\ down'[i].offset \in Nat
          BY <2>2, <2>3, <3>2
        <4>2. down'[j].offset > sent /\ down'[j].offset \in Nat
          BY <2>2, <2>3, <3>2
        <4> QED
          BY SMTT(20), <1>3, <4>1, <4>2
      <3>3. CASE New(i) /\ New(j)
        BY SMTT(20), <1>2, <1>a, <2>3, <3>3
      <3>4. ~(New(i) /\ Old(j))
        BY <1>a, <2>3
      <3> QED
        BY <2>2, <2>3, <3>1, <3>2, <3>3, <3>4
    <2>4. ASSUME NEW i \in 1..Len(queue), NEW j \in 1..Len(down'), IsEvent(down'[j])
          PROVE  queue[i].offset < down'[j].offset
      <3>1. CASE Old(j)
        <4>1. \A a \in 1..Len(queue), b \in 1..Len(down) :
                IsEvent(down[b]) => queue[a].offset < down[b].offset
          BY DEF Inv, OrderInv
        <4>2. IsEvent(down[j])
          BY <2>4, <3>1
        <4> QED
          BY <3>1, <4>1, <4>2
      <3>2. CASE New(j)
        <4>1. queue[i].offset <= sent
          BY DEF Inv, OrderInv
        <4>2. down'[j].offset > sent /\ down'[j].offset \in Nat
          BY <2>2, <2>4, <3>2
        <4> QED
          BY SMTT(20), <1>3, <1>5, <4>1, <4>2
      <3> QED
        BY <2>2, <2>4, <3>1, <3>2
    <2> QED
      BY <1>8, <2>1, <2>2, <2>3, <2>4 DEF Inv, OrderInv
  <1>11. AckInv'
    <2>1. \A i \in 1..Len(down') : down'[i].kind \in {"acked", "refused"} =>
            \/ i \in 1..Len(down) /\ down'[i] = down[i]
            \/ i = Len(down') /\ Len(reply) = 1 /\ reply[1].kind \in {"acked", "refused"}
      BY <1>1, <1>2, <1>a
    <2>2. CASE Len(reply) = 1 /\ reply[1].kind \in {"acked", "refused"}
      <3>1. PICK n \in 1..MaxFrames : Ack(n) \in up /\ up' = up \ {Ack(n)}
        BY <2>2 DEF NodeMoves
      <3>2. \A m \in 1..MaxFrames : Ack(m) \notin up'
        BY <3>1 DEF Inv, AckInv
      <3>3. \A i \in 1..Len(down) : down[i].kind \notin {"acked", "refused"}
        BY <3>1 DEF Inv, AckInv
      <3> QED
        BY <1>8, <2>1, <3>1, <3>2, <3>3 DEF Inv, AckInv
    <2>3. CASE ~(Len(reply) = 1 /\ reply[1].kind \in {"acked", "refused"})
      BY <1>8, <2>1, <2>3 DEF Inv, AckInv, NodeMoves
    <2> QED
      BY <2>2, <2>3
  <1>12. PhaseInv'
    <2>1. \A i \in 1..Len(down') : down'[i].kind \in {"receipt", "released"} =>
            \/ i \in 1..Len(down) /\ down'[i] = down[i]
            \/ Len(reply) = 1 /\ down'[i] = reply[1]
      BY <1>1, <1>2
    <2>3. Len(reply) = 1 => 1 \in 1..Len(reply)
      OBVIOUS
    <2>4. \A i \in 1..Len(down') : down'[i].kind = "receipt" => ended'
      BY <2>1, <2>3 DEF Inv, PhaseInv, NodeMoves
    <2>5. \A i \in 1..Len(down') : down'[i].kind = "released" => phase \in {"releasing", "done"}
      BY <2>1, <2>3 DEF Inv, PhaseInv, NodeMoves
    <2>6. Request("release") \in up' => phase \in {"releasing", "done"}
      BY DEF Inv, PhaseInv, NodeMoves
    <2>7. ended => ended'
      BY DEF NodeMoves
    <2> QED
      BY <1>8, <2>4, <2>5, <2>6, <2>7 DEF Inv, PhaseInv
  <1>13. OfflineInv'
    BY <1>8 DEF Inv, OfflineInv, NodeMoves
  <1>14. CoverInv'
    <2> SUFFICES ASSUME online, ~failed, phase = "running", NEW n \in (cursor + 1)..sent'
                 PROVE  \/ \E i \in 1..Len(queue) : Covers(queue[i], n)
                        \/ \E i \in 1..Len(down') : IsEvent(down'[i]) /\ Covers(down'[i], n)
      BY <1>8 DEF CoverInv
    <2>1. CASE n <= sent
      <3>1. n \in (cursor + 1)..sent
        BY <1>3, <2>1
      <3>2. \/ \E i \in 1..Len(queue) : Covers(queue[i], n)
            \/ \E i \in 1..Len(down) : IsEvent(down[i]) /\ Covers(down[i], n)
        BY <3>1 DEF Inv, CoverInv
      <3> QED
        BY <1>1, <3>2
    <2>2. CASE n > sent
      <3>1. PICK i \in 1..Len(news) : Covers(news[i], n)
        BY SMTT(20), <1>3, <2>2 DEF NodeMoves, Sends
      <3>2. /\ Len(down) + i \in 1..Len(down') /\ down'[Len(down) + i] = news[i]
            /\ IsEvent(news[i])
        BY <1>1, <1>2
      <3> QED
        BY <3>1, <3>2
    <2> QED
      BY <1>3, <2>1, <2>2
  <1>15. ReceiptInv'
    <2> SUFFICES ASSUME ~cut', ~Announced', NEW i \in 1..Len(down'), NEW j \in 1..Len(down'),
                        i < j, down'[i].kind = "receipt", IsEvent(down'[j])
                 PROVE  FALSE
      BY DEF ReceiptInv
    <2>1. i \in 1..Len(down) /\ down'[i] = down[i]
      <3>1. ~New(i)
        BY <1>2
      <3>2. ~Answered(i)
        OBVIOUS
      <3> QED
        BY <1>1, <3>1, <3>2
    <2>2. ended
      BY <2>1 DEF Inv, PhaseInv
    <2>3. j \in 1..Len(down) /\ down'[j] = down[j]
      BY <1>1, <1>2, <1>7, <1>a, <2>2
    <2> QED
      BY <1>7, <2>1, <2>2, <2>3 DEF Inv, ReceiptInv
  <1>16. AwaitInv'
    BY <1>7, <1>8 DEF Inv, PhaseInv, AwaitInv, Whole, Terminal
  <1>17. ShownInv'
    BY <1>7, <1>8 DEF Inv, PhaseInv, ShownInv, Whole, Announced, Digested, Terminal
  <1>18. ReleaseInv'
    <2>1. ASSUME Whole', ~failed', phase' = "releasing", NEW i \in 1..Len(down'),
                 down'[i].kind = "released"
          PROVE  stream' = "none"
      <3>1. Whole /\ ended /\ acks = <<>>
        BY <1>7, <1>8, <2>1 DEF Inv, PhaseInv, ReleaseInv, Whole, Terminal
      <3>2. \A n \in 1..MaxFrames : Ack(n) \notin up
        BY <3>1 DEF Inv, AckInv
      <3>3. CASE i \in 1..Len(down) /\ down'[i] = down[i]
        BY <1>8, <2>1, <3>1, <3>2, <3>3 DEF Inv, ReleaseInv, NodeMoves
      <3>4. CASE Len(reply) = 1 /\ down'[i] = reply[1]
        BY <2>1, <3>4 DEF NodeMoves
      <3>5. ~New(i)
        BY <1>2, <2>1
      <3> QED
        BY <1>1, <1>2, <2>1, <3>3, <3>4, <3>5
    <2>2. ASSUME ~cut', ~Announced', result' = "ok"
          PROVE  stream' = "none" /\ acks' = <<>>
      <3>1. stream = "none" /\ acks = <<>>
        BY <1>7, <1>8, <2>2 DEF Inv, PhaseInv, ReleaseInv
      <3>2. \A n \in 1..MaxFrames : Ack(n) \notin up
        BY <3>1 DEF Inv, AckInv
      <3> QED
        BY <1>8, <3>1, <3>2 DEF NodeMoves
    <2>3. ASSUME Whole', ~failed', phase' \in {"acks", "releasing"} PROVE Whole /\ ended
      BY <1>7, <1>8, <2>3 DEF Inv, PhaseInv, Whole, Terminal
    <2> QED
      BY <1>8, <2>1, <2>2, <2>3 DEF Inv, ReleaseInv
  <1> QED
    BY <1>3, <1>8, <1>9, <1>10, <1>11, <1>12, <1>13, <1>14, <1>15, <1>16, <1>17, <1>18 DEF Inv


\* A step of the node that keeps its own types and the pace keeps the invariant.
LEMMA NodeStep ==
  ASSUME Inv, NEW news \in Seq(Event), NEW reply \in Seq(Answers), NodeMoves(news, reply),
         sizes' \in Seq(Sizes), Len(sizes') <= MaxFrames, first' \in 1..(Len(sizes') + 1),
         acked' \in acked..cursor, DOMAIN credit' \subseteq 1..sent',
         waiting' \in [Pipe -> 0..Len(sizes')], flush' \in BOOLEAN, stalls' \in 0..MaxStalls,
         cut' \in BOOLEAN, ended' \in BOOLEAN, stream' \in {"none", "live", "fresh"}, PaceInv'
  PROVE  Inv'
  <1>1. /\ UNCHANGED <<call, online, queue, cursor, kept, acks, flying, failed, phase, left, result>>
        /\ up' \subseteq up /\ sent' \in sent..Len(sizes')
    BY DEF NodeMoves, gatewayVars
  <1>2. /\ Len(sizes) \in Nat /\ Len(sizes') \in Nat /\ sent \in 0..Len(sizes)
        /\ acked \in 0..sent /\ cursor \in 0..Len(sizes) /\ cursor <= sent /\ kept \in 0..cursor
    BY LenProperties DEF Inv, TypeOK
  <1>3. acked' \in 0..sent' /\ cursor' \in 0..Len(sizes') /\ acked' <= cursor /\ sent' \in 0..Len(sizes')
        /\ kept' \in 0..cursor'
    BY <1>1, <1>2
  <1>4. \A i \in DOMAIN down' : down'[i] \in Event \cup Answers
    <2>1. down' = (down \o news) \o reply /\ down \in Seq(Event \cup Answers)
      BY DEF NodeMoves, Sends, Inv, Shape
    <2>2. down' \in Seq(Event \cup Answers)
      BY <2>1, Added
    <2> QED
      BY <2>2, ElementOfSeq, LenProperties
  <1>5. /\ sizes' \in Seq(call.sizes) /\ call \in Calls /\ up' \subseteq Requests
        /\ \A i \in DOMAIN queue : queue[i] \in Event
        /\ \A i \in DOMAIN acks : acks[i] \in 1..cursor
    BY <1>1 DEF Inv, TypeOK, Sizes
  <1>6. /\ online \in BOOLEAN /\ flying \in BOOLEAN /\ failed \in BOOLEAN
        /\ phase \in {"running", "delivery", "acks", "releasing", "done"}
        /\ left \in Nat /\ result \in {"none", "ok", "failed"}
    BY DEF Inv, TypeOK
  <1>7. TypeOK'
    BY <1>1, <1>3, <1>4, <1>5, <1>6 DEF TypeOK, Sizes
  <1> QED
    BY <1>3, <1>7, NodeKeeps

\* What is behind a later offset is behind an earlier one.
LEMMA IntervalBehind ==
  ASSUME NEW a \in Nat, NEW c \in Nat, NEW b \in a..c, NEW n \in (b + 1)..c
  PROVE  n \in (a + 1)..c /\ n \in Nat /\ n > b /\ n > a /\ b \in Nat /\ a <= b
  OBVIOUS

\* A step of the node that sends nothing but an answer.
LEMMA Quiet ==
  ASSUME NEW reply \in Seq(Answers), down \in Seq(Event \cup Answers), sent \in Nat,
         down' = down \o reply, sent' = sent
  PROVE  <<>> \in Seq(Event) /\ Sends(<<>>, reply)
  <1>1. <<>> \in Seq(Event) /\ Len(<<>>) = 0
    BY EmptySeq
  <1>2. down \o <<>> = down
    BY ConcatEmptySeq
  <1>3. down' = (down \o <<>>) \o reply
    BY <1>2
  <1>4. /\ \A i \in 1..Len(<<>>) : FALSE
        /\ \A n \in (sent + 1)..sent' : FALSE
    BY <1>1
  <1> QED
    BY <1>1, <1>3, <1>4 DEF Sends

\* An answer is a reply of one message.
LEMMA OneAnswer ==
  ASSUME NEW k \in {"receipt", "acked", "refused", "released"}
  PROVE  /\ Answer(k) \in Answers /\ <<Answer(k)>> \in Seq(Answers) /\ Len(<<Answer(k)>>) = 1
         /\ \A i \in 1..Len(<<Answer(k)>>) : <<Answer(k)>>[i].kind = k
  <1>1. Answer(k) \in Answers
    BY DEF Answers
  <1>2. <<Answer(k)>> \in Seq(Answers) /\ Len(<<Answer(k)>>) = 1 /\ <<Answer(k)>>[1] = Answer(k)
    BY <1>1
  <1>3. Answer(k).kind = k
    BY DEF Answer
  <1> QED
    BY <1>1, <1>2, <1>3

\* Nothing is a reply, too.
LEMMA NoAnswer == <<>> \in Seq(Answers) /\ Len(<<>>) = 0
  BY EmptySeq

\* The types of what the node keeps, and what it knows when there is no socket.
LEMMA NodeTypes ==
  ASSUME Inv
  PROVE  /\ call \in Calls /\ sizes \in Seq(Sizes) /\ Len(sizes) \in Nat /\ Len(sizes) <= MaxFrames
         /\ first \in 1..(Len(sizes) + 1) /\ sent \in 0..Len(sizes) /\ acked \in 0..sent
         /\ cursor \in 0..Len(sizes) /\ acked <= cursor /\ cursor <= sent
         /\ DOMAIN credit \subseteq 1..sent /\ waiting \in [Pipe -> 0..Len(sizes)]
         /\ flush \in BOOLEAN /\ stalls \in 0..MaxStalls /\ cut \in BOOLEAN /\ ended \in BOOLEAN
         /\ stream \in {"none", "live", "fresh"} /\ down \in Seq(Event \cup Answers)
         /\ MaxFrames \in Nat /\ up \subseteq Requests
         /\ ~online => up = {} /\ stream = "none" /\ ended
  BY StreamAssumption, LenProperties DEF Inv, TypeOK, Shape, OfflineInv

\* Writers whose frame is sent go on; those whose frame is not still wait for it.
LEMMA DeliveredPaces ==
  ASSUME Inv, Delivered, sent' \in sent..Len(sizes), UNCHANGED <<call, sizes, cut, ended>>
  PROVE  waiting' \in [Pipe -> 0..Len(sizes)] /\ PaceInv'
  <1> USE NodeTypes
  <1>1. waiting' \in [Pipe -> 0..Len(sizes)]
    BY DEF Delivered
  <1>2. ASSUME ~cut', NEW n \in (sent' + 1)..Len(sizes')
        PROVE  (Terminal' /\ n = 1) \/ \E w \in Pipe : waiting'[w] = n
    <2>0. sizes' = sizes /\ sent \in Nat /\ Len(sizes) \in Nat /\ sent' \in sent..Len(sizes)
      OBVIOUS
    <2>1. n \in (sent + 1)..Len(sizes) /\ n > sent' /\ n \in Nat
      BY ONLY <1>2, <2>0, IntervalBehind
    <2>2. (Terminal /\ n = 1) \/ \E w \in Pipe : waiting[w] = n
      BY <1>2, <2>1 DEF Inv, PaceInv
    <2>3. ASSUME NEW w \in Pipe, waiting[w] = n PROVE waiting'[w] = n
      BY <2>1, <2>3 DEF Delivered
    <2> QED
      BY <2>2, <2>3 DEF Terminal
  <1>3. ended' /\ ~cut' /\ ~Announced' => sent' = Len(sizes')
    BY DEF Inv, PaceInv, Announced, Terminal
  <1> QED
    BY <1>1, <1>2, <1>3 DEF PaceInv

\* Journal: what the new frame makes of the journal.
LEMMA JournalGrows ==
  ASSUME Inv, NEW s \in Sizes, Journal(s), Len(sizes) < MaxFrames, UNCHANGED call
  PROVE  /\ sizes' \in Seq(Sizes) /\ Len(sizes') = Len(sizes) + 1 /\ Len(sizes') <= MaxFrames
         /\ first' \in 1..(Len(sizes') + 1)
  <1> USE NodeTypes
  <1>1. sizes' = Append(sizes, s) /\ first' \in first..Len(sizes')
    BY DEF Journal
  <1>2. sizes' \in Seq(Sizes) /\ Len(sizes') = Len(sizes) + 1
    BY <1>1, AppendProperties
  <1> QED
    BY <1>1, <1>2

\* Start: a terminal is announced, and nobody waits for its frame.
LEMMA StartKeeps ==
  ASSUME Inv, Start
  PROVE  Inv'
  <1> USE NodeTypes
  <1>0. /\ Terminal /\ sizes = <<>> /\ stream = "live" /\ ~cut /\ ~ended
        /\ Drain(credit, sizes', first', flush, <<>>)
        /\ UNCHANGED <<call, online, stream, acked, waiting, cut, ended, up, gatewayVars>>
    BY DEF Start
  <1>1. Len(sizes) = 0 /\ sent = 0 /\ Len(sizes) < MaxFrames /\ online
    BY <1>0, StreamAssumption
  <1>2. /\ sizes' \in Seq(Sizes) /\ Len(sizes') = Len(sizes) + 1 /\ Len(sizes') <= MaxFrames
        /\ first' \in 1..(Len(sizes') + 1)
    <2>1. PICK s \in Sizes : Journal(s)
      BY DEF Start
    <2> QED
      BY <1>0, <1>1, <2>1, JournalGrows
  <1>3. /\ \E news \in Seq(Event) : Sends(news, <<>>)
        /\ sent' \in sent..Len(sizes') /\ DOMAIN credit' \subseteq 1..sent'
        /\ flush' \in BOOLEAN /\ stalls' \in 0..MaxStalls
    <2>1. sent \in 0..Len(sizes')
      BY <1>1, <1>2
    <2> QED
      BY <1>0, <1>2, <2>1, NoAnswer, DrainSends
  <1>4. PICK news \in Seq(Event) : Sends(news, <<>>)
    BY <1>3
  <1>5. NodeMoves(news, <<>>)
    BY <1>0, <1>1, <1>3, <1>4, NoAnswer DEF NodeMoves
  <1>6. PaceInv'
    <2>1. Len(sizes') = 1 /\ sent' \in 0..1
      BY <1>1, <1>2, <1>3
    <2>2. \A n \in (sent' + 1)..Len(sizes') : n = 1
      <3>1. \A b \in 0..1 : \A n \in (b + 1)..1 : n = 1
        OBVIOUS
      <3> QED
        BY ONLY <2>1, <3>1
    <2> QED
      BY <1>0, <2>2 DEF PaceInv, Terminal
  <1>7. acked' \in acked..cursor /\ waiting' \in [Pipe -> 0..Len(sizes')]
    BY <1>0, <1>1, <1>2
  <1> QED
    BY <1>0, <1>2, <1>3, <1>4, <1>5, <1>6, <1>7, NoAnswer, NodeStep

\* Output: the writer waits for its frame unless it was sent at once.
LEMMA OutputKeeps ==
  ASSUME Inv, NEW w \in Writers, Output(w)
  PROVE  Inv'
  <1> USE NodeTypes
  <1>0. /\ stream = "live" /\ ~cut /\ ~ended /\ waiting[w] = 0 /\ Len(sizes) < MaxFrames
        /\ Drain(credit, sizes', first', flush, <<>>)
        /\ waiting' = [v \in Pipe |->
             LET n == IF v = w THEN Len(sizes') ELSE waiting[v] IN IF n <= sent' THEN 0 ELSE n]
        /\ UNCHANGED <<call, online, stream, acked, cut, ended, up, gatewayVars>>
    BY DEF Output
  <1>1. w \in Pipe /\ online
    BY <1>0, StreamAssumption DEF Writers
  <1>2. /\ sizes' \in Seq(Sizes) /\ Len(sizes') = Len(sizes) + 1 /\ Len(sizes') <= MaxFrames
        /\ first' \in 1..(Len(sizes') + 1)
    <2>1. PICK s \in Sizes : Journal(s)
      BY DEF Output
    <2> QED
      BY <1>0, <2>1, JournalGrows
  <1>3. /\ \E news \in Seq(Event) : Sends(news, <<>>)
        /\ sent' \in sent..Len(sizes') /\ DOMAIN credit' \subseteq 1..sent'
        /\ flush' \in BOOLEAN /\ stalls' \in 0..MaxStalls
    <2>1. sent \in 0..Len(sizes')
      BY <1>2
    <2> QED
      BY <1>0, <1>2, <2>1, NoAnswer, DrainSends
  <1>4. PICK news \in Seq(Event) : Sends(news, <<>>)
    BY <1>3
  <1>5. NodeMoves(news, <<>>)
    BY <1>0, <1>1, <1>3, <1>4, NoAnswer DEF NodeMoves
  <1>6. PaceInv'
    <2>1. ASSUME NEW n \in (sent' + 1)..Len(sizes')
          PROVE  (Terminal' /\ n = 1) \/ \E v \in Pipe : waiting'[v] = n
      <3>0. sent \in Nat /\ Len(sizes') \in Nat
        BY <1>2
      <3>1. n \in Nat /\ n > sent' /\ sent' \in Nat /\ sent <= sent' /\ n > sent
        BY ONLY <1>3, <2>1, <3>0, IntervalBehind
      <3>2. CASE n = Len(sizes')
        BY <1>0, <1>1, <3>1, <3>2
      <3>3. CASE n # Len(sizes')
        <4>1. n \in (sent + 1)..Len(sizes)
          BY SMTT(20), <1>2, <3>1, <3>3
        <4>2. (Terminal /\ n = 1) \/ \E v \in Pipe : waiting[v] = n
          BY <1>0, <4>1 DEF Inv, PaceInv
        <4>3. ASSUME NEW v \in Pipe, waiting[v] = n PROVE waiting'[v] = n
          <5>1. v # w
            BY <1>0, <3>1, <4>3
          <5> QED
            BY <1>0, <3>1, <4>3, <5>1
        <4> QED
          BY <1>0, <4>2, <4>3 DEF Terminal
      <3> QED
        BY <3>2, <3>3
    <2> QED
      BY <1>0, <2>1 DEF PaceInv
  <1>7. acked' \in acked..cursor
    BY <1>0
  <1>8. waiting' \in [Pipe -> 0..Len(sizes')]
    <2>1. Len(sizes') \in Nat /\ \A v \in Pipe : waiting[v] \in 0..Len(sizes')
      BY <1>2
    <2> QED
      BY <1>0, <2>1
  <1> QED
    BY <1>0, <1>2, <1>3, <1>4, <1>5, <1>6, <1>7, <1>8, NoAnswer, NodeStep

\* End: no writer waits, so that everything is sent before the receipt.
LEMMA EndKeeps ==
  ASSUME Inv, End
  PROVE  Inv'
  <1> USE NodeTypes
  <1> DEFINE reply == <<Answer("receipt")>>
  <1>0. /\ stream = "live" /\ ~ended /\ ended' /\ ended' = TRUE /\ \A w \in Pipe : waiting[w] = 0
        /\ Drain(credit, sizes, first, flush, reply)
        /\ UNCHANGED <<call, online, stream, sizes, first, acked, waiting, cut, up, gatewayVars>>
    BY DEF End
  <1>1. reply \in Seq(Answers) /\ Len(reply) = 1 /\ \A i \in 1..Len(reply) : reply[i].kind = "receipt"
    BY OneAnswer
  <1> HIDE DEF reply
  <1>3. /\ \E news \in Seq(Event) : Sends(news, reply)
        /\ sent' \in sent..Len(sizes) /\ DOMAIN credit' \subseteq 1..sent'
        /\ flush' \in BOOLEAN /\ stalls' \in 0..MaxStalls
    BY <1>0, <1>1, DrainSends
  <1>4. PICK news \in Seq(Event) : Sends(news, reply)
    BY <1>3
  <1>5. NodeMoves(news, reply)
    BY <1>0, <1>1, <1>3, <1>4 DEF NodeMoves
  <1>6. PaceInv'
    <2>1. ~cut /\ ~Announced => sent = Len(sizes)
      <3> SUFFICES ASSUME ~cut, ~Announced, sent # Len(sizes) PROVE FALSE
        OBVIOUS
      <3>1. Len(sizes) \in (sent + 1)..Len(sizes) /\ Len(sizes) # 0
        OBVIOUS
      <3>2. (Terminal /\ Len(sizes) = 1) \/ \E w \in Pipe : waiting[w] = Len(sizes)
        BY <3>1 DEF Inv, PaceInv
      <3>3. Terminal /\ Len(sizes) = 1
        BY <1>0, <3>1, <3>2
      <3> QED
        BY <3>3 DEF Announced
    <2>2. ~cut' /\ ~Announced' => sent' = Len(sizes')
      <3>1. sizes' = sizes /\ call' = call /\ cut' = cut
        BY <1>0
      <3>2. sent = Len(sizes) => sent' = sent
        BY <1>3
      <3> QED
        BY <2>1, <3>1, <3>2 DEF Announced, Terminal
    <2>3. \A n \in (sent' + 1)..Len(sizes') : n \in (sent + 1)..Len(sizes)
      <3>1. sizes' = sizes /\ sent \in Nat /\ Len(sizes) \in Nat
        BY <1>0
      <3> QED
        BY ONLY <1>3, <3>1, IntervalBehind
    <2>4. ~cut' => \A n \in (sent' + 1)..Len(sizes') :
            (Terminal' /\ n = 1) \/ \E w \in Pipe : waiting'[w] = n
      BY <1>0, <2>3 DEF Inv, PaceInv, Terminal
    <2> QED
      BY <2>2, <2>4 DEF PaceInv
  <1>7. acked' \in acked..cursor
    BY <1>0
  <1> QED
    BY <1>0, <1>1, <1>3, <1>4, <1>5, <1>6, <1>7, NodeStep

\* Flush: the timer sends what credit allows, unless the stream is gone.
LEMMA FlushKeeps ==
  ASSUME Inv, Flush
  PROVE  Inv'
  <1> USE NodeTypes
  <1>0. UNCHANGED <<call, online, stream, sizes, first, acked, cut, ended, up, gatewayVars>>
    BY DEF Flush
  <1>7. acked' \in acked..cursor
    BY <1>0
  <1>1. CASE stream = "live"
    <2>1. Drain(credit, sizes, first, FALSE, <<>>) /\ Delivered /\ online
      BY <1>1 DEF Flush
    <2>2. /\ \E news \in Seq(Event) : Sends(news, <<>>)
          /\ sent' \in sent..Len(sizes) /\ DOMAIN credit' \subseteq 1..sent'
          /\ flush' \in BOOLEAN /\ stalls' \in 0..MaxStalls
      BY <2>1, NoAnswer, DrainSends
    <2>3. PICK news \in Seq(Event) : Sends(news, <<>>)
      BY <2>2
    <2>4. NodeMoves(news, <<>>)
      BY <1>0, <2>1, <2>2, <2>3, NoAnswer DEF NodeMoves
    <2>5. waiting' \in [Pipe -> 0..Len(sizes)] /\ PaceInv'
      BY <1>0, <2>1, <2>2, DeliveredPaces
    <2> QED
      BY <1>0, <1>7, <2>2, <2>3, <2>4, <2>5, NoAnswer, NodeStep
  <1>2. CASE stream # "live"
    <2>1. flush' = FALSE /\ UNCHANGED <<sent, credit, stalls, down, waiting>>
      BY <1>2 DEF Flush
    <2>2. down' = down \o <<>>
      <3>1. down \in Seq(Event \cup Answers) /\ down' = down
        BY <2>1
      <3> QED
        BY <3>1, ConcatEmptySeq
    <2>3. Sends(<<>>, <<>>)
      <3>1. sent \in Nat /\ sent' = sent /\ down \in Seq(Event \cup Answers)
        BY <2>1
      <3> QED
        BY ONLY <2>2, <3>1, NoAnswer, Quiet
    <2>4. NodeMoves(<<>>, <<>>)
      BY <1>0, <2>1, <2>3, NoAnswer DEF NodeMoves
    <2>5. PaceInv'
      BY <1>0, <2>1 DEF Inv, PaceInv, Announced, Terminal
    <2>6. <<>> \in Seq(Event)
      BY EmptySeq
    <2> QED
      BY <1>0, <1>7, <2>1, <2>4, <2>5, <2>6, NoAnswer, NodeStep
  <1> QED
    BY <1>1, <1>2

\* The steps that send nothing, or an answer alone, and leave the output as it is.
AnswerMoves(reply) ==
  /\ Len(reply) <= 1 /\ down' = down \o reply
  /\ UNCHANGED <<call, online, sizes, first, sent, acked, credit,
                    flush, stalls, ended, gatewayVars>>
  /\ \/ ~ended /\ cut' = TRUE /\ waiting' = [w \in Pipe |-> 0]
     \/ UNCHANGED <<cut, waiting>>
  /\ up' \subseteq up /\ stream' \in {"none", "live", "fresh"}
  /\ \A i \in 1..Len(reply) :
       /\ reply[i].kind # "receipt"
       /\ reply[i].kind = "released" => stream' = "none" /\ Request("release") \in up
       /\ reply[i].kind \in {"acked", "refused"} =>
            \E n \in 1..MaxFrames : Ack(n) \in up /\ up' = up \ {Ack(n)}
  /\ stream' # stream => stream' = "none" \/ \E n \in 1..MaxFrames : Ack(n) \in up
  /\ ~online => UNCHANGED <<down, stream>>

\* Such a step keeps the invariant.
LEMMA AnswerStep ==
  ASSUME Inv, NEW reply \in Seq(Answers), AnswerMoves(reply)
  PROVE  Inv'
  <1> USE NodeTypes DEF AnswerMoves
  <1>1. sent \in Nat /\ sent' = sent /\ down \in Seq(Event \cup Answers)
    OBVIOUS
  <1>2. <<>> \in Seq(Event) /\ Sends(<<>>, reply)
    <2>1. down' = down \o reply
      OBVIOUS
    <2> QED
      BY ONLY <1>1, <2>1, reply \in Seq(Answers), Quiet
  <1>3. NodeMoves(<<>>, reply)
    <2>1. sent' \in sent..Len(sizes')
      BY <1>1
    <2>2. ended => ended' /\ UNCHANGED <<sizes, cut>>
      OBVIOUS
    <2>3. cut => cut'
      OBVIOUS
    <2> QED
      BY <1>2, <2>1, <2>2, <2>3 DEF NodeMoves
  <1>4. PaceInv'
    <2>1. CASE cut' = TRUE
      BY <2>1 DEF PaceInv
    <2>2. CASE UNCHANGED <<cut, waiting>>
      <3>1. UNCHANGED <<call, sizes, sent, ended, cut, waiting>>
        BY <2>2
      <3> QED
        BY <3>1 DEF Inv, PaceInv, Announced, Terminal
    <2> QED
      BY <2>1, <2>2
  <1>5. waiting' \in [Pipe -> 0..Len(sizes')] /\ cut' \in BOOLEAN /\ ended' \in BOOLEAN
    <2>1. CASE cut' = TRUE /\ waiting' = [w \in Pipe |-> 0]
      BY <2>1
    <2>2. CASE UNCHANGED <<cut, waiting>>
      BY <2>2
    <2> QED
      BY <2>1, <2>2
  <1>6. /\ sizes' \in Seq(Sizes) /\ Len(sizes') <= MaxFrames /\ first' \in 1..(Len(sizes') + 1)
        /\ acked' \in acked..cursor /\ DOMAIN credit' \subseteq 1..sent'
        /\ flush' \in BOOLEAN /\ stalls' \in 0..MaxStalls
    OBVIOUS
  <1> QED
    BY <1>2, <1>3, <1>4, <1>5, <1>6, NodeStep

\* HandleCancel: a process that was told to stop has nothing to show.
LEMMA HandleCancelKeeps ==
  ASSUME Inv, HandleCancel
  PROVE  Inv'
  <1> USE NodeTypes
  <1>1. /\ UNCHANGED <<call, online, stream, sizes, first, sent, acked, credit, flush, stalls, ended,
                       down, gatewayVars>>
        /\ up' \subseteq up
        /\ \/ ~ended /\ cut' = TRUE /\ waiting' = [w \in Pipe |-> 0]
           \/ UNCHANGED <<cut, waiting>>
    BY DEF HandleCancel, CutOff
  <1>2. down' = down \o <<>>
    <2>1. down \in Seq(Event \cup Answers) /\ down' = down
      BY <1>1
    <2> QED
      BY <2>1, ConcatEmptySeq
  <1>3. AnswerMoves(<<>>)
    BY <1>1, <1>2, NoAnswer DEF AnswerMoves
  <1> QED
    BY <1>3, NoAnswer, AnswerStep

\* Timeout: neither has one that ran too long.
LEMMA TimeoutKeeps ==
  ASSUME Inv, Timeout
  PROVE  Inv'
  <1> USE NodeTypes
  <1>1. /\ UNCHANGED <<call, online, stream, sizes, first, sent, acked, credit, flush, stalls, ended,
                       down, gatewayVars>>
        /\ up' \subseteq up
        /\ ~ended /\ cut' = TRUE /\ waiting' = [w \in Pipe |-> 0]
    BY DEF Timeout, CutOff
  <1>2. down' = down \o <<>>
    <2>1. down \in Seq(Event \cup Answers) /\ down' = down
      BY <1>1
    <2> QED
      BY <2>1, ConcatEmptySeq
  <1>3. AnswerMoves(<<>>)
    <2>1. \A i \in 1..Len(<<>>) : FALSE
      BY NoAnswer
    <2>2. \/ ~ended /\ cut' = TRUE /\ waiting' = [w \in Pipe |-> 0]
          \/ UNCHANGED <<cut, waiting>>
      BY <1>1
    <2>3. /\ UNCHANGED <<call, online, sizes, first, sent, acked, credit, flush, stalls, ended, gatewayVars>>
          /\ UNCHANGED <<down, stream>> /\ stream' \in {"none", "live", "fresh"} /\ up' \subseteq up
      BY <1>1
    <2> QED
      BY <1>2, <2>1, <2>2, <2>3, NoAnswer DEF AnswerMoves
  <1> QED
    BY <1>3, NoAnswer, AnswerStep

\* Prune: a settled stream is forgotten.
LEMMA PruneKeeps ==
  ASSUME Inv, Prune
  PROVE  Inv'
  <1> USE NodeTypes
  <1>1. /\ UNCHANGED <<call, online, sizes, first, sent, acked, credit, waiting, flush, stalls, cut,
                       ended, down, up, gatewayVars>>
        /\ stream' = "none" /\ stream = "live"
    BY DEF Prune
  <1>2. down' = down \o <<>>
    <2>1. down \in Seq(Event \cup Answers) /\ down' = down
      BY <1>1
    <2> QED
      BY <2>1, ConcatEmptySeq
  <1>3. AnswerMoves(<<>>)
    BY <1>1, <1>2, NoAnswer DEF AnswerMoves
  <1> QED
    BY <1>3, NoAnswer, AnswerStep

\* HandleRelease: the stream is gone when the gateway hears of it.
LEMMA HandleReleaseKeeps ==
  ASSUME Inv, HandleRelease
  PROVE  Inv'
  <1> USE NodeTypes
  <1> DEFINE reply == <<Answer("released")>>
  <1>1. /\ UNCHANGED <<call, online, sizes, first, sent, acked, credit, waiting, flush, stalls, cut,
                       ended, gatewayVars>>
        /\ up' \subseteq up /\ Request("release") \in up
        /\ stream' = "none" /\ down' = Append(down, Answer("released"))
    BY DEF HandleRelease
  <1>2. reply \in Seq(Answers) /\ Len(reply) = 1 /\ \A i \in 1..Len(reply) : reply[i].kind = "released"
    BY OneAnswer
  <1>3. down' = down \o reply
    BY <1>1, OneAnswer, AppendIsConcat
  <1> HIDE DEF reply
  <1>4. AnswerMoves(reply)
    BY <1>1, <1>2, <1>3 DEF AnswerMoves
  <1> QED
    BY <1>2, <1>4, AnswerStep

\* RefuseAck: the gateway hears of a refusal when no other acknowledgement is under way.
LEMMA RefuseAckKeeps ==
  ASSUME Inv, RefuseAck
  PROVE  Inv'
  <1> USE NodeTypes
  <1> DEFINE reply == <<Answer("refused")>>
  <1>1. /\ UNCHANGED <<call, online, sizes, first, sent, acked, credit, waiting, flush, stalls, cut,
                       ended, gatewayVars>>
        /\ \E n \in 1..MaxFrames : Ack(n) \in up /\ up' = up \ {Ack(n)}
        /\ stream' \in {"none", "live", "fresh"} /\ down' = Append(down, Answer("refused"))
    BY DEF RefuseAck
  <1>2. reply \in Seq(Answers) /\ Len(reply) = 1 /\ \A i \in 1..Len(reply) : reply[i].kind = "refused"
    BY OneAnswer
  <1>3. down' = down \o reply
    BY <1>1, OneAnswer, AppendIsConcat
  <1> HIDE DEF reply
  <1>4. up' \subseteq up /\ online
    BY <1>1
  <1>5. AnswerMoves(reply)
    BY SMTT(20), <1>1, <1>2, <1>3, <1>4 DEF AnswerMoves
  <1> QED
    BY <1>2, <1>5, AnswerStep

\* HandleAck: what is acknowledged was shown, for the gateway sent the acknowledgement.
LEMMA HandleAckKeeps ==
  ASSUME Inv, HandleAck
  PROVE  Inv'
  <1> USE NodeTypes
  <1> DEFINE reply == <<Answer("acked")>>
  <1>0. PICK n \in acked..sent :
          /\ Ack(n) \in up /\ up' = up \ {Ack(n)} /\ stream = "live" /\ acked' = n
          /\ Drain([i \in DOMAIN credit \ 1..n |-> credit[i]], sizes, first, flush, reply)
    BY DEF HandleAck
  <1>1. Delivered /\ UNCHANGED <<call, online, stream, sizes, first, cut, ended, gatewayVars>>
    BY DEF HandleAck
  <1>2. reply \in Seq(Answers) /\ Len(reply) = 1 /\ \A i \in 1..Len(reply) : reply[i].kind = "acked"
    BY OneAnswer
  <1> HIDE DEF reply
  <1>3. n \in 1..MaxFrames /\ n <= cursor /\ online
    <2>1. Ack(n) \in Requests
      BY <1>0
    <2>2. Ack(n).offset \in 1..MaxFrames
      <3>1. ASSUME NEW m \in 1..MaxFrames, Ack(n) = Ack(m) PROVE Ack(n).offset \in 1..MaxFrames
        BY <3>1 DEF Ack
      <3>2. Ack(n) # Request("cancel") /\ Ack(n) # Request("release")
        BY RequestsDiffer
      <3>3. \A m : Ack(m).offset = m
        BY DEF Ack
      <3> QED
        BY <2>1, <3>1, <3>2, <3>3 DEF Requests
    <2>3. n \in 1..MaxFrames
      BY <2>2 DEF Ack
    <2> QED
      BY <1>0, <2>3 DEF Inv, AckInv
  <1>4. /\ \E news \in Seq(Event) : Sends(news, reply)
        /\ sent' \in sent..Len(sizes) /\ DOMAIN credit' \subseteq 1..sent'
        /\ flush' \in BOOLEAN /\ stalls' \in 0..MaxStalls
    <2> DEFINE cr == [i \in DOMAIN credit \ 1..n |-> credit[i]]
    <2>1. DOMAIN cr \subseteq 1..sent
      OBVIOUS
    <2>2. Drain(cr, sizes, first, flush, reply)
      BY <1>0
    <2> HIDE DEF cr
    <2> QED
      BY <1>2, <2>1, <2>2, DrainSends
  <1>5. PICK news \in Seq(Event) : Sends(news, reply)
    BY <1>4
  <1>6. NodeMoves(news, reply)
    BY SMTT(20), <1>0, <1>1, <1>2, <1>3, <1>4, <1>5 DEF NodeMoves
  <1>7. waiting' \in [Pipe -> 0..Len(sizes)] /\ PaceInv'
    BY <1>1, <1>4, DeliveredPaces
  <1>8. acked' \in acked..cursor
    BY <1>0, <1>3
  <1> QED
    BY <1>1, <1>2, <1>4, <1>5, <1>6, <1>7, <1>8, NodeStep

-----------------------------------------------------------------------------
(* Steps of the gateway *)

\* What is left of a sequence from which a step takes d messages, none or the first.
Rest(new, old, d) ==
  /\ d \in {0, 1} /\ Len(new) = Len(old) - d /\ Len(new) \in Nat
  /\ \A i \in 1..Len(new) : i + d \in 1..Len(old) /\ new[i] = old[i + d]

\* Taking the first message leaves the others where they were, one place ahead.
LEMMA TailIsRest ==
  ASSUME NEW S, NEW s \in Seq(S), s # <<>>
  PROVE  /\ Tail(s) \in Seq(S) /\ Rest(Tail(s), s, 1)
         /\ Head(s) \in S /\ Head(s) = s[1] /\ 1 \in 1..Len(s)
  <1>1. Tail(s) \in Seq(S) /\ Len(Tail(s)) = Len(s) - 1 /\ Head(s) \in S
        /\ \A i \in 1..Len(Tail(s)) : Tail(s)[i] = s[i + 1]
    BY HeadTailProperties
  <1>2. Len(s) \in Nat /\ Len(s) # 0 /\ Len(Tail(s)) \in Nat
    BY <1>1, EmptySeq, LenProperties
  <1>3. \A i \in 1..Len(Tail(s)) : i + 1 \in 1..Len(s)
    BY <1>1, <1>2
  <1>4. Head(s) = s[1]
    OBVIOUS
  <1>5. 1 \in 1..Len(s)
    BY <1>2
  <1> QED
    BY <1>1, <1>2, <1>3, <1>4, <1>5 DEF Rest

\* Taking none leaves all.
LEMMA AllIsRest ==
  ASSUME NEW S, NEW s \in Seq(S)
  PROVE  Rest(s, s, 0)
  <1>1. Len(s) \in Nat
    BY LenProperties
  <1> QED
    BY <1>1 DEF Rest

\* The types of what the gateway keeps.
LEMMA GatewayTypes ==
  ASSUME Inv
  PROVE  /\ down \in Seq(Event \cup Answers) /\ queue \in Seq(Event) /\ acks \in Seq(Nat)
         /\ Len(down) \in Nat /\ Len(queue) \in Nat /\ Len(acks) \in Nat
         /\ \A i \in 1..Len(acks) : acks[i] \in 1..cursor
         /\ sizes \in Seq(Sizes) /\ Len(sizes) \in Nat /\ Len(sizes) <= MaxFrames /\ MaxFrames \in Nat
         /\ sent \in 0..Len(sizes) /\ cursor \in 0..Len(sizes) /\ acked \in 0..sent
         /\ kept \in 0..cursor
         /\ acked <= cursor /\ cursor <= sent /\ up \subseteq Requests
         /\ flying \in BOOLEAN /\ failed \in BOOLEAN /\ left \in Nat
         /\ phase \in {"running", "delivery", "acks", "releasing", "done"}
         /\ result \in {"none", "ok", "failed"} /\ online \in BOOLEAN
  <1>1. /\ down \in Seq(Event \cup Answers) /\ queue \in Seq(Event) /\ acks \in Seq(Nat)
        /\ sizes \in Seq(Sizes)
    BY DEF Inv, TypeOK, Shape
  <1>2. /\ Len(down) \in Nat /\ Len(queue) \in Nat /\ Len(acks) \in Nat /\ Len(sizes) \in Nat
        /\ DOMAIN acks = 1..Len(acks)
    BY <1>1, LenProperties
  <1>3. \A i \in 1..Len(acks) : acks[i] \in 1..cursor
    BY <1>2 DEF Inv, TypeOK
  <1> QED
    BY <1>1, <1>2, <1>3, StreamAssumption DEF Inv, TypeOK

\* A step of the gateway that keeps its own types; the rest of TypeOK, and what the invariant says of
\* the node, it keeps in any case.
LEMMA GatewayStep ==
  ASSUME Inv, UNCHANGED <<call, nodeVars, online>>, NEW d, Rest(down', down, d),
         down' \in Seq(Event \cup Answers), queue' \in Seq(Event), acks' \in Seq(Nat),
         up' \subseteq Requests, cursor' \in cursor..sent, UNCHANGED kept \/ kept' \in 0..cursor',
         \A i \in 1..Len(acks') : acks'[i] \in 1..cursor',
         flying' \in BOOLEAN, failed' \in BOOLEAN, left' \in Nat,
         phase' \in {"running", "delivery", "acks", "releasing", "done"},
         result' \in {"none", "ok", "failed"},
         OrderInv', AckInv', PhaseInv', OfflineInv', CoverInv', AwaitInv', ShownInv', ReleaseInv'
  PROVE  Inv'
  <1> USE GatewayTypes
  <1>1. UNCHANGED <<call, stream, sizes, first, sent, acked, credit, waiting, flush, stalls, cut,
                    ended, online>>
    BY DEF nodeVars
  <1>2. /\ DOMAIN down' = 1..Len(down') /\ DOMAIN queue' = 1..Len(queue') /\ DOMAIN acks' = 1..Len(acks')
    BY LenProperties
  <1>3. /\ \A i \in DOMAIN down' : down'[i] \in Event \cup Answers
        /\ \A i \in DOMAIN queue' : queue'[i] \in Event
        /\ \A i \in DOMAIN acks' : acks'[i] \in 1..cursor'
    BY <1>2, ElementOfSeq
  <1>4. cursor' \in 0..Len(sizes) /\ acked <= cursor' /\ cursor' <= sent /\ kept' \in 0..cursor'
    <2>1. CASE UNCHANGED kept
      BY <2>1
    <2>2. CASE kept' \in 0..cursor'
      BY <2>2
    <2> QED
      BY <2>1, <2>2
  <1>5. TypeOK'
    <2>1. /\ call \in Calls /\ stream \in {"none", "live", "fresh"}
          /\ sizes \in Seq(call.sizes) /\ Len(sizes) <= MaxFrames /\ first \in 1..(Len(sizes) + 1)
          /\ sent \in 0..Len(sizes) /\ acked \in 0..sent /\ DOMAIN credit \subseteq 1..sent
          /\ waiting \in [Pipe -> 0..Len(sizes)] /\ flush \in BOOLEAN /\ stalls \in 0..MaxStalls
          /\ cut \in BOOLEAN /\ ended \in BOOLEAN /\ online \in BOOLEAN
      BY DEF Inv, TypeOK, Sizes
    <2> QED
      BY <1>1, <1>3, <1>4, <2>1 DEF TypeOK, Sizes
  <1>6. PaceInv'
    BY <1>1 DEF Inv, PaceInv, Announced, Terminal
  <1>7. ReceiptInv'
    <2> SUFFICES ASSUME ~cut', ~Announced', NEW i \in 1..Len(down'), NEW j \in 1..Len(down'),
                        i < j, down'[i].kind = "receipt", IsEvent(down'[j])
                 PROVE  FALSE
      BY DEF ReceiptInv
    <2>1. ~cut /\ ~Announced
      BY <1>1 DEF Announced, Terminal
    <2>2. /\ i + d \in 1..Len(down) /\ down'[i] = down[i + d]
          /\ j + d \in 1..Len(down) /\ down'[j] = down[j + d]
      BY DEF Rest
    <2>3. i + d < j + d
      <3>1. d \in Nat /\ i \in Nat /\ j \in Nat
        BY DEF Rest
      <3> QED
        BY ONLY <3>1, i < j
    <2> QED
      BY <2>1, <2>2, <2>3 DEF Inv, ReceiptInv
  <1>8. acked' <= cursor' /\ cursor' <= sent'
    BY <1>1, <1>4
  <1>9. Shape'
    BY DEF Shape
  <1> QED
    BY <1>5, <1>6, <1>7, <1>8, <1>9 DEF Inv

\* What a step keeps that takes no event, no acknowledgement and no answer, or drops the queue: the
\* order of the events and of the acknowledgements.
LEMMA OrderStays ==
  ASSUME Inv, UNCHANGED <<call, nodeVars, online, cursor>>, NEW d, Rest(down', down, d),
         queue' = queue \/ queue' = <<>>
  PROVE  OrderInv'
  <1> USE GatewayTypes
  <1>1. UNCHANGED <<sent, cursor>>
    BY DEF nodeVars
  <1>2. \A i \in 1..Len(down') : i + d \in 1..Len(down) /\ down'[i] = down[i + d]
    BY DEF Rest
  <1>3. \A i, j \in 1..Len(down') : i < j => i + d < j + d
    BY DEF Rest
  <1>4. /\ \A i \in 1..Len(queue') : i \in 1..Len(queue) /\ queue'[i] = queue[i]
    <2>1. CASE queue' = <<>>
      <3>1. Len(queue') = 0
        BY <2>1
      <3> QED
        BY <3>1
    <2> QED
      BY <2>1
  <1>5. \A i \in 1..Len(queue') : cursor < queue'[i].offset /\ queue'[i].offset <= sent
    BY <1>4 DEF Inv, OrderInv
  <1>6. \A i, j \in 1..Len(queue') : i < j => queue'[i].offset < queue'[j].offset
    BY <1>4 DEF Inv, OrderInv
  <1>7. \A i \in 1..Len(down') : IsEvent(down'[i]) =>
          cursor < down'[i].offset /\ down'[i].offset <= sent
    BY <1>2 DEF Inv, OrderInv
  <1>8. \A i, j \in 1..Len(down') :
          i < j /\ IsEvent(down'[i]) /\ IsEvent(down'[j]) => down'[i].offset < down'[j].offset
    <2>1. \A i, j \in 1..Len(down) :
            i < j /\ IsEvent(down[i]) /\ IsEvent(down[j]) => down[i].offset < down[j].offset
      BY DEF Inv, OrderInv
    <2> QED
      BY <1>2, <1>3, <2>1
  <1>9. \A i \in 1..Len(queue'), j \in 1..Len(down') :
          IsEvent(down'[j]) => queue'[i].offset < down'[j].offset
    <2>1. \A i \in 1..Len(queue), j \in 1..Len(down) :
            IsEvent(down[j]) => queue[i].offset < down[j].offset
      BY DEF Inv, OrderInv
    <2> QED
      BY <1>2, <1>4, <2>1
  <1> QED
    BY <1>1, <1>5, <1>6, <1>7, <1>8, <1>9 DEF OrderInv

\* ... and what may be under way.
LEMMA AckStays ==
  ASSUME Inv, NEW d, Rest(down', down, d), cursor' \in cursor..sent, UNCHANGED flying,
         \A n \in 1..MaxFrames : Ack(n) \in up' => Ack(n) \in up,
         flying => acks' # <<>>
  PROVE  AckInv'
  <1> USE GatewayTypes
  <1>1. \A i \in 1..Len(down') : i + d \in 1..Len(down) /\ down'[i] = down[i + d]
    BY DEF Rest
  <1>2. \A i, j \in 1..Len(down') : i + d = j + d => i = j
    BY DEF Rest
  <1>3. \A n \in 1..MaxFrames : Ack(n) \in up' => flying /\ n <= cursor'
    BY DEF Inv, AckInv
  <1>4. \A n, m \in 1..MaxFrames : Ack(n) \in up' /\ Ack(m) \in up' => n = m
    BY DEF Inv, AckInv
  <1>5. \A i \in 1..Len(down') : down'[i].kind \in {"acked", "refused"} =>
          flying /\ \A n \in 1..MaxFrames : Ack(n) \notin up'
    BY <1>1 DEF Inv, AckInv
  <1>6. \A i, j \in 1..Len(down') :
          down'[i].kind \in {"acked", "refused"} /\ down'[j].kind \in {"acked", "refused"} => i = j
    <2>1. \A i, j \in 1..Len(down) :
            down[i].kind \in {"acked", "refused"} /\ down[j].kind \in {"acked", "refused"} => i = j
      BY DEF Inv, AckInv
    <2> QED
      BY <1>1, <1>2, <2>1
  <1> QED
    BY <1>3, <1>4, <1>5, <1>6 DEF AckInv

\* The acknowledgements among the requests when a cancellation joins them.
LEMMA CancelIsNoAck ==
  ASSUME up' = up \/ up' = Cancelled
  PROVE  /\ \A n : Ack(n) \in up' <=> Ack(n) \in up
         /\ Request("release") \in up' <=> Request("release") \in up
         /\ up \subseteq Requests => up' \subseteq Requests
  BY RequestsDiffer DEF Cancelled, Requests, Ack, Request

\* SendAck: nothing else is under way, and what is acknowledged was shown.
LEMMA SendAckKeeps ==
  ASSUME Inv, SendAck
  PROVE  Inv'
  <1> USE GatewayTypes
  <1>1. /\ acks # <<>> /\ ~flying /\ flying' = TRUE /\ up' = up \cup {Ack(Head(acks))}
        /\ UNCHANGED <<call, nodeVars, online>>
        /\ UNCHANGED <<down, queue, cursor, kept, acks, failed, phase, left, result>>
    BY DEF SendAck
  <1>2. UNCHANGED <<call, online, stream, sizes, sent, cut, ended>>
    BY <1>1 DEF nodeVars
  <1>3. Rest(down', down, 0)
    BY <1>1, AllIsRest
  <1>4. Head(acks) \in 1..cursor /\ Head(acks) \in 1..MaxFrames
    BY <1>1, TailIsRest
  <1>5. up' \subseteq Requests
    BY <1>1, <1>4 DEF Requests
  <1>6. \A n : Ack(n) \in up' => Ack(n) \in up \/ n = Head(acks)
    BY <1>1, RequestsDiffer
  <1>7. Request("release") \in up' => Request("release") \in up
    BY <1>1, RequestsDiffer
  <1>8. OrderInv'
    BY <1>1, <1>3, OrderStays
  <1>9. AckInv'
    <2>1. /\ \A n \in 1..MaxFrames : Ack(n) \notin up
          /\ \A i \in 1..Len(down) : down[i].kind \notin {"acked", "refused"}
      BY <1>1 DEF Inv, AckInv
    <2>2. \A n \in 1..MaxFrames : Ack(n) \in up' => n = Head(acks)
      BY <1>6, <2>1
    <2>3. \A n \in 1..MaxFrames : Ack(n) \in up' => flying' /\ n <= cursor'
      BY <1>1, <1>4, <2>2
    <2>4. \A i \in 1..Len(down') : down'[i].kind \notin {"acked", "refused"}
      BY <1>1, <2>1
    <2>5. flying' => acks' # <<>>
      BY <1>1
    <2> QED
      BY <2>2, <2>3, <2>4, <2>5 DEF AckInv
  <1>10. PhaseInv'
    BY <1>1, <1>2, <1>7 DEF Inv, PhaseInv
  <1>11. OfflineInv'
    BY <1>1, <1>2 DEF Inv, OfflineInv
  <1>12. CoverInv'
    BY SMTT(20), <1>1, <1>2 DEF Inv, CoverInv
  <1>13. AwaitInv' /\ ShownInv' /\ ReleaseInv'
    BY <1>1, <1>2 DEF Inv, AwaitInv, ShownInv, ReleaseInv, Whole, Announced, Terminal, Digested
  <1>14. cursor' \in cursor..sent /\ flying' \in BOOLEAN
    BY <1>1
  <1> QED
    BY <1>1, <1>3, <1>5, <1>8, <1>9, <1>10, <1>11, <1>12, <1>13, <1>14, GatewayStep

\* AwaitAcks: all deliveries awaited are made, so that all output is shown.
LEMMA AwaitAcksKeeps ==
  ASSUME Inv, AwaitAcks
  PROVE  Inv'
  <1> USE GatewayTypes
  <1>1. /\ phase = "delivery" /\ left = 0 /\ phase' = "acks" /\ left' = Len(acks)
        /\ UNCHANGED <<call, nodeVars, online>>
        /\ UNCHANGED <<down, up, queue, cursor, kept, acks, flying, failed, result>>
    BY DEF AwaitAcks
  <1>2. UNCHANGED <<call, online, stream, sizes, sent, cut, ended>>
    BY <1>1 DEF nodeVars
  <1>3. Rest(down', down, 0)
    BY <1>1, AllIsRest
  <1>4. OrderInv'
    BY <1>1, <1>3, OrderStays
  <1>5. cursor' \in cursor..sent
    BY <1>1
  <1>6. AckInv'
    <2>1. /\ flying' = flying /\ (flying => acks' # <<>>)
          /\ \A n \in 1..MaxFrames : Ack(n) \in up' => Ack(n) \in up
      BY <1>1 DEF Inv, AckInv
    <2> QED
      BY <1>3, <1>5, <2>1, AckStays
  <1>7. PhaseInv'
    BY <1>1, <1>2 DEF Inv, PhaseInv
  <1>8. OfflineInv' /\ CoverInv'
    BY <1>1, <1>2 DEF Inv, OfflineInv, CoverInv
  <1>9. Whole /\ ~failed => cursor = Len(sizes)
    <2>1. SUFFICES ASSUME Whole, ~failed PROVE cursor = Len(sizes)
      OBVIOUS
    <2>2. \A n \in (cursor + 1)..sent : FALSE
      BY <1>1, <2>1 DEF Inv, AwaitInv
    <2>3. cursor = sent
      BY SMTT(20), <2>2
    <2> QED
      BY <1>1, <2>1, <2>3 DEF Inv, PhaseInv, PaceInv, Whole
  <1>10. AwaitInv' /\ ShownInv'
    BY <1>1, <1>2, <1>9 DEF Inv, AwaitInv, ShownInv, Whole, Announced, Terminal, Digested
  <1>11. ReleaseInv'
    BY <1>1, <1>2 DEF Inv, ReleaseInv, Whole, Announced, Terminal
  <1> QED
    BY <1>1, <1>3, <1>4, <1>5, <1>6, <1>7, <1>8, <1>10, <1>11, GatewayStep

\* Abort: a cancellation joins the requests.
LEMMA AbortKeeps ==
  ASSUME Inv, Abort
  PROVE  Inv'
  <1> USE GatewayTypes
  <1>1. /\ up' = Cancelled
        /\ UNCHANGED <<call, nodeVars, online>>
        /\ UNCHANGED <<down, queue, cursor, kept, acks, flying, failed, phase, left, result>>
        /\ phase = "running"
    BY DEF Abort, gatewayVars
  <1>2. UNCHANGED <<call, online, stream, sizes, sent, cut, ended>>
    BY <1>1 DEF nodeVars
  <1>3. Rest(down', down, 0)
    BY <1>1, AllIsRest
  <1>4. /\ \A n : Ack(n) \in up' <=> Ack(n) \in up
        /\ Request("release") \in up' <=> Request("release") \in up
        /\ up' \subseteq Requests
    BY <1>1, CancelIsNoAck
  <1>5. cursor' \in cursor..sent
    BY <1>1
  <1>6. OrderInv'
    BY <1>1, <1>3, OrderStays
  <1>7. AckInv'
    <2>1. /\ flying' = flying /\ (flying => acks' # <<>>)
          /\ \A n \in 1..MaxFrames : Ack(n) \in up' => Ack(n) \in up
      BY <1>1, <1>4 DEF Inv, AckInv
    <2> QED
      BY <1>3, <1>5, <2>1, AckStays
  <1>8. PhaseInv'
    BY <1>1, <1>2, <1>4 DEF Inv, PhaseInv
  <1>9. OfflineInv' /\ CoverInv'
    BY <1>1, <1>2 DEF Inv, OfflineInv, CoverInv
  <1>10. AwaitInv' /\ ShownInv' /\ ReleaseInv'
    BY <1>1, <1>2 DEF Inv, AwaitInv, ShownInv, ReleaseInv, Whole, Announced, Terminal, Digested
  <1> QED
    BY <1>1, <1>3, <1>4, <1>5, <1>6, <1>7, <1>8, <1>9, <1>10, GatewayStep

\* GiveUp: a call that failed promises nothing.
LEMMA GiveUpKeeps ==
  ASSUME Inv, GiveUp
  PROVE  Inv'
  <1> USE GatewayTypes
  <1>1. /\ phase = "running" /\ phase' = "done" /\ result' = "failed" /\ queue' = <<>> /\ left' = 0
        /\ UNCHANGED <<call, nodeVars, online>>
        /\ UNCHANGED <<down, up, cursor, kept, acks, flying, failed>>
    BY DEF GiveUp, Over
  <1>2. UNCHANGED <<call, online, stream, sizes, sent, cut, ended>>
    BY <1>1 DEF nodeVars
  <1>3. Rest(down', down, 0)
    BY <1>1, AllIsRest
  <1>4. OrderInv'
    BY <1>1, <1>3, OrderStays
  <1>5. cursor' \in cursor..sent
    BY <1>1
  <1>6. AckInv'
    <2>1. /\ flying' = flying /\ (flying => acks' # <<>>)
          /\ \A n \in 1..MaxFrames : Ack(n) \in up' => Ack(n) \in up
      BY <1>1 DEF Inv, AckInv
    <2> QED
      BY <1>3, <1>5, <2>1, AckStays
  <1>7. PhaseInv'
    BY <1>1, <1>2 DEF Inv, PhaseInv
  <1>8. OfflineInv' /\ CoverInv'
    BY <1>1, <1>2 DEF Inv, OfflineInv, CoverInv
  <1>9. AwaitInv' /\ ShownInv' /\ ReleaseInv'
    BY <1>1 DEF AwaitInv, ShownInv, ReleaseInv
  <1>10. queue' \in Seq(Event)
    BY <1>1, EmptySeq
  <1> QED
    BY <1>1, <1>3, <1>4, <1>5, <1>6, <1>7, <1>8, <1>9, <1>10, GatewayStep

\* Release: nothing is left to acknowledge when the release is sent; without a socket nothing is.
LEMMA ReleaseKeeps ==
  ASSUME Inv, Release
  PROVE  Inv'
  <1> USE GatewayTypes
  <1>1. /\ phase = "acks" /\ left = 0
        /\ UNCHANGED <<call, nodeVars, online>>
        /\ UNCHANGED <<down, cursor, kept, acks, flying, failed>>
        /\ \/ /\ online /\ phase' = "releasing" /\ up' = up \cup {Request("release")}
              /\ UNCHANGED <<queue, left, result>>
           \/ /\ ~online /\ phase' = "done" /\ result' \in Outcomes(failed) /\ queue' = <<>> /\ left' = 0
              /\ UNCHANGED up
    BY DEF Release, Over
  <1>2. UNCHANGED <<call, online, stream, sizes, sent, cut, ended>>
    BY <1>1 DEF nodeVars
  <1>3. Rest(down', down, 0)
    BY <1>1, AllIsRest
  <1>4. OrderInv'
    BY <1>1, <1>3, OrderStays
  <1>5. cursor' \in cursor..sent
    BY <1>1
  <1>6. AckInv'
    <2>1. /\ flying' = flying /\ (flying => acks' # <<>>)
          /\ \A n \in 1..MaxFrames : Ack(n) \in up' => Ack(n) \in up
      BY <1>1, RequestsDiffer DEF Inv, AckInv
    <2> QED
      BY <1>3, <1>5, <2>1, AckStays
  <1>7. up' \subseteq Requests
    BY <1>1 DEF Requests
  <1>8. result' \in {"none", "ok", "failed"} /\ left' \in Nat /\ (phase' = "done" => result' # "none")
    BY <1>1 DEF Outcomes, Inv, PhaseInv
  <1>9. queue' \in Seq(Event)
    BY <1>1, EmptySeq
  <1>10. PhaseInv'
    BY <1>1, <1>2, <1>8 DEF Inv, PhaseInv
  <1>11. OfflineInv' /\ CoverInv'
    BY <1>1, <1>2 DEF Inv, OfflineInv, CoverInv
  <1>12. AwaitInv' /\ ShownInv'
    <2>1. Whole /\ ~failed => cursor = Len(sizes)
      BY <1>1 DEF Inv, AwaitInv
    <2>2. (Whole' <=> Whole) /\ (Digested' <=> Digested)
      BY <1>2 DEF Whole, Announced, Digested, Terminal
    <2>3. result' = "ok" => ~failed /\ (Digested /\ ~cut => cursor = Len(sizes))
      <3>1. CASE result' = result
        BY <1>1, <3>1 DEF Inv, PhaseInv
      <3>2. CASE result' \in Outcomes(failed)
        BY <3>2 DEF Outcomes
      <3> QED
        BY <1>1, <3>1, <3>2
    <2>4. AwaitInv'
      BY <1>1, <1>2, <2>1, <2>2 DEF AwaitInv
    <2>5. ShownInv'
      BY <1>1, <1>2, <2>1, <2>2, <2>3 DEF ShownInv
    <2> QED
      BY <2>4, <2>5
  <1>13. ReleaseInv'
    <2>1. CASE online
      <3>1. Whole /\ ~failed => acks = <<>>
        <4>1. Whole /\ ~failed => Len(acks) = 0
          BY <1>1 DEF Inv, ReleaseInv
        <4> QED
          BY <4>1, EmptySeq
      <3>2. \A i \in 1..Len(down) : down[i].kind # "released"
        BY <1>1 DEF Inv, PhaseInv
      <3>3. result' # "ok"
        BY <1>1, <2>1 DEF Inv, PhaseInv
      <3> QED
        BY <1>1, <1>2, <2>1, <3>1, <3>2, <3>3 DEF ReleaseInv, Whole, Announced, Terminal
    <2>2. CASE ~online
      BY <1>1, <1>2, <2>2 DEF Inv, OfflineInv, ReleaseInv, Whole
    <2> QED
      BY <2>1, <2>2
  <1> QED
    BY <1>1, <1>3, <1>4, <1>5, <1>6, <1>7, <1>8, <1>9, <1>10, <1>11, <1>12, <1>13, GatewayStep

\* TakeReceipt: no event is behind the receipt, so that the deliveries to await show all output.
LEMMA TakeReceiptKeeps ==
  ASSUME Inv, TakeReceipt
  PROVE  Inv'
  <1> USE GatewayTypes
  <1>1. /\ down # <<>> /\ Head(down).kind = "receipt" /\ down' = Tail(down)
        /\ UNCHANGED <<call, nodeVars, online>>
        /\ UNCHANGED <<up, queue, cursor, kept, acks, flying, failed, result>>
        /\ \/ phase = "running" /\ phase' = "delivery" /\ left' = Len(queue)
           \/ phase # "running" /\ UNCHANGED <<phase, left>>
    BY DEF TakeReceipt
  <1>2. UNCHANGED <<call, online, stream, sizes, sent, cut, ended>>
    BY <1>1 DEF nodeVars
  <1>3. /\ down' \in Seq(Event \cup Answers) /\ Rest(down', down, 1)
        /\ Head(down) = down[1] /\ 1 \in 1..Len(down)
    BY <1>1, TailIsRest
  <1>a. \A i \in 1..Len(down') : i + 1 \in 1..Len(down) /\ down'[i] = down[i + 1]
    BY <1>3 DEF Rest
  <1>b. ended
    BY <1>1, <1>3 DEF Inv, PhaseInv
  <1>4. OrderInv'
    BY <1>1, <1>3, OrderStays
  <1>5. cursor' \in cursor..sent
    BY <1>1
  <1>6. AckInv'
    <2>1. /\ flying' = flying /\ (flying => acks' # <<>>)
          /\ \A n \in 1..MaxFrames : Ack(n) \in up' => Ack(n) \in up
      BY <1>1 DEF Inv, AckInv
    <2> QED
      BY <1>3, <1>5, <2>1, AckStays
  <1>7. PhaseInv'
    <2>1. \A i \in 1..Len(down') : down'[i].kind = "released" => phase' \in {"releasing", "done"}
      BY <1>1, <1>a DEF Inv, PhaseInv
    <2>2. Request("release") \in up' => phase' \in {"releasing", "done"}
      BY <1>1 DEF Inv, PhaseInv
    <2> QED
      BY <1>1, <1>2, <1>b, <2>1, <2>2 DEF Inv, PhaseInv
  <1>8. OfflineInv'
    BY <1>1, <1>2, <1>3 DEF Inv, OfflineInv
  <1>9. CoverInv'
    BY <1>1 DEF Inv, CoverInv
  <1>10. AwaitInv'
    <2>1. CASE phase = "running"
      <3> SUFFICES ASSUME Whole', ~failed', NEW n \in (cursor + 1)..sent
                   PROVE  \E i \in 1..Len(queue) : Covers(queue[i], n)
        BY <1>1, <1>2, <2>1 DEF AwaitInv
      <3>1. online /\ ~failed /\ ~cut /\ ~Announced
        <4>1. online
          BY <1>1 DEF Inv, OfflineInv
        <4> QED
          BY <1>1, <1>2, <4>1 DEF Whole, Announced, Terminal
      <3>2. \/ \E i \in 1..Len(queue) : Covers(queue[i], n)
            \/ \E i \in 1..Len(down) : IsEvent(down[i]) /\ Covers(down[i], n)
        BY <2>1, <3>1 DEF Inv, CoverInv
      <3>3. ASSUME NEW i \in 1..Len(down), IsEvent(down[i]) PROVE FALSE
        <4>1. i # 1
          BY <1>1, <1>3, <3>3 DEF IsEvent
        <4>2. 1 < i
          BY <4>1
        <4> QED
          BY <1>1, <1>3, <3>1, <3>3, <4>2 DEF Inv, ReceiptInv
      <3> QED
        BY <3>2, <3>3
    <2>2. CASE phase # "running"
      BY <1>1, <1>2, <2>2 DEF Inv, AwaitInv, Whole, Announced, Terminal
    <2> QED
      BY <2>1, <2>2
  <1>11. ShownInv'
    BY <1>1, <1>2 DEF Inv, ShownInv, Whole, Announced, Terminal, Digested
  <1>12. ReleaseInv'
    BY <1>1, <1>2, <1>a DEF Inv, ReleaseInv, Whole, Announced, Terminal
  <1>13. left' \in Nat /\ phase' \in {"running", "delivery", "acks", "releasing", "done"}
    BY <1>1
  <1> QED
    BY <1>1, <1>3, <1>4, <1>5, <1>6, <1>7, <1>8, <1>9, <1>10, <1>11, <1>12, <1>13, GatewayStep

\* TakeReleased: the call returns, and the stream is gone.
LEMMA TakeReleasedKeeps ==
  ASSUME Inv, TakeReleased
  PROVE  Inv'
  <1> USE GatewayTypes
  <1>1. /\ down # <<>> /\ Head(down).kind = "released" /\ down' = Tail(down)
        /\ UNCHANGED <<call, nodeVars, online>>
        /\ UNCHANGED <<up, cursor, kept, acks, flying, failed>>
        /\ \/ /\ phase = "releasing" /\ phase' = "done" /\ result' \in Outcomes(failed)
              /\ queue' = <<>> /\ left' = 0
           \/ phase # "releasing" /\ UNCHANGED <<phase, result, queue, left>>
    BY DEF TakeReleased, Over
  <1>2. UNCHANGED <<call, online, stream, sizes, sent, cut, ended>>
    BY <1>1 DEF nodeVars
  <1>3. /\ down' \in Seq(Event \cup Answers) /\ Rest(down', down, 1)
        /\ Head(down) = down[1] /\ 1 \in 1..Len(down)
    BY <1>1, TailIsRest
  <1>a. \A i \in 1..Len(down') : i + 1 \in 1..Len(down) /\ down'[i] = down[i + 1]
    BY <1>3 DEF Rest
  <1>b. online
    BY <1>1 DEF Inv, OfflineInv
  <1>4. OrderInv'
    BY <1>1, <1>3, OrderStays
  <1>5. cursor' \in cursor..sent
    BY <1>1
  <1>6. AckInv'
    <2>1. /\ flying' = flying /\ (flying => acks' # <<>>)
          /\ \A n \in 1..MaxFrames : Ack(n) \in up' => Ack(n) \in up
      BY <1>1 DEF Inv, AckInv
    <2> QED
      BY <1>3, <1>5, <2>1, AckStays
  <1>c. result' \in {"none", "ok", "failed"} /\ (phase' = "done" <=> result' # "none")
    <2>0. result # "none" <=> phase = "done"
      BY DEF Inv, PhaseInv
    <2>1. CASE phase = "releasing"
      BY <1>1, <2>1 DEF Outcomes
    <2>2. CASE phase # "releasing"
      BY <1>1, <2>0, <2>2
    <2> QED
      BY <2>1, <2>2
  <1>d. queue' \in Seq(Event) /\ left' \in Nat
    <2>1. <<>> \in Seq(Event) /\ queue \in Seq(Event) /\ left \in Nat
      BY EmptySeq
    <2>2. CASE queue' = queue /\ left' = left
      BY <2>1, <2>2
    <2>3. CASE queue' = <<>> /\ left' = 0
      BY <2>1, <2>3
    <2> QED
      BY <1>1, <2>2, <2>3
  <1>7. PhaseInv'
    <2>1. \A i \in 1..Len(down') : down'[i].kind = "released" => phase' \in {"releasing", "done"}
      BY <1>1, <1>a DEF Inv, PhaseInv
    <2>2. \A i \in 1..Len(down') : down'[i].kind = "receipt" => ended'
      BY <1>2, <1>a DEF Inv, PhaseInv
    <2>3. Request("release") \in up' => phase' \in {"releasing", "done"}
      BY <1>1 DEF Inv, PhaseInv
    <2> QED
      BY <1>1, <1>2, <1>c, <2>1, <2>2, <2>3 DEF Inv, PhaseInv
  <1>8. OfflineInv' /\ CoverInv'
    <2>1. OfflineInv'
      BY <1>2, <1>b DEF OfflineInv
    <2>2. CoverInv'
      <3> SUFFICES ASSUME phase' = "running" PROVE FALSE
        BY DEF CoverInv
      <3>1. phase = "running"
        BY <1>1
      <3>2. phase \in {"releasing", "done"}
        BY <1>1, <1>3 DEF Inv, PhaseInv
      <3> QED
        BY <3>1, <3>2
    <2> QED
      BY <2>1, <2>2
  <1>9. AwaitInv'
    <2>1. CASE phase = "releasing"
      BY <1>1, <2>1 DEF AwaitInv
    <2>2. CASE phase # "releasing"
      BY <1>1, <1>2, <2>2 DEF Inv, AwaitInv, Whole, Announced, Terminal
    <2> QED
      BY <2>1, <2>2
  <1>10. ShownInv'
    BY <1>1, <1>2 DEF Inv, AwaitInv, ShownInv, Whole, Announced, Terminal, Digested, Outcomes
  <1>11. ReleaseInv'
    <2>1. CASE phase = "releasing"
      BY <1>1, <1>2, <1>3, <1>b, <2>1 DEF Inv, ReleaseInv, Whole, Announced, Terminal, Outcomes
    <2>2. CASE phase # "releasing"
      BY <1>1, <1>2, <1>a, <2>2 DEF Inv, ReleaseInv, Whole, Announced, Terminal
    <2> QED
      BY <2>1, <2>2
  <1>12. phase' \in {"running", "delivery", "acks", "releasing", "done"}
    BY <1>1
  <1> QED
    BY <1>1, <1>3, <1>4, <1>5, <1>6, <1>7, <1>8, <1>9, <1>10, <1>11, <1>12, <1>c, <1>d, GatewayStep

\* TakeAcked: the answer was the only one, and the next acknowledgement may be sent.
LEMMA TakeAckedKeeps ==
  ASSUME Inv, TakeAcked
  PROVE  Inv'
  <1> USE GatewayTypes
  <1>1. /\ down # <<>> /\ Head(down).kind \in {"acked", "refused"} /\ down' = Tail(down)
        /\ UNCHANGED <<call, nodeVars, online>>
        /\ UNCHANGED <<queue, cursor, kept, phase, result>> /\ flying' = FALSE
        /\ \/ /\ Head(down).kind = "acked" /\ acks' = Tail(acks)
              /\ left' = IF phase = "acks" /\ left > 0 THEN left - 1 ELSE left
              /\ UNCHANGED <<failed, up>>
           \/ /\ Head(down).kind = "refused" /\ acks' = <<>>
              /\ left' = IF phase = "acks" THEN 0 ELSE left
              /\ failed' = TRUE /\ up' = Cancelled
    BY DEF TakeAcked, Fail
  <1>2. UNCHANGED <<call, online, stream, sizes, sent, cut, ended>>
    BY <1>1 DEF nodeVars
  <1>3. /\ down' \in Seq(Event \cup Answers) /\ Rest(down', down, 1)
        /\ Head(down) = down[1] /\ 1 \in 1..Len(down)
    BY <1>1, TailIsRest
  <1>a. \A i \in 1..Len(down') : i + 1 \in 1..Len(down) /\ down'[i] = down[i + 1] /\ i + 1 # 1
    BY <1>3 DEF Rest
  <1>b. /\ flying /\ acks # <<>>
        /\ \A n \in 1..MaxFrames : Ack(n) \notin up
        /\ \A i \in 1..Len(down) : down[i].kind \in {"acked", "refused"} => i = 1
    BY <1>1, <1>3 DEF Inv, AckInv
  <1>c. /\ acks' \in Seq(Nat) /\ \A i \in 1..Len(acks') : acks'[i] \in 1..cursor
    <2>1. CASE acks' = Tail(acks)
      <3>1. Tail(acks) \in Seq(Nat) /\ Rest(Tail(acks), acks, 1)
        BY <1>b, TailIsRest
      <3> QED
        BY <2>1, <3>1 DEF Rest
    <2>2. CASE acks' = <<>>
      <3>1. Len(acks') = 0
        BY <2>2
      <3> QED
        BY <2>2, <3>1, EmptySeq
    <2> QED
      BY <1>1, <2>1, <2>2
  <1>d. /\ \A n : Ack(n) \in up' <=> Ack(n) \in up
        /\ Request("release") \in up' <=> Request("release") \in up
        /\ up' \subseteq Requests
    BY <1>1, CancelIsNoAck
  <1>e. online
    BY <1>1 DEF Inv, OfflineInv
  <1>f. left' \in Nat /\ left' <= left /\ failed' \in BOOLEAN /\ (~failed' => ~failed)
    <2>1. left \in Nat /\ failed \in BOOLEAN
      OBVIOUS
    <2>2. left' \in {left, 0} \/ (left > 0 /\ left' = left - 1)
      BY <1>1
    <2>3. failed' = failed \/ failed' = TRUE
      BY <1>1
    <2> QED
      <3>1. left' \in Nat /\ left' <= left
        BY ONLY <2>1, <2>2
      <3>2. failed' \in BOOLEAN /\ (~failed' => ~failed)
        BY ONLY <2>1, <2>3
      <3> QED
        BY <3>1, <3>2
  <1>4. OrderInv'
    BY <1>1, <1>3, OrderStays
  <1>5. cursor' \in cursor..sent
    BY <1>1
  <1>6. AckInv'
    <2>1. \A n \in 1..MaxFrames : Ack(n) \notin up'
      BY <1>b, <1>d
    <2>2. \A i \in 1..Len(down') : down'[i].kind \notin {"acked", "refused"}
      BY <1>a, <1>b
    <2> QED
      BY <1>1, <2>1, <2>2 DEF AckInv
  <1>7. PhaseInv'
    <2>1. \A i \in 1..Len(down') : down'[i].kind = "released" => phase' \in {"releasing", "done"}
      BY <1>1, <1>a DEF Inv, PhaseInv
    <2>2. \A i \in 1..Len(down') : down'[i].kind = "receipt" => ended'
      BY <1>2, <1>a DEF Inv, PhaseInv
    <2>3. Request("release") \in up' => phase' \in {"releasing", "done"}
      BY <1>1, <1>d DEF Inv, PhaseInv
    <2> QED
      BY <1>1, <1>2, <1>f, <2>1, <2>2, <2>3 DEF Inv, PhaseInv
  <1>8. OfflineInv'
    BY <1>2, <1>e DEF OfflineInv
  <1>9. CoverInv'
    <2> SUFFICES ASSUME online', ~failed', phase' = "running", NEW n \in (cursor' + 1)..sent'
                 PROVE  \/ \E i \in 1..Len(queue') : Covers(queue'[i], n)
                        \/ \E i \in 1..Len(down') : IsEvent(down'[i]) /\ Covers(down'[i], n)
      BY DEF CoverInv
    <2>0. /\ online /\ ~failed /\ phase = "running" /\ n \in (cursor + 1)..sent
          /\ queue' = queue
      BY <1>1, <1>2, <1>f
    <2>1. ASSUME NEW i \in 1..Len(down), IsEvent(down[i]), Covers(down[i], n)
          PROVE  i - 1 \in 1..Len(down') /\ down'[i - 1] = down[i]
      <3>1. i # 1
        BY <1>1, <1>3, <2>1 DEF IsEvent
      <3>2. i - 1 \in 1..Len(down') /\ (i - 1) + 1 = i
        BY <1>3, <3>1 DEF Rest
      <3> QED
        BY <1>a, <3>2
    <2>2. \/ \E i \in 1..Len(queue) : Covers(queue[i], n)
          \/ \E i \in 1..Len(down) : IsEvent(down[i]) /\ Covers(down[i], n)
      BY <2>0 DEF Inv, CoverInv
    <2>3. ASSUME NEW i \in 1..Len(down), IsEvent(down[i]), Covers(down[i], n)
          PROVE  \E k \in 1..Len(down') : IsEvent(down'[k]) /\ Covers(down'[k], n)
      BY <2>1, <2>3
    <2> QED
      BY <2>0, <2>2, <2>3
  <1>10. AwaitInv'
    BY <1>1, <1>2, <1>f DEF Inv, AwaitInv, Whole, Announced, Terminal
  <1>11. ShownInv'
    BY <1>1, <1>2 DEF Inv, ShownInv, Whole, Announced, Terminal, Digested
  <1>12. ReleaseInv'
    <2>1. ASSUME Whole', ~failed' PROVE Whole /\ ~failed /\ acks' = Tail(acks)
      BY <1>1, <1>2, <1>f, <2>1 DEF Whole, Announced, Terminal
    <2>2. ASSUME Whole', ~failed', phase' = "acks" PROVE left' = Len(acks')
      <3>1. left = Len(acks) /\ phase = "acks"
        BY <1>1, <2>1, <2>2 DEF Inv, ReleaseInv
      <3>2. Len(Tail(acks)) = Len(acks) - 1 /\ Len(acks) > 0
        BY <1>b, TailIsRest DEF Rest
      <3>3. Head(down).kind = "acked"
        BY <1>1, <2>2
      <3> QED
        BY <1>1, <2>1, <2>2, <3>1, <3>2, <3>3
    <2>3. ~(Whole' /\ ~failed' /\ phase' = "releasing")
      BY <1>1, <1>b, <2>1 DEF Inv, ReleaseInv
    <2>4. ~(~cut' /\ ~Announced' /\ result' = "ok")
      BY <1>1, <1>2, <1>b DEF Inv, ReleaseInv, Announced, Terminal
    <2> QED
      BY <2>2, <2>3, <2>4 DEF ReleaseInv
  <1>13. flying' \in BOOLEAN /\ queue' \in Seq(Event)
    BY <1>1
  <1> QED
    BY <1>1, <1>3, <1>4, <1>5, <1>6, <1>7, <1>8, <1>9, <1>10, <1>11, <1>12, <1>13, <1>c, <1>d, <1>f,
       GatewayStep

\* Accept: an event passes from the socket to the queue, or the delivery fails.
LEMMA AcceptKeeps ==
  ASSUME Inv, Accept
  PROVE  Inv'
  <1> USE GatewayTypes
  <1>1. /\ down # <<>> /\ IsEvent(Head(down)) /\ down' = Tail(down)
        /\ UNCHANGED <<call, nodeVars, online>>
        /\ UNCHANGED <<cursor, kept, acks, flying, phase, left, result>>
        /\ \/ (phase = "done" \/ failed) /\ UNCHANGED <<queue, failed, up>>
           \/ failed' = TRUE /\ up' = Cancelled /\ UNCHANGED queue
           \/ ~(phase = "done" \/ failed) /\ queue' = Append(queue, Head(down)) /\ UNCHANGED <<failed, up>>
    BY DEF Accept, Fail
  <1>2. UNCHANGED <<call, online, stream, sizes, sent, cut, ended>>
    BY <1>1 DEF nodeVars
  <1>3. /\ down' \in Seq(Event \cup Answers) /\ Rest(down', down, 1)
        /\ Head(down) = down[1] /\ 1 \in 1..Len(down)
    BY <1>1, TailIsRest
  <1>a. \A i \in 1..Len(down') : i + 1 \in 1..Len(down) /\ down'[i] = down[i + 1]
    BY <1>3 DEF Rest
  <1>b. Head(down) \in Event
    BY <1>1, <1>3, ElementOfSeq, Kinds
  <1>d. /\ \A n : Ack(n) \in up' <=> Ack(n) \in up
        /\ Request("release") \in up' <=> Request("release") \in up
        /\ up' \subseteq Requests
    BY <1>1, CancelIsNoAck
  <1>e. online
    BY <1>1 DEF Inv, OfflineInv
  <1>f. failed' \in BOOLEAN /\ (~failed' => ~failed)
    <2>1. failed' = failed \/ failed' = TRUE
      BY <1>1
    <2> QED
      BY <2>1
  <1>5. cursor' \in cursor..sent
    BY <1>1
  <1>6. AckInv'
    <2>1. /\ flying' = flying /\ (flying => acks' # <<>>)
          /\ \A n \in 1..MaxFrames : Ack(n) \in up' => Ack(n) \in up
      BY <1>1, <1>d DEF Inv, AckInv
    <2> QED
      BY <1>3, <1>5, <2>1, AckStays
  <1>8. OfflineInv'
    BY <1>2, <1>e DEF OfflineInv
  <1>9. ShownInv'
    BY <1>1, <1>2 DEF Inv, ShownInv, Whole, Announced, Terminal, Digested
  <1>10. ReleaseInv'
    BY <1>1, <1>2, <1>a, <1>f DEF Inv, ReleaseInv, Whole, Announced, Terminal
  <1>11. /\ \A i \in 1..Len(down') : down'[i].kind = "released" => phase' \in {"releasing", "done"}
         /\ \A i \in 1..Len(down') : down'[i].kind = "receipt" => ended'
         /\ Request("release") \in up' => phase' \in {"releasing", "done"}
    <2>1. \A i \in 1..Len(down') : down'[i].kind = "released" => phase' \in {"releasing", "done"}
      BY <1>1, <1>a DEF Inv, PhaseInv
    <2>2. \A i \in 1..Len(down') : down'[i].kind = "receipt" => ended'
      BY <1>2, <1>a DEF Inv, PhaseInv
    <2>3. Request("release") \in up' => phase' \in {"releasing", "done"}
      BY <1>1, <1>d DEF Inv, PhaseInv
    <2> QED
      BY <2>1, <2>2, <2>3
  <1>12. CASE queue' = queue /\ (phase = "done" \/ failed')
    <2>1. OrderInv'
      BY <1>1, <1>3, <1>12, OrderStays
    <2>2. PhaseInv'
      BY <1>1, <1>2, <1>11, <1>12 DEF Inv, PhaseInv
    <2>3. CoverInv' /\ AwaitInv'
      BY <1>1, <1>12 DEF CoverInv, AwaitInv
    <2> QED
      BY <1>1, <1>3, <1>5, <1>6, <1>8, <1>9, <1>10, <1>12, <1>d, <1>f, <2>1, <2>2, <2>3, GatewayStep
  <1>13. CASE /\ phase # "done" /\ ~failed /\ failed' = failed
              /\ queue' = Append(queue, Head(down))
    <2>1. /\ queue' \in Seq(Event) /\ Len(queue') = Len(queue) + 1
          /\ \A i \in 1..Len(queue) : queue'[i] = queue[i]
          /\ queue'[Len(queue) + 1] = down[1]
      BY <1>3, <1>13, <1>b, AppendProperties
    <2>2. \A i \in 1..Len(queue') : i \in 1..Len(queue) \/ i = Len(queue) + 1
      BY <2>1
    <2>3. Len(queue) + 1 \in 1..Len(queue') /\ \A i \in 1..Len(queue) : i \in 1..Len(queue')
      BY <2>1
    <2>4. cursor < down[1].offset /\ down[1].offset <= sent
      BY <1>1, <1>3 DEF Inv, OrderInv
    <2>5. \A i \in 1..Len(queue) : queue[i].offset < down[1].offset
      BY <1>1, <1>3 DEF Inv, OrderInv
    <2>6. \A j \in 1..Len(down') : IsEvent(down'[j]) => down[1].offset < down'[j].offset
      <3>1. \A a, b \in 1..Len(down) :
              a < b /\ IsEvent(down[a]) /\ IsEvent(down[b]) => down[a].offset < down[b].offset
        BY DEF Inv, OrderInv
      <3>2. \A j \in 1..Len(down') : 1 < j + 1
        OBVIOUS
      <3> QED
        BY <1>1, <1>3, <1>a, <3>1, <3>2
    <2>7. OrderInv'
      <3>1. \A i \in 1..Len(queue') : cursor < queue'[i].offset /\ queue'[i].offset <= sent
        BY <2>1, <2>2, <2>4 DEF Inv, OrderInv
      <3>2. \A i, j \in 1..Len(queue') : i < j => queue'[i].offset < queue'[j].offset
        <4>1. \A i, j \in 1..Len(queue) : i < j => queue[i].offset < queue[j].offset
          BY DEF Inv, OrderInv
        <4>2. ASSUME NEW i \in 1..Len(queue'), NEW j \in 1..Len(queue'), i < j
              PROVE  i \in 1..Len(queue)
          BY <2>1, <4>2
        <4> QED
          BY <2>1, <2>2, <2>5, <4>1, <4>2
      <3>3. /\ \A i \in 1..Len(down') : IsEvent(down'[i]) =>
                 cursor < down'[i].offset /\ down'[i].offset <= sent
        BY <1>a DEF Inv, OrderInv
      <3>4. \A i, j \in 1..Len(down') :
              i < j /\ IsEvent(down'[i]) /\ IsEvent(down'[j]) => down'[i].offset < down'[j].offset
        <4>1. \A a, b \in 1..Len(down) :
                a < b /\ IsEvent(down[a]) /\ IsEvent(down[b]) => down[a].offset < down[b].offset
          BY DEF Inv, OrderInv
        <4>2. \A i, j \in 1..Len(down') : i < j => i + 1 < j + 1
          OBVIOUS
        <4> QED
          BY <1>a, <4>1, <4>2
      <3>5. \A i \in 1..Len(queue'), j \in 1..Len(down') :
              IsEvent(down'[j]) => queue'[i].offset < down'[j].offset
        <4>1. \A i \in 1..Len(queue), j \in 1..Len(down) :
                IsEvent(down[j]) => queue[i].offset < down[j].offset
          BY DEF Inv, OrderInv
        <4> QED
          BY <1>a, <2>1, <2>2, <2>6, <4>1
      <3> QED
        BY <1>1, <1>2, <3>1, <3>2, <3>3, <3>4, <3>5 DEF OrderInv
    <2>8. PhaseInv'
      BY <1>1, <1>2, <1>11, <1>13, <2>1 DEF Inv, PhaseInv
    <2>9. CoverInv'
      <3> SUFFICES ASSUME online', ~failed', phase' = "running", NEW n \in (cursor' + 1)..sent'
                   PROVE  \/ \E i \in 1..Len(queue') : Covers(queue'[i], n)
                          \/ \E i \in 1..Len(down') : IsEvent(down'[i]) /\ Covers(down'[i], n)
        BY DEF CoverInv
      <3>1. online /\ ~failed /\ phase = "running" /\ n \in (cursor + 1)..sent
        BY <1>1, <1>2, <1>f
      <3>2. \/ \E i \in 1..Len(queue) : Covers(queue[i], n)
            \/ \E i \in 1..Len(down) : IsEvent(down[i]) /\ Covers(down[i], n)
        BY <3>1 DEF Inv, CoverInv
      <3>3. ASSUME NEW i \in 1..Len(queue), Covers(queue[i], n)
            PROVE  \E k \in 1..Len(queue') : Covers(queue'[k], n)
        BY <2>1, <2>3, <3>3
      <3>4. ASSUME NEW i \in 1..Len(down), IsEvent(down[i]), Covers(down[i], n)
            PROVE  \/ \E k \in 1..Len(queue') : Covers(queue'[k], n)
                   \/ \E k \in 1..Len(down') : IsEvent(down'[k]) /\ Covers(down'[k], n)
        <4>1. CASE i = 1
          BY <2>1, <2>3, <3>4, <4>1
        <4>2. CASE i # 1
          <5>1. i - 1 \in 1..Len(down') /\ (i - 1) + 1 = i
            BY <1>3, <4>2 DEF Rest
          <5>2. down'[i - 1] = down[i]
            BY <1>a, <5>1
          <5> QED
            BY <3>4, <5>1, <5>2
        <4> QED
          BY <4>1, <4>2
      <3> QED
        BY <3>2, <3>3, <3>4
    <2>10. AwaitInv'
      <3>1. ASSUME Whole', ~failed', phase' = "delivery", NEW n \in (cursor' + 1)..sent'
            PROVE  \E i \in 1..left' : Covers(queue'[i], n)
        <4>1. Whole /\ ~failed /\ phase = "delivery" /\ n \in (cursor + 1)..sent /\ left' = left
          BY <1>1, <1>2, <1>f, <3>1 DEF Whole, Announced, Terminal
        <4>2. PICK i \in 1..left : Covers(queue[i], n)
          BY <4>1 DEF Inv, AwaitInv
        <4>3. i \in 1..Len(queue)
          BY <4>1 DEF Inv, PhaseInv
        <4> QED
          BY <2>1, <4>1, <4>2, <4>3
      <3>2. Whole' /\ ~failed' /\ phase' \in {"acks", "releasing"} => cursor' = Len(sizes')
        BY <1>1, <1>2, <1>f DEF Inv, AwaitInv, Whole, Announced, Terminal
      <3> QED
        BY <3>1, <3>2 DEF AwaitInv
    <2> QED
      BY <1>1, <1>3, <1>5, <1>6, <1>8, <1>9, <1>10, <1>d, <1>f, <2>1, <2>7, <2>8, <2>9, <2>10, GatewayStep
  <1> QED
    BY <1>1, <1>12, <1>13

\* What a step takes from the queue.
LEMMA QueueTaken ==
  ASSUME Inv, queue # <<>>, queue' = Tail(queue), UNCHANGED <<call, nodeVars, online, down, phase, result>>,
         left' = IF phase = "delivery" /\ left > 0 THEN left - 1 ELSE left,
         Request("release") \in up' => Request("release") \in up
  PROVE  /\ queue' \in Seq(Event) /\ Rest(queue', queue, 1) /\ queue[1] = Head(queue)
         /\ queue[1] \in Event /\ 1 \in 1..Len(queue)
         /\ \A i \in 1..Len(queue') : i + 1 \in 1..Len(queue) /\ queue'[i] = queue[i + 1]
         /\ \A i \in 1..Len(queue') : queue[1].offset < queue'[i].offset
         /\ cursor < queue[1].offset /\ queue[1].offset <= sent /\ queue[1].offset \in Nat
         /\ left' \in Nat /\ phase # "done" /\ result = "none" /\ PhaseInv'
  <1> USE GatewayTypes
  <1>1. queue' \in Seq(Event) /\ Rest(queue', queue, 1) /\ queue[1] = Head(queue)
        /\ queue[1] \in Event /\ 1 \in 1..Len(queue)
    BY TailIsRest
  <1>2. /\ \A i \in 1..Len(queue') : i + 1 \in 1..Len(queue) /\ queue'[i] = queue[i + 1]
        /\ Len(queue') = Len(queue) - 1
    BY <1>1 DEF Rest
  <1>3. \A i \in 1..Len(queue') : queue[1].offset < queue'[i].offset
    <2>1. \A i, j \in 1..Len(queue) : i < j => queue[i].offset < queue[j].offset
      BY DEF Inv, OrderInv
    <2>2. \A i \in 1..Len(queue') : 1 < i + 1
      OBVIOUS
    <2> QED
      BY <1>1, <1>2, <2>1, <2>2
  <1>4. cursor < queue[1].offset /\ queue[1].offset <= sent /\ queue[1].offset \in Nat
    BY <1>1, Kinds DEF Inv, OrderInv
  <1>5. phase # "done" /\ result = "none"
    BY DEF Inv, PhaseInv
  <1>6. left' \in Nat /\ (phase = "delivery" => left' <= Len(queue'))
    <2>1. left \in Nat /\ (phase = "delivery" => left <= Len(queue)) /\ Len(queue) \in Nat
      BY DEF Inv, PhaseInv
    <2>2. CASE phase = "delivery" /\ left > 0
      BY <1>2, <2>1, <2>2
    <2>3. CASE ~(phase = "delivery" /\ left > 0)
      <3>1. left' = left /\ Len(queue') \in Nat
        BY <2>3, <1>1 DEF Rest
      <3> QED
        BY <2>1, <2>3, <3>1
    <2> QED
      BY <2>2, <2>3
  <1>7. UNCHANGED <<ended, down, phase, result>>
    BY DEF nodeVars
  <1>8. PhaseInv'
    BY <1>5, <1>6, <1>7 DEF Inv, PhaseInv
  <1> QED
    BY <1>1, <1>2, <1>3, <1>4, <1>5, <1>6, <1>8

\* An event leaves the queue and is not applied.
LEMMA DropKeeps ==
  ASSUME Inv, queue # <<>>, queue' = Tail(queue), UNCHANGED <<call, nodeVars, online>>,
         UNCHANGED <<down, cursor, kept, acks, flying, phase, result>>,
         left' = IF phase = "delivery" /\ left > 0 THEN left - 1 ELSE left,
         \/ failed' = TRUE /\ up' = Cancelled
         \/ failed /\ UNCHANGED <<failed, up>>
  PROVE  Inv'
  <1> USE GatewayTypes
  <1>1. UNCHANGED <<call, online, stream, sizes, sent, cut, ended>>
    BY DEF nodeVars
  <1>2. /\ \A n : Ack(n) \in up' <=> Ack(n) \in up
        /\ Request("release") \in up' <=> Request("release") \in up
        /\ up' \subseteq Requests
    BY CancelIsNoAck
  <1>3. /\ queue' \in Seq(Event) /\ Rest(queue', queue, 1)
        /\ \A i \in 1..Len(queue') : i + 1 \in 1..Len(queue) /\ queue'[i] = queue[i + 1]
        /\ left' \in Nat /\ phase # "done" /\ result = "none" /\ PhaseInv'
    BY <1>2, QueueTaken
  <1>4. Rest(down', down, 0)
    BY AllIsRest
  <1>5. OrderInv'
    <2>1. \A i, j \in 1..Len(queue') : i < j => i + 1 < j + 1
      BY <1>3 DEF Rest
    <2>2. \A i, j \in 1..Len(queue) : i < j => queue[i].offset < queue[j].offset
      BY DEF Inv, OrderInv
    <2>3. \A i, j \in 1..Len(queue') : i < j => queue'[i].offset < queue'[j].offset
      BY <1>3, <2>1, <2>2
    <2> QED
      BY <1>1, <1>3, <2>3 DEF Inv, OrderInv
  <1>6. AckInv'
    <2>1. /\ cursor' \in cursor..sent /\ flying' = flying /\ (flying => acks' # <<>>)
          /\ \A n \in 1..MaxFrames : Ack(n) \in up' => Ack(n) \in up
      BY <1>2 DEF Inv, AckInv
    <2> QED
      BY <1>4, <2>1, AckStays
  <1>7. failed' \in BOOLEAN /\ failed'
    <2>1. CASE failed' = TRUE
      BY <2>1
    <2>2. CASE failed /\ failed' = failed
      BY <2>2
    <2> QED
      BY <2>1, <2>2
  <1>8. OfflineInv'
    <2>1. ~online => UNCHANGED up
      BY DEF Inv, OfflineInv, Cancelled
    <2> QED
      BY <1>1, <2>1 DEF Inv, OfflineInv
  <1>9. CoverInv' /\ AwaitInv' /\ ShownInv'
    BY <1>1, <1>3, <1>7 DEF CoverInv, AwaitInv, ShownInv, Whole
  <1>10. ReleaseInv'
    BY <1>1, <1>3, <1>7 DEF ReleaseInv, Whole
  <1>11. cursor' \in cursor..sent
    OBVIOUS
  <1> QED
    BY <1>2, <1>3, <1>4, <1>5, <1>6, <1>7, <1>8, <1>9, <1>10, <1>11, GatewayStep

\* Refuse: the consumer does not take it.
LEMMA RefuseKeeps ==
  ASSUME Inv, Refuse
  PROVE  Inv'
  BY DropKeeps DEF Refuse, Fail

\* Deliver: the next event moves the cursor to its own offset, ahead of all that follow.
LEMMA DeliverKeeps ==
  ASSUME Inv, Deliver
  PROVE  Inv'
  <1> USE GatewayTypes
  <1> DEFINE m == Head(queue)
  <1>1. /\ queue # <<>> /\ queue' = Tail(queue)
        /\ left' = IF phase = "delivery" /\ left > 0 THEN left - 1 ELSE left
        /\ UNCHANGED <<call, nodeVars, online, down, flying, phase, result>>
        /\ \/ failed /\ UNCHANGED <<cursor, kept, acks, failed, up>>
           \/ ~failed /\ online /\ Apply(m)
           \/ ~failed /\ ~online /\ failed' = TRUE /\ up' = Cancelled /\ UNCHANGED <<cursor, kept, acks>>
    BY DEF Deliver, Fail
  <1>2. CASE failed \/ ~online
    BY <1>1, <1>2, DropKeeps
  <1>3. CASE ~(failed \/ ~online)
    <2>1. up' = up \/ up' = Cancelled
      BY <1>1, <1>3 DEF Apply, Fail
    <2>2. /\ \A n : Ack(n) \in up' <=> Ack(n) \in up
          /\ Request("release") \in up' <=> Request("release") \in up
          /\ up' \subseteq Requests
      BY <2>1, CancelIsNoAck
    <2>3. /\ queue' \in Seq(Event) /\ Rest(queue', queue, 1) /\ queue[1] = m
          /\ queue[1] \in Event /\ 1 \in 1..Len(queue)
          /\ \A i \in 1..Len(queue') : i + 1 \in 1..Len(queue) /\ queue'[i] = queue[i + 1]
          /\ \A i \in 1..Len(queue') : queue[1].offset < queue'[i].offset
          /\ cursor < queue[1].offset /\ queue[1].offset <= sent /\ queue[1].offset \in Nat
          /\ left' \in Nat /\ phase # "done" /\ result = "none" /\ PhaseInv'
      BY <1>1, <2>2, QueueTaken
    <2> HIDE DEF m
    <2>4. CASE failed' = TRUE /\ up' = Cancelled /\ UNCHANGED <<cursor, kept, acks>>
      BY <1>1, <2>4, DropKeeps
    <2>5. CASE /\ cursor' = m.offset /\ acks' = Append(acks, m.offset) /\ UNCHANGED <<failed, up>>
               /\ kept' \in {kept, kept + 1}
               /\ (m.kind = "frame" /\ m.offset = cursor + 1) \/ m.kind = "reset"
      <3>1. UNCHANGED <<call, online, stream, sizes, sent, cut, ended>>
        BY <1>1 DEF nodeVars
      <3>2. /\ cursor' \in cursor..sent /\ cursor' \in 1..sent /\ cursor' = queue[1].offset
            /\ cursor < cursor' /\ cursor' \in Nat
        BY <2>3, <2>5
      <3>3. /\ acks' \in Seq(Nat) /\ acks' # <<>>
            /\ \A i \in 1..Len(acks') : acks'[i] \in 1..cursor'
        <4>1. /\ acks' \in Seq(Nat) /\ Len(acks') = Len(acks) + 1
              /\ \A i \in 1..Len(acks) : acks'[i] = acks[i]
              /\ acks'[Len(acks) + 1] = cursor'
          BY <2>3, <2>5, <3>2, AppendProperties
        <4>2. Len(acks') # 0
          BY <4>1
        <4>3. \A i \in 1..Len(acks') : i \in 1..Len(acks) \/ i = Len(acks) + 1
          BY <4>1
        <4>4. acks' # <<>>
          BY <4>2, EmptySeq
        <4>5. \A i \in 1..Len(acks) : acks'[i] \in 1..cursor'
          <5> TAKE i \in 1..Len(acks)
          <5>1. acks[i] \in 1..cursor /\ acks'[i] = acks[i] /\ cursor \in Nat
            BY <4>1
          <5>2. cursor' \in Nat /\ cursor < cursor'
            BY <3>2
          <5>3. acks[i] \in 1..cursor'
            BY ONLY <5>1, <5>2
          <5> QED
            BY <5>1, <5>3
        <4>6. cursor' \in 1..cursor'
          BY <3>2
        <4> QED
          BY <4>1, <4>3, <4>4, <4>5, <4>6
      <3>4. Rest(down', down, 0)
        BY <1>1, AllIsRest
      <3>5. \A i \in 1..Len(down) : IsEvent(down[i]) => cursor' < down[i].offset
        BY <2>3, <3>2 DEF Inv, OrderInv
      <3>6. OrderInv'
        <4>1. \A i \in 1..Len(queue') : cursor' < queue'[i].offset /\ queue'[i].offset <= sent
          BY <2>3, <3>2 DEF Inv, OrderInv
        <4>2. \A i, j \in 1..Len(queue') : i < j => i + 1 < j + 1
          BY <2>3 DEF Rest
        <4>3. \A i, j \in 1..Len(queue) : i < j => queue[i].offset < queue[j].offset
          BY DEF Inv, OrderInv
        <4>4. \A i, j \in 1..Len(queue') : i < j => queue'[i].offset < queue'[j].offset
          BY <2>3, <4>2, <4>3
        <4>5. \A i \in 1..Len(down') : IsEvent(down'[i]) =>
                cursor' < down'[i].offset /\ down'[i].offset <= sent'
          BY <1>1, <3>1, <3>5 DEF Inv, OrderInv
        <4>6. \A i, j \in 1..Len(down') :
                i < j /\ IsEvent(down'[i]) /\ IsEvent(down'[j]) => down'[i].offset < down'[j].offset
          BY <1>1 DEF Inv, OrderInv
        <4>7. \A i \in 1..Len(queue'), j \in 1..Len(down') :
                IsEvent(down'[j]) => queue'[i].offset < down'[j].offset
          BY <1>1, <2>3 DEF Inv, OrderInv
        <4> QED
          BY <3>1, <4>1, <4>4, <4>5, <4>6, <4>7 DEF OrderInv
      <3>7. AckInv'
        <4>1. /\ flying' = flying /\ (flying => acks' # <<>>)
              /\ \A n \in 1..MaxFrames : Ack(n) \in up' => Ack(n) \in up
          BY <1>1, <2>5, <3>3
        <4> QED
          BY <3>2, <3>4, <4>1, AckStays
      <3>8. OfflineInv'
        BY <1>3, <3>1 DEF OfflineInv
      <3>9. \A n \in (cursor' + 1)..sent : n \in (cursor + 1)..sent /\ ~Covers(queue[1], n)
        BY SMTT(20), <2>3, <2>5, <3>2 DEF Covers
      <3>10. \A i \in 1..Len(queue) : i # 1 => i - 1 \in 1..Len(queue') /\ queue'[i - 1] = queue[i]
        <4> TAKE i \in 1..Len(queue)
        <4> HAVE i # 1
        <4>1. i - 1 \in 1..Len(queue') /\ (i - 1) + 1 = i
          BY <2>3 DEF Rest
        <4> QED
          BY <2>3, <4>1
      <3>11. CoverInv'
        <4> SUFFICES ASSUME online', ~failed', phase' = "running", NEW n \in (cursor' + 1)..sent'
                     PROVE  \/ \E i \in 1..Len(queue') : Covers(queue'[i], n)
                            \/ \E i \in 1..Len(down') : IsEvent(down'[i]) /\ Covers(down'[i], n)
          BY DEF CoverInv
        <4>1. online /\ ~failed /\ phase = "running" /\ down' = down
          BY <1>1, <1>3
        <4>2. n \in (cursor + 1)..sent /\ ~Covers(queue[1], n)
          BY <3>1, <3>9
        <4>3. \/ \E i \in 1..Len(queue) : Covers(queue[i], n)
              \/ \E i \in 1..Len(down) : IsEvent(down[i]) /\ Covers(down[i], n)
          BY <4>1, <4>2 DEF Inv, CoverInv
        <4>4. ASSUME NEW i \in 1..Len(queue), Covers(queue[i], n)
              PROVE  \E k \in 1..Len(queue') : Covers(queue'[k], n)
          <5>1. i # 1
            BY <4>2, <4>4
          <5> QED
            BY <3>10, <4>4, <5>1
        <4> QED
          BY <4>1, <4>3, <4>4
      <3>12. Whole /\ ~failed => phase \notin {"acks", "releasing"}
        <4> SUFFICES ASSUME Whole, ~failed, phase \in {"acks", "releasing"} PROVE FALSE
          OBVIOUS
        <4>1. cursor = Len(sizes)
          BY DEF Inv, AwaitInv
        <4> QED
          BY <2>3, <4>1
      <3>13. Whole' /\ ~failed' => Whole /\ ~failed
        BY <1>3, <3>1 DEF Whole, Announced, Terminal
      <3>14. AwaitInv'
        <4>1. ASSUME Whole', ~failed', phase' = "delivery", NEW n \in (cursor' + 1)..sent'
              PROVE  \E i \in 1..left' : Covers(queue'[i], n)
          <5>1. Whole /\ ~failed /\ phase = "delivery"
            BY <1>1, <3>13, <4>1
          <5>2. n \in (cursor + 1)..sent /\ ~Covers(queue[1], n)
            BY <3>1, <3>9, <4>1
          <5>3. PICK i \in 1..left : Covers(queue[i], n)
            BY <5>1, <5>2 DEF Inv, AwaitInv
          <5>4. i \in 1..Len(queue) /\ i # 1
            BY <5>1, <5>2, <5>3 DEF Inv, PhaseInv
          <5>5. i - 1 \in 1..left'
            BY <1>1, <5>1, <5>3, <5>4
          <5> QED
            BY <3>10, <5>3, <5>4, <5>5
        <4> QED
          BY <1>1, <3>12, <3>13, <4>1 DEF AwaitInv
      <3>15. ShownInv' /\ ReleaseInv'
        <4>1. result' = "none"
          BY <1>1, <2>3
        <4> QED
          BY <1>1, <3>12, <3>13, <4>1 DEF ShownInv, ReleaseInv
      <3>17. kept' \in 0..cursor'
        <4>1. kept \in 0..cursor /\ cursor \in Nat /\ cursor' \in Nat /\ cursor < cursor'
          BY <3>2
        <4>2. kept' = kept \/ kept' = kept + 1
          BY <2>5
        <4> QED
          BY ONLY <4>1, <4>2
      <3>16. /\ flying' \in BOOLEAN /\ failed' \in BOOLEAN /\ down' \in Seq(Event \cup Answers)
             /\ phase' \in {"running", "delivery", "acks", "releasing", "done"}
             /\ result' \in {"none", "ok", "failed"} /\ UNCHANGED <<call, nodeVars, online>>
        BY <1>1, <2>5
      <3> QED
        BY <2>2, <2>3, <3>2, <3>3, <3>4, <3>6, <3>7, <3>8, <3>11, <3>14, <3>15, <3>16, <3>17,
           GatewayStep
    <2>6. ~(m.offset <= cursor)
      BY <2>3
    <2> QED
      BY <1>1, <1>3, <2>4, <2>5, <2>6 DEF Apply, Fail, Keep
  <1> QED
    BY <1>2, <1>3

\* Close: what was on its way is lost, and nothing is promised of it.
LEMMA CloseKeeps ==
  ASSUME Inv, Close
  PROVE  Inv'
  <1> USE NodeTypes, GatewayTypes
  <1>1. /\ online /\ online' = FALSE /\ cut' = (cut \/ ~ended) /\ ended' = TRUE
        /\ waiting' = [w \in Pipe |-> 0] /\ stream' = "none" /\ flush' = FALSE
        /\ down' = <<>> /\ up' = {} /\ acks' = <<>> /\ flying' = FALSE
        /\ failed' = (failed \/ acks # <<>>)
        /\ UNCHANGED <<call, sizes, first, sent, acked, credit, stalls, cursor, kept>>
    BY DEF Close
  <1>2. \/ /\ phase \in {"running", "releasing"} /\ phase' = "done" /\ queue' = <<>> /\ left' = 0
           /\ result' \in {"ok", "failed"} /\ (phase = "running" => result' = "failed")
           /\ (phase = "releasing" => result' \in Outcomes(failed'))
        \/ /\ phase \in {"delivery", "acks", "done"} /\ UNCHANGED <<phase, result>>
           /\ \/ left' = (IF phase = "acks" THEN 0 ELSE left) /\ UNCHANGED queue
              \/ /\ ~Terminal /\ queue # <<>> /\ queue' = Tail(queue)
                 /\ left' = IF phase = "acks" \/ left = 0 THEN 0 ELSE left - 1
    BY DEF Close, Over, Outcomes
  <1>3. /\ down' \in Seq(Event \cup Answers) /\ acks' \in Seq(Nat) /\ Len(down') = 0 /\ Len(acks') = 0
        /\ Len(down') = 0 /\ DOMAIN down' = {} /\ DOMAIN acks' = {}
    BY <1>1
  <1>4. queue' \in Seq(Event) /\ \E d \in {0, 1} :
          \A i \in 1..Len(queue') : i + d \in 1..Len(queue) /\ queue'[i] = queue[i + d]
    <2>1. CASE queue' = <<>>
      <3>1. Len(queue') = 0 /\ queue' \in Seq(Event)
        BY <2>1, EmptySeq
      <3> QED
        BY <3>1
    <2>2. CASE queue' = queue
      <3>1. queue' \in Seq(Event) /\ \A i \in 1..Len(queue') : i + 0 \in 1..Len(queue) /\ queue'[i] = queue[i + 0]
        BY <2>2
      <3> QED
        BY <3>1
    <2>3. CASE queue # <<>> /\ queue' = Tail(queue)
      <3>1. queue' \in Seq(Event) /\ Rest(queue', queue, 1)
        BY <2>3, TailIsRest
      <3> QED
        BY <3>1 DEF Rest
    <2> QED
      BY <1>2, <2>1, <2>2, <2>3
  <1>5. PICK d \in {0, 1} :
          \A i \in 1..Len(queue') : i + d \in 1..Len(queue) /\ queue'[i] = queue[i + d]
    BY <1>4
  <1>6. /\ phase' \in {"running", "delivery", "acks", "releasing", "done"}
        /\ result' \in {"none", "ok", "failed"} /\ left' \in Nat /\ failed' \in BOOLEAN
        /\ cut' \in BOOLEAN
    <2>1. failed' \in BOOLEAN /\ cut' \in BOOLEAN
      BY <1>1
    <2>2. phase' \in {"running", "delivery", "acks", "releasing", "done"}
      <3>1. phase' = phase \/ phase' = "done"
        BY <1>2
      <3> QED
        BY <3>1
    <2>3. result' \in {"none", "ok", "failed"}
      <3>1. result' = result \/ result' \in {"ok", "failed"}
        BY <1>2
      <3> QED
        BY <3>1
    <2>4. left' \in Nat
      <3>1. left \in Nat /\ (left' = left \/ left' = 0 \/ (left # 0 /\ left' = left - 1))
        BY <1>2
      <3> QED
        BY ONLY <3>1
    <2> QED
      BY <2>1, <2>2, <2>3, <2>4
  <1>7. TypeOK'
    <2>1. \A i \in DOMAIN queue' : queue'[i] \in Event
      BY <1>4, ElementOfSeq, LenProperties
    <2>2. sizes \in Seq(call.sizes)
      BY DEF Sizes
    <2>3. waiting' \in [Pipe -> 0..Len(sizes)]
      BY <1>1
    <2>4. /\ call' \in Calls /\ stream' \in {"none", "live", "fresh"}
          /\ sizes' \in Seq(Sizes') /\ Len(sizes') <= MaxFrames /\ first' \in 1..(Len(sizes') + 1)
          /\ sent' \in 0..Len(sizes') /\ acked' \in 0..sent' /\ DOMAIN credit' \subseteq 1..sent'
          /\ waiting' \in [Pipe -> 0..Len(sizes')] /\ cursor' \in 0..Len(sizes')
          /\ kept' \in 0..cursor'
      BY <1>1, <2>2, <2>3 DEF Sizes
    <2>5. /\ flush' \in BOOLEAN /\ stalls' \in 0..MaxStalls /\ ended' \in BOOLEAN
          /\ online' \in BOOLEAN /\ up' \subseteq Requests /\ flying' \in BOOLEAN
      BY <1>1
    <2> QED
      BY <1>3, <1>6, <2>1, <2>4, <2>5 DEF TypeOK
  <1>8. Shape' /\ acked' <= cursor' /\ cursor' <= sent'
    BY <1>1, <1>3, <1>4 DEF Shape
  <1>9. OrderInv'
    <2>1. \A i \in 1..Len(queue') : cursor < queue'[i].offset /\ queue'[i].offset <= sent
      BY <1>5 DEF Inv, OrderInv
    <2>2. \A i, j \in 1..Len(queue') : i < j => queue'[i].offset < queue'[j].offset
      <3>1. \A i, j \in 1..Len(queue) : i < j => queue[i].offset < queue[j].offset
        BY DEF Inv, OrderInv
      <3>2. \A i, j \in 1..Len(queue') : i < j => i + d < j + d
        BY <1>5
      <3> QED
        BY <1>5, <3>1, <3>2
    <2> QED
      BY <1>1, <1>3, <2>1, <2>2 DEF OrderInv
  <1>10. AckInv'
    BY <1>1, <1>3 DEF AckInv
  <1>11. PhaseInv'
    <2>1. result # "none" <=> phase = "done"
      BY DEF Inv, PhaseInv
    <2>2. phase = "done" => queue = <<>>
      BY DEF Inv, PhaseInv
    <2>3. phase = "delivery" => left <= Len(queue)
      BY DEF Inv, PhaseInv
    <2>4. result' # "none" <=> phase' = "done"
      BY <1>2, <2>1
    <2>5. (phase' = "done" => queue' = <<>>) /\ (phase' = "delivery" => left' <= Len(queue'))
      BY <1>2, <2>2, <2>3
    <2> QED
      BY <1>1, <1>3, <2>4, <2>5 DEF PhaseInv
  <1>12. OfflineInv' /\ CoverInv' /\ ReceiptInv'
    <2>1. phase' # "running"
      BY <1>2
    <2> QED
      BY <1>1, <1>3, <2>1 DEF OfflineInv, CoverInv, ReceiptInv
  <1>a. /\ Whole' => Whole /\ Terminal
        /\ (Digested' <=> Digested) /\ (~cut' => ~cut) /\ (~failed' => ~failed)
    BY <1>1 DEF Whole, Announced, Digested, Terminal
  <1>15. AwaitInv'
    <2>1. ASSUME Whole', ~failed', phase' = "delivery", NEW n \in (cursor + 1)..sent
          PROVE  \E i \in 1..left' : Covers(queue'[i], n)
      <3>1. Whole /\ ~failed /\ phase = "delivery" /\ left' = left /\ queue' = queue
        BY <1>2, <1>a, <2>1
      <3> QED
        BY <2>1, <3>1 DEF Inv, AwaitInv
    <2>2. ASSUME Whole', ~failed', phase' \in {"acks", "releasing"} PROVE cursor = Len(sizes)
      BY <1>2, <1>a, <2>2 DEF Inv, AwaitInv
    <2> QED
      BY <1>1, <2>1, <2>2 DEF AwaitInv
  <1>16. ShownInv'
    <2> SUFFICES ASSUME Whole' \/ (Digested' /\ ~cut'), result' = "ok"
                 PROVE  cursor = Len(sizes)
      BY <1>1 DEF ShownInv
    <2>1. CASE result = "ok"
      BY <1>a, <2>1 DEF Inv, ShownInv
    <2>2. CASE phase = "releasing" /\ result' \in Outcomes(failed')
      <3>1. ~failed' /\ (Digested /\ ~cut => kept = Len(sizes))
        BY <2>2 DEF Outcomes
      <3>2. Whole /\ ~failed => cursor = Len(sizes)
        BY <2>2 DEF Inv, AwaitInv
      <3>3. kept = Len(sizes) => cursor = Len(sizes)
        OBVIOUS
      <3> QED
        BY <1>a, <3>1, <3>2, <3>3
    <2> QED
      BY <1>2, <2>1, <2>2
  <1>13. PaceInv'
    <2> SUFFICES ASSUME ~cut' PROVE PaceInv'
      BY DEF PaceInv
    <2>1. ~cut /\ ended
      BY <1>1
    <2>2. ~Announced => sent = Len(sizes)
      BY <2>1 DEF Inv, PaceInv
    <2>3. \A n \in (sent + 1)..Len(sizes) : Terminal /\ n = 1
      <3>1. CASE sent = Len(sizes)
        BY <3>1
      <3>2. CASE sent # Len(sizes)
        BY <2>2, <3>2 DEF Announced
      <3> QED
        BY <3>1, <3>2
    <2> QED
      BY <1>1, <2>2, <2>3 DEF PaceInv, Announced, Terminal
  <1>14. ReleaseInv'
    BY <1>1, <1>2, <1>3 DEF ReleaseInv
  <1> QED
    BY <1>7, <1>8, <1>9, <1>10, <1>11, <1>12, <1>13, <1>14, <1>15, <1>16 DEF Inv

-----------------------------------------------------------------------------
(* What always holds *)

\* The invariant holds at the start, ...
LEMMA InitInv == Init => Inv
  <1> SUFFICES ASSUME Init PROVE Inv
    OBVIOUS
  <1>1. /\ call \in Calls /\ stream = "live" /\ sizes = <<>> /\ first = 1 /\ sent = 0 /\ acked = 0
        /\ credit = <<>> /\ waiting = [w \in Pipe |-> 0] /\ flush = FALSE /\ stalls = 0
        /\ cut = FALSE /\ ended = FALSE /\ online = TRUE /\ down = <<>> /\ up = {} /\ queue = <<>>
        /\ cursor = 0 /\ kept = 0 /\ acks = <<>> /\ flying = FALSE /\ failed = FALSE
        /\ phase = "running" /\ left = 0 /\ result = "none"
    BY DEF Init
  <1>2. Len(sizes) = 0 /\ Len(down) = 0 /\ Len(queue) = 0 /\ Len(acks) = 0
    BY <1>1
  <1>3. /\ DOMAIN down = {} /\ DOMAIN queue = {} /\ DOMAIN acks = {} /\ DOMAIN credit = {}
    BY <1>1
  <1>4. sizes \in Seq(Sizes) /\ Shape
    BY <1>1, EmptySeq DEF Shape
  <1>5. TypeOK
    <2>1. MaxFrames \in Nat /\ MaxStalls \in Nat
      BY StreamAssumption
    <2>2. waiting \in [Pipe -> 0..Len(sizes)]
      BY <1>1, <1>2
    <2>3. /\ call \in Calls /\ Len(sizes) <= MaxFrames /\ first \in 1..(Len(sizes) + 1)
          /\ sent \in 0..Len(sizes) /\ acked \in 0..sent /\ DOMAIN credit \subseteq 1..sent
          /\ cursor \in 0..Len(sizes) /\ kept \in 0..cursor /\ stalls \in 0..MaxStalls /\ left \in Nat
      BY <1>1, <1>2, <1>3, <2>1
    <2>4. /\ stream \in {"none", "live", "fresh"} /\ up \subseteq Requests
          /\ flush \in BOOLEAN /\ cut \in BOOLEAN /\ ended \in BOOLEAN /\ online \in BOOLEAN
          /\ flying \in BOOLEAN /\ failed \in BOOLEAN
          /\ phase \in {"running", "delivery", "acks", "releasing", "done"}
          /\ result \in {"none", "ok", "failed"}
      BY <1>1
    <2> QED
      BY <1>3, <1>4, <2>2, <2>3, <2>4 DEF TypeOK
  <1>6. OrderInv /\ AckInv /\ PhaseInv /\ OfflineInv /\ PaceInv
    BY <1>1, <1>2 DEF OrderInv, AckInv, PhaseInv, OfflineInv, PaceInv
  <1>7. CoverInv /\ ReceiptInv /\ AwaitInv /\ ShownInv /\ ReleaseInv
    BY <1>1, <1>2 DEF CoverInv, ReceiptInv, AwaitInv, ShownInv, ReleaseInv
  <1> QED
    BY <1>1, <1>4, <1>5, <1>6, <1>7 DEF Inv

\* ... and every step keeps it.
LEMMA NextInv == Inv /\ [Next]_vars => Inv'
  <1> SUFFICES ASSUME Inv, [Next]_vars PROVE Inv'
    OBVIOUS
  <1>1. CASE Start
    BY <1>1, StartKeeps
  <1>2. CASE \E w \in Writers : Output(w)
    BY <1>2, OutputKeeps
  <1>3. CASE End
    BY <1>3, EndKeeps
  <1>4. CASE Node
    BY <1>4, FlushKeeps, HandleCancelKeeps, HandleAckKeeps, RefuseAckKeeps, HandleReleaseKeeps DEF Node
  <1>5. CASE Gateway
    BY <1>5, AcceptKeeps, DeliverKeeps, SendAckKeeps, TakeAckedKeeps, TakeReceiptKeeps, AwaitAcksKeeps,
       ReleaseKeeps, TakeReleasedKeeps DEF Gateway
  <1>6. CASE Abort \/ Refuse \/ Timeout \/ GiveUp \/ Prune \/ Close
    BY <1>6, AbortKeeps, RefuseKeeps, TimeoutKeeps, GiveUpKeeps, PruneKeeps, CloseKeeps
  <1>7. CASE UNCHANGED vars
    <2>1. UNCHANGED <<call, stream, sizes, first, sent, acked, credit, waiting, flush, stalls, cut, ended,
                      online, down, up, queue, cursor, kept, acks, flying, failed, phase, left, result>>
      BY <1>7 DEF vars, nodeVars, gatewayVars
    <2>2. TypeOK' /\ Shape'
      BY <2>1 DEF Inv, TypeOK, Sizes, Shape
    <2>3. OrderInv' /\ AckInv' /\ PhaseInv' /\ OfflineInv' /\ ReceiptInv'
      BY <2>1 DEF Inv, OrderInv, AckInv, PhaseInv, OfflineInv, ReceiptInv, Announced, Terminal
    <2>4. PaceInv' /\ CoverInv' /\ AwaitInv' /\ ShownInv' /\ ReleaseInv'
      BY <2>1 DEF Inv, PaceInv, CoverInv, AwaitInv, ShownInv, ReleaseInv, Whole, Announced, Terminal,
         Digested
    <2> QED
      BY <2>1, <2>2, <2>3, <2>4 DEF Inv
  <1> QED
    BY <1>1, <1>2, <1>3, <1>4, <1>5, <1>6, <1>7 DEF Next, Finished

\* The inductive invariant holds always: agent.ts, replay.ts and fleet/node-link.ts keep the output in
\* order, its frames paced by the writers and the acknowledgements one at a time.
THEOREM StreamInvariant == Spec => []Inv
  BY InitInv, NextInv, PTL DEF Spec

\* What the node has had acknowledged (source.acknowledged) the consumer has taken
\* (candidate.cursor), and the consumer has nothing that was not sent.
THEOREM AckedIsAppliedAlways == Spec => []AckedIsApplied
  <1>1. Inv => AckedIsApplied
    BY DEF Inv, AckedIsApplied
  <1> QED
    BY <1>1, StreamInvariant, PTL

\* An invocation that ends well has given its caller all of the output, unless the process was told to
\* stop: what accepted output a closed socket leaves unshown fails it, but for a process without a
\* terminal whose receipt holds the output (invokeUnqueued, the digests of fleet/node-link.ts).
THEOREM OutputIsWhole == Spec => []NothingTruncated
  <1>1. Inv => NothingTruncated
    <2> SUFFICES ASSUME Inv, result = "ok", ~cut, online \/ Terminal \/ call.large
                 PROVE  Pieces(cursor) = Pieces(Len(sizes))
      BY DEF NothingTruncated
    <2> USE NodeTypes
    <2>1. CASE Announced
      BY <2>1 DEF Announced, Pieces
    <2>2. CASE ~Announced
      BY <2>2 DEF Inv, ShownInv, Whole, Digested
    <2> QED
      BY <2>1, <2>2
  <1> QED
    BY <1>1, StreamInvariant, PTL

\* After an invocation that ended well the node keeps no stream of it, and no acknowledgement is left
\* that would make one anew.
THEOREM ReleasedForGoodAlways == Spec => []ReleasedForGood
  <1>1. Inv => ReleasedForGood
    <2> SUFFICES ASSUME Inv, result = "ok", ~cut, Terminal => Len(sizes) > 1
                 PROVE  stream = "none" /\ acks = <<>>
      BY DEF ReleasedForGood
    <2>1. ~Announced
      BY NodeTypes DEF Announced
    <2> QED
      BY <2>1 DEF Inv, ReleaseInv
  <1> QED
    BY <1>1, StreamInvariant, PTL

-----------------------------------------------------------------------------
(* The promise to the caller *)

\* What the caller can tell of the state.
LEMMA PiecesGrow ==
  ASSUME NEW a \in Nat, NEW b \in Nat, a <= b
  PROVE  /\ Pieces(a) \in Nat /\ Pieces(b) \in Nat /\ Pieces(a) <= Pieces(b)
         /\ b = a + 1 => Pieces(b) \in {Pieces(a), Pieces(a) + 1}
         /\ b = a + 1 /\ (Terminal => a > 0) => Pieces(b) = Pieces(a) + 1
  BY DEF Pieces

\* Steps that neither output, show nor return anything.
LEMMA Silent ==
  ASSUME UNCHANGED <<call, sizes, cut, online, cursor, result>>
  PROVE  UNCHANGED Promise!vars
  BY DEF Promise!vars, Pieces, Terminal, Snapshots

\* A step that moves the cursor of the consumer.
LEMMA Shows ==
  ASSUME Inv, Inv', UNCHANGED <<call, sizes, cut, online, result>>, result = "none",
         \/ cursor' = cursor + 1
         \/ Snapshots /\ cursor < cursor'
  PROVE  [Promise!Next]_(Promise!vars)
  <1> USE GatewayTypes
  <1>1. /\ cursor \in Nat /\ cursor' \in Nat /\ cursor < cursor' /\ cursor' <= Len(sizes)
        /\ Len(sizes) \in Nat
    <2>1. cursor' \in 0..Len(sizes)
      BY DEF Inv, TypeOK
    <2> QED
      BY <2>1
  <1>2. /\ Pieces(cursor)' = Pieces(cursor') /\ Pieces(Len(sizes))' = Pieces(Len(sizes))
        /\ Snapshots' = Snapshots
    BY DEF Pieces, Terminal, Snapshots
  <1>3. /\ Pieces(cursor) \in Nat /\ Pieces(cursor') \in Nat /\ Pieces(Len(sizes)) \in Nat
        /\ Pieces(cursor) <= Pieces(cursor') /\ Pieces(cursor') <= Pieces(Len(sizes))
        /\ cursor' = cursor + 1 => Pieces(cursor') \in {Pieces(cursor), Pieces(cursor) + 1}
    BY <1>1, PiecesGrow
  <1>4. CASE Pieces(cursor') = Pieces(cursor)
    BY <1>2, <1>4 DEF Promise!vars
  <1>5. CASE Pieces(cursor') # Pieces(cursor) /\ cursor' = cursor + 1
    <2>1. Pieces(cursor') = Pieces(cursor) + 1 /\ Pieces(cursor) < Pieces(Len(sizes))
      BY SMTT(20), <1>3, <1>5
    <2>2. Promise!Show
      BY <1>2, <2>1 DEF Promise!Show
    <2> QED
      BY <2>2 DEF Promise!Next
  <1>6. CASE Pieces(cursor') # Pieces(cursor) /\ Snapshots
    <2>1. Pieces(cursor') \in (Pieces(cursor) + 1)..Pieces(Len(sizes))
      BY SMTT(20), <1>3, <1>6
    <2>2. Promise!Replace
      BY <1>2, <1>6, <2>1 DEF Promise!Replace
    <2> QED
      BY <2>2 DEF Promise!Next
  <1> QED
    BY <1>4, <1>5, <1>6

\* A step that returns to the caller.
LEMMA Returns ==
  ASSUME UNCHANGED <<call, sizes, cursor>>, result = "none", result' \in {"ok", "failed"},
         result' = "ok" => Pieces(cursor) = Pieces(Len(sizes)) \/ cut \/ ~online,
         \/ UNCHANGED <<cut, online>>
         \/ ~online'
  PROVE  [Promise!Next]_(Promise!vars)
  <1>1. /\ Pieces(cursor)' = Pieces(cursor) /\ Pieces(Len(sizes))' = Pieces(Len(sizes))
        /\ Snapshots' = Snapshots
    BY DEF Pieces, Terminal, Snapshots
  <1>2. (cut \/ ~online)' \in {cut \/ ~online, TRUE}
    OBVIOUS
  <1>3. Promise!Return
    BY <1>1, <1>2 DEF Promise!Return
  <1> QED
    BY <1>3 DEF Promise!Next

\* A step that cuts the process off, or finds it cut off.
LEMMA Cuts ==
  ASSUME UNCHANGED <<call, sizes, cursor, result>>, cut' = TRUE \/ online' = FALSE
  PROVE  [Promise!Next]_(Promise!vars)
  <1>1. /\ Pieces(cursor)' = Pieces(cursor) /\ Pieces(Len(sizes))' = Pieces(Len(sizes))
        /\ Snapshots' = Snapshots
    BY DEF Pieces, Terminal, Snapshots
  <1>2. (cut \/ ~online)' = TRUE
    OBVIOUS
  <1>3. Promise!Cut
    BY <1>1, <1>2 DEF Promise!Cut
  <1> QED
    BY <1>3 DEF Promise!Next

\* A call that is about to return well has shown everything.
LEMMA WholeAtRelease ==
  ASSUME Inv, phase = "releasing", ~failed, online, ~cut
  PROVE  Pieces(cursor) = Pieces(Len(sizes))
  <1>1. CASE Announced
    BY <1>1, NodeTypes DEF Announced, Pieces
  <1>2. CASE ~Announced
    BY <1>2 DEF Inv, AwaitInv, Whole
  <1> QED
    BY <1>1, <1>2

\* Every step is one of the promise, or none that the caller can tell.
LEMMA PromiseStep ==
  ASSUME Inv, Inv', [Next]_vars
  PROVE  [Promise!Next]_(Promise!vars)
  <1> USE GatewayTypes
  <1>1. CASE Start
    <2>1. Terminal /\ Len(sizes) = 0 /\ UNCHANGED <<call, online, cut, cursor, result>>
      BY <1>1 DEF Start, gatewayVars
    <2>2. Len(sizes') = 1
      <3>1. PICK s \in Sizes : sizes' = Append(sizes, s)
        BY <1>1 DEF Start, Journal
      <3> QED
        BY <2>1, <3>1, AppendProperties
    <2>3. Pieces(Len(sizes))' = Pieces(Len(sizes)) /\ Pieces(cursor)' = Pieces(cursor)
      BY <2>1, <2>2 DEF Pieces, Terminal
    <2> QED
      BY <2>1, <2>3 DEF Promise!vars, Snapshots
  <1>2. ASSUME NEW w \in Writers, Output(w) PROVE [Promise!Next]_(Promise!vars)
    <2>1. /\ Terminal => sizes # <<>>
          /\ UNCHANGED <<call, online, cut, cursor, result>>
      BY <1>2 DEF Output, gatewayVars
    <2>2. Len(sizes') = Len(sizes) + 1
      <3>1. PICK s \in Sizes : sizes' = Append(sizes, s)
        BY <1>2 DEF Output, Journal
      <3> QED
        BY <3>1, AppendProperties
    <2>3. Pieces(Len(sizes) + 1) = Pieces(Len(sizes)) + 1
      <3>1. Terminal => Len(sizes) > 0
        BY <2>1, EmptySeq
      <3> QED
        BY <3>1, PiecesGrow
    <2>4. /\ Pieces(Len(sizes))' = Pieces(Len(sizes)) + 1 /\ Pieces(cursor)' = Pieces(cursor)
          /\ Snapshots' = Snapshots
      <3>1. Pieces(Len(sizes))' = Pieces(Len(sizes'))
        BY <2>1 DEF Pieces, Terminal
      <3> QED
        BY <2>1, <2>2, <2>3, <3>1 DEF Pieces, Terminal, Snapshots
    <2>5. Promise!Produce
      BY <2>1, <2>4 DEF Promise!Produce
    <2> QED
      BY <2>5 DEF Promise!Next
  <1>3. CASE End
    BY <1>3, Silent DEF End, gatewayVars
  <1>4. CASE Node
    <2>1. CASE Flush
      BY <2>1, Silent DEF Flush, gatewayVars
    <2>2. CASE HandleCancel
      <3>1. /\ UNCHANGED <<call, sizes, cursor, result, online>>
            /\ cut' = TRUE \/ UNCHANGED cut
        BY <2>2 DEF HandleCancel, CutOff, gatewayVars
      <3>2. CASE cut' = TRUE
        BY <3>1, <3>2, Cuts
      <3>3. CASE UNCHANGED cut
        BY <3>1, <3>3, Silent
      <3> QED
        BY <3>1, <3>2, <3>3
    <2>3. CASE HandleAck
      BY <2>3, Silent DEF HandleAck, gatewayVars
    <2>4. CASE RefuseAck
      BY <2>4, Silent DEF RefuseAck, gatewayVars
    <2>5. CASE HandleRelease
      BY <2>5, Silent DEF HandleRelease, gatewayVars
    <2> QED
      BY <1>4, <2>1, <2>2, <2>3, <2>4, <2>5 DEF Node
  <1>5. CASE Gateway
    <2>1. CASE Accept
      BY <2>1, Silent DEF Accept, nodeVars
    <2>2. CASE Deliver
      <3>1. /\ UNCHANGED <<call, sizes, cut, online, result>>
            /\ queue # <<>>
            /\ \/ UNCHANGED cursor
               \/ cursor' = Head(queue).offset /\ (cursor' = cursor + 1 \/ Snapshots)
        BY <2>2 DEF Deliver, Apply, nodeVars
      <3>2. CASE UNCHANGED cursor
        BY <3>1, <3>2, Silent
      <3>3. CASE cursor' = Head(queue).offset /\ (cursor' = cursor + 1 \/ Snapshots)
        <4>1. 1 \in 1..Len(queue) /\ Head(queue) = queue[1]
          BY <3>1, TailIsRest
        <4>2. cursor < cursor'
          BY <3>3, <4>1 DEF Inv, OrderInv
        <4>3. result = "none"
          BY <3>1 DEF Inv, PhaseInv
        <4> QED
          BY <3>1, <3>3, <4>2, <4>3, Shows
      <3> QED
        BY <3>1, <3>2, <3>3
    <2>3. CASE SendAck
      BY <2>3, Silent DEF SendAck, nodeVars
    <2>4. CASE TakeAcked
      BY <2>4, Silent DEF TakeAcked, nodeVars
    <2>5. CASE TakeReceipt
      BY <2>5, Silent DEF TakeReceipt, nodeVars
    <2>6. CASE AwaitAcks
      BY <2>6, Silent DEF AwaitAcks, nodeVars
    <2>7. CASE Release
      <3>1. UNCHANGED <<call, sizes, cut, online, cursor>> /\ phase = "acks"
        BY <2>7 DEF Release, nodeVars
      <3>2. CASE online
        BY <2>7, <3>1, <3>2, Silent DEF Release
      <3>3. CASE ~online
        <4>1. result' \in {"ok", "failed"}
          BY <2>7, <3>3 DEF Release, Over, Outcomes
        <4>2. result = "none"
          BY <3>1 DEF Inv, PhaseInv
        <4> QED
          BY <3>1, <3>3, <4>1, <4>2, Returns
      <3> QED
        BY <3>2, <3>3
    <2>8. CASE TakeReleased
      <3>1. UNCHANGED <<call, sizes, cut, online, cursor>>
        BY <2>8 DEF TakeReleased, nodeVars
      <3>2. CASE phase = "releasing"
        <4>1. result' \in Outcomes(failed)
          BY <2>8, <3>2 DEF TakeReleased, Over
        <4>2. result' \in {"ok", "failed"} /\ (result' = "ok" => ~failed)
          BY <4>1 DEF Outcomes
        <4>3. result = "none"
          BY <3>2 DEF Inv, PhaseInv
        <4>4. result' = "ok" => Pieces(cursor) = Pieces(Len(sizes)) \/ cut \/ ~online
          BY <3>2, <4>2, WholeAtRelease
        <4> QED
          BY <3>1, <4>2, <4>3, <4>4, Returns
      <3>3. CASE phase # "releasing"
        BY <2>8, <3>1, <3>3, Silent DEF TakeReleased
      <3> QED
        BY <3>2, <3>3
    <2> QED
      BY <1>5, <2>1, <2>2, <2>3, <2>4, <2>5, <2>6, <2>7, <2>8 DEF Gateway
  <1>6. CASE Abort
    BY <1>6, Silent DEF Abort, nodeVars, gatewayVars
  <1>7. CASE Refuse
    BY <1>7, Silent DEF Refuse, nodeVars
  <1>8. CASE Timeout
    BY <1>8, Cuts DEF Timeout, CutOff, gatewayVars
  <1>9. CASE GiveUp
    <2>1. /\ UNCHANGED <<call, sizes, cut, online, cursor>>
          /\ phase = "running" /\ result' = "failed"
      BY <1>9 DEF GiveUp, Over, nodeVars
    <2>2. result = "none"
      BY <2>1 DEF Inv, PhaseInv
    <2> QED
      BY <2>1, <2>2, Returns
  <1>10. CASE Prune
    BY <1>10, Silent DEF Prune, gatewayVars
  <1>11. CASE Close
    <2>1. online /\ online' = FALSE /\ UNCHANGED <<call, sizes, cursor>> /\ failed' = (failed \/ acks # <<>>)
      BY <1>11 DEF Close
    <2>2. CASE phase = "running"
      <3>1. result' = "failed"
        BY <1>11, <2>2 DEF Close, Over
      <3>2. result = "none"
        BY <2>2 DEF Inv, PhaseInv
      <3> QED
        BY <2>1, <3>1, <3>2, Returns
    <2>3. CASE phase = "releasing"
      <3>1. result' \in Outcomes(failed')
        BY <1>11, <2>3 DEF Close, Over
      <3>2. result' \in {"ok", "failed"} /\ (result' = "ok" => ~failed)
        BY <2>1, <3>1 DEF Outcomes
      <3>3. result = "none"
        BY <2>3 DEF Inv, PhaseInv
      <3>4. result' = "ok" => Pieces(cursor) = Pieces(Len(sizes)) \/ cut \/ ~online
        BY <2>1, <2>3, <3>2, WholeAtRelease
      <3> QED
        BY <2>1, <3>2, <3>3, <3>4, Returns
    <2>4. CASE phase \in {"delivery", "acks", "done"}
      <3>1. UNCHANGED result
        BY <1>11, <2>4 DEF Close
      <3> QED
        BY <2>1, <3>1, Cuts
    <2> QED
      BY <2>2, <2>3, <2>4
  <1>12. CASE UNCHANGED vars
    BY <1>12, Silent DEF vars, nodeVars, gatewayVars
  <1> QED
    BY <1>1, <1>2, <1>3, <1>4, <1>5, <1>6, <1>7, <1>8, <1>9, <1>10, <1>11, <1>12 DEF Next, Finished

\* It begins as the promise does.
LEMMA PromiseInit == Init => Promise!Init
  <1> SUFFICES ASSUME Init PROVE Promise!Init
    OBVIOUS
  <1>1. /\ call \in Calls /\ sizes = <<>> /\ cursor = 0 /\ cut = FALSE /\ online = TRUE /\ result = "none"
    BY DEF Init
  <1>2. Pieces(Len(sizes)) = 0 /\ Pieces(cursor) = 0
    BY <1>1 DEF Pieces
  <1>3. Snapshots \in BOOLEAN
    BY <1>1, StreamAssumption DEF Snapshots
  <1>4. (cut \/ ~online) = FALSE
    BY <1>1
  <1> QED
    BY <1>1, <1>2, <1>3, <1>4 DEF Promise!Init

\* The link implements the promise of OutputStream: the pieces in order, each once and none left out
\* but by a snapshot, and all of them when a call ends well.
THEOREM StreamKeepsOrder == Spec => KeepsOrder
  <1>1. Inv /\ Inv' /\ [Next]_vars => [Promise!Next]_(Promise!vars)
    BY PromiseStep
  <1> QED
    BY <1>1, PromiseInit, StreamInvariant, PTL DEF Spec, KeepsOrder, Promise!Spec
=============================================================================
