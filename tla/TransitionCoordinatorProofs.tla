-------------------- MODULE TransitionCoordinatorProofs --------------------
(***************************************************************************)
(* What holds of TransitionCoordinator for all sets of runs, machines,     *)
(* actions and workflows: the promises of a key are a first-in, first-out  *)
(* queue, so that runs are serial and machines exclusive, and nothing is   *)
(* left in the tables.                                                     *)
(***************************************************************************)
EXTENDS TransitionCoordinator, TLAPS, Naturals, SequenceTheorems

-----------------------------------------------------------------------------
(* The inductive invariant *)

Nested == {"inside", "innerQueued", "innerInside"}

\* The tickets an operation has taken, those of them it has not released, and those whose
\* turn it was.
Taken(o, k) ==
  \/ o \in Workflow /\ k = MachineOf[o] /\ pc[o] # "new"
  \/ o \in Action /\ k = RunOf[o] /\ pc[o] \notin {"new", "resolving", "waiting"}
  \/ k \in visited[o]

Pending(o, k) ==
  \/ o \in Workflow /\ k = MachineOf[o] /\ pc[o] \in {"queued", "draining"} \cup Nested
  \/ o \in Action /\ k = RunOf[o] /\ pc[o] \in {"runQueued"} \cup Nested
  \/ k = inner[o]

Holding(o, k) ==
  \/ o \in Workflow /\ k = MachineOf[o] /\ pc[o] \in {"draining"} \cup Nested
  \/ o \in Action /\ k = RunOf[o] /\ pc[o] \in Nested
  \/ k = inner[o] /\ pc[o] = "innerInside"

\* The pending tickets of a key, in the order they were taken: each waits for the one
\* before it, the first for nobody, and the last is the key's tail.
Chain(c, k) ==
  /\ \A i, j \in 1..Len(c) : c[i] = c[j] => i = j
  /\ \A o \in Op : Pending(o, k) <=> \E i \in 1..Len(c) : c[i] = o
  /\ tail[k] = IF c = <<>> THEN Nobody ELSE c[Len(c)]
  /\ \A i \in 2..Len(c) : prev[c[i]][k] = c[i - 1]
  /\ c # <<>> => Turn(c[1], k)

KeyInv(k) ==
  /\ \A o \in Op : <<o, k>> \in settled => Taken(o, k) /\ ~Pending(o, k)
  /\ \A o \in Op : Holding(o, k) => Turn(o, k)
  /\ \E c \in Seq(Op) : Chain(c, k)

\* An operation takes the steps of its kind, and a second run key inside its own.
OpInv(o) ==
  /\ o \in Workflow =>
       pc[o] \in {"new", "queued", "draining", "done"} \cup Nested
  /\ o \in Action =>
       /\ pc[o] \in {"new", "resolving", "waiting", "runQueued", "leaving", "done"} \cup Nested
       /\ visited[o] \subseteq {Source[o]}
       /\ pc[o] \in {"waiting", "leaving"} => shared[o] # Nobody
  /\ inner[o] # Nobody => inner[o] \in visited[o]
  /\ inner[o] # Nobody <=> pc[o] \in {"innerQueued", "innerInside"}

\* Sharing a machine begins before the run is taken and ends after it was released; a
\* drained promise waits for somebody, and a workflow inside shares with nobody.
MachineInv(m) ==
  /\ \A o \in Action :
       o \in sharers[m] <=> shared[o] = m /\ pc[o] \in {"runQueued", "leaving"} \cup Nested
  /\ m \in drained => sharers[m] # {}
  /\ \A o \in Workflow : MachineOf[o] = m /\ In(o) => sharers[m] = {}

Inv ==
  /\ TypeOK
  /\ \A o \in Op : OpInv(o)
  /\ \A k \in Key : KeyInv(k)
  /\ \A m \in Machine : MachineInv(m)

-----------------------------------------------------------------------------
(* The chain of one key *)

\* A key whose chain a step leaves alone keeps it.
LEMMA ChainStays ==
  ASSUME NEW c \in Seq(Op), NEW k \in Key, Chain(c, k),
         tail'[k] = tail[k],
         \A o \in Op : Pending(o, k)' <=> Pending(o, k),
         \A o \in Op : Pending(o, k) => prev'[o][k] = prev[o][k],
         settled \subseteq settled'
  PROVE  Chain(c, k)'
  <1>1. \A i \in 1..Len(c) : c[i] \in Op /\ Pending(c[i], k)
    BY DEF Chain
  <1>2. \A i \in 2..Len(c) : prev'[c[i]][k] = c[i - 1]
    BY <1>1 DEF Chain
  <1>3. c # <<>> => Turn(c[1], k)'
    <2> SUFFICES ASSUME c # <<>> PROVE Turn(c[1], k)'
      OBVIOUS
    <2>1. 1 \in 1..Len(c)
      BY EmptySeq, LenProperties
    <2> QED
      BY <1>1, <2>1 DEF Chain, Turn
  <1> QED
    BY <1>2, <1>3 DEF Chain

\* Taking a ticket appends the operation to the chain.
LEMMA ChainGrows ==
  ASSUME NEW c \in Seq(Op), NEW k \in Key, Chain(c, k), NEW o \in Op,
         prev \in [Op -> [Key -> Op \cup {Nobody}]], tail \in [Key -> Op \cup {Nobody}],
         Enqueue(o, k), ~Pending(o, k),
         \A p \in Op : Pending(p, k)' <=> Pending(p, k) \/ p = o
  PROVE  Chain(Append(c, o), k)'
  <1> DEFINE d == Append(c, o)
             n == Len(c)
  <1>1. /\ n \in Nat /\ Len(d) = n + 1 /\ d \in Seq(Op) /\ d # <<>>
        /\ d[n + 1] = o
        /\ \A i \in 1..n : d[i] = c[i] /\ c[i] \in Op
    BY AppendProperties, LenProperties
  <1>2. \A i \in 1..n : Pending(c[i], k) /\ c[i] # o
    BY <1>1 DEF Chain
  <1>3. \A i, j \in 1..Len(d) : d[i] = d[j] => i = j
    <2> SUFFICES ASSUME NEW i \in 1..(n + 1), NEW j \in 1..(n + 1), d[i] = d[j] PROVE i = j
      BY <1>1
    <2>1. CASE i \in 1..n /\ j \in 1..n
      BY <1>1, <2>1 DEF Chain
    <2>2. CASE i = n + 1 \/ j = n + 1
      BY <1>1, <1>2, <2>2
    <2> QED
      BY <1>1, <2>1, <2>2
  <1>4. ASSUME NEW p \in Op PROVE Pending(p, k)' <=> \E i \in 1..Len(d) : d[i] = p
    <2>1. (\E i \in 1..Len(d) : d[i] = p) <=> p = o \/ \E i \in 1..n : c[i] = p
      <3>1. \A i : i \in 1..(n + 1) <=> i \in 1..n \/ i = n + 1
        BY <1>1
      <3> QED
        BY <1>1, <3>1
    <2> QED
      BY <2>1 DEF Chain
  <1>5. tail'[k] = o /\ prev'[o][k] = tail[k]
    BY DEF Enqueue
  <1>6. ASSUME NEW p \in Op, p # o PROVE prev'[p][k] = prev[p][k]
    BY <1>6 DEF Enqueue
  <1>7. \A i \in 2..Len(d) : prev'[d[i]][k] = d[i - 1]
    <2> SUFFICES ASSUME NEW i \in 2..(n + 1) PROVE prev'[d[i]][k] = d[i - 1]
      BY <1>1
    <2>1. CASE i \in 2..n
      <3>1. i \in 1..n /\ i - 1 \in 1..n
        BY <2>1, <1>1
      <3> QED
        BY <1>1, <1>2, <1>6, <2>1, <3>1 DEF Chain
    <2>2. CASE i = n + 1
      <3>1. n \in 1..n /\ c # <<>> /\ i - 1 = n
        BY <1>1, <2>2
      <3> QED
        BY <1>1, <1>5, <2>2, <3>1 DEF Chain
    <2> QED
      BY <1>1, <2>1, <2>2
  <1>8. Turn(d[1], k)'
    <2>1. CASE n = 0
      <3>1. c = <<>>
        BY <2>1, EmptySeq
      <3> QED
        BY <1>1, <1>5, <2>1, <3>1 DEF Chain, Turn
    <2>2. CASE n # 0
      <3>1. 1 \in 1..n /\ c # <<>>
        BY <1>1, <2>2
      <3> QED
        BY <1>1, <1>2, <1>6, <3>1 DEF Chain, Turn, Enqueue
    <2> QED
      BY <2>1, <2>2
  <1>9. tail'[k] = d[Len(d)]
    BY <1>1, <1>5
  <1> HIDE DEF d
  <1> QED
    BY <1>1, <1>3, <1>4, <1>7, <1>8, <1>9 DEF Chain, d

\* Releasing is for the first of the chain, and hands the turn to the next.
LEMMA ChainShrinks ==
  ASSUME NEW c \in Seq(Op), NEW k \in Key, Chain(c, k), NEW o \in Op,
         tail \in [Key -> Op \cup {Nobody}],
         Release(o, k), c # <<>>, o = c[1],
         \A p \in Op : Pending(p, k)' <=> Pending(p, k) /\ p # o
  PROVE  Chain(Tail(c), k)'
  <1> DEFINE d == Tail(c)
             n == Len(c)
  <1>1. /\ n \in Nat \ {0} /\ d \in Seq(Op) /\ Len(d) = n - 1
        /\ \A i \in 1..(n - 1) : d[i] = c[i + 1]
        /\ \A i \in 1..n : c[i] \in Op
    BY HeadTailProperties, LenProperties, EmptySeq
  <1>2. \A i, j \in 1..Len(d) : d[i] = d[j] => i = j
    <2> SUFFICES ASSUME NEW i \in 1..(n - 1), NEW j \in 1..(n - 1), d[i] = d[j] PROVE i = j
      BY <1>1
    <2>1. i + 1 \in 1..n /\ j + 1 \in 1..n /\ c[i + 1] = c[j + 1]
      BY <1>1
    <2> QED
      BY <2>1 DEF Chain
  <1>3. ASSUME NEW p \in Op PROVE Pending(p, k)' <=> \E i \in 1..Len(d) : d[i] = p
    <2>1. ASSUME NEW i \in 1..n, c[i] = p, p # o PROVE \E j \in 1..(n - 1) : d[j] = p
      <3>1. i - 1 \in 1..(n - 1) /\ d[i - 1] = c[i]
        BY <1>1, <2>1
      <3> QED
        BY <2>1, <3>1
    <2>2. ASSUME NEW j \in 1..(n - 1), d[j] = p PROVE p # o /\ \E i \in 1..n : c[i] = p
      <3>1. j + 1 \in 1..n /\ 1 \in 1..n /\ j + 1 # 1 /\ c[j + 1] = p
        BY <1>1, <2>2
      <3> QED
        BY <3>1 DEF Chain
    <2> QED
      BY <1>1, <2>1, <2>2 DEF Chain
  <1>4. \A i \in 2..Len(d) : prev'[d[i]][k] = d[i - 1]
    <2> SUFFICES ASSUME NEW i \in 2..(n - 1) PROVE prev'[d[i]][k] = d[i - 1]
      BY <1>1
    <2>1. i + 1 \in 2..n /\ d[i] = c[i + 1] /\ d[i - 1] = c[i]
      BY <1>1
    <2> QED
      BY <2>1 DEF Chain, Release
  <1>5. d # <<>> => Turn(d[1], k)'
    <2> SUFFICES ASSUME d # <<>> PROVE Turn(d[1], k)'
      OBVIOUS
    <2>1. n - 1 # 0
      BY <1>1, EmptySeq
    <2>2. 2 \in 2..n /\ d[1] = c[2]
      BY <1>1, <2>1
    <2>3. prev'[d[1]][k] = o
      BY <2>2 DEF Chain, Release
    <2> QED
      BY <2>3 DEF Turn, Release
  <1>e. d = <<>> <=> n - 1 = 0
    <2> HIDE DEF d, n
    <2> QED
      BY <1>1, EmptySeq
  <1>6. tail'[k] = IF d = <<>> THEN Nobody ELSE d[Len(d)]
    <2>1. CASE n = 1
      <3>1. d = <<>>
        BY <1>e, <2>1
      <3>2. tail[k] = o
        BY <2>1 DEF Chain
      <3> HIDE DEF d
      <3> QED
        BY <3>1, <3>2 DEF Release
    <2>2. CASE n # 1
      <3>1. d # <<>>
        BY <1>1, <1>e, <2>2
      <3>2. d[Len(d)] = c[n] /\ n \in 1..n /\ 1 \in 1..n
        BY <1>1, <2>2
      <3>3. c[n] # o
        BY <2>2, <3>2 DEF Chain
      <3> HIDE DEF d
      <3> QED
        BY <3>1, <3>2, <3>3 DEF Chain, Release
    <2> QED
      BY <2>1, <2>2
  <1> HIDE DEF d
  <1> QED
    BY <1>1, <1>2, <1>3, <1>4, <1>5, <1>6 DEF Chain, d

\* The turn on a key is only ever that of the first of its chain.
LEMMA TurnIsFirst ==
  ASSUME NEW c \in Seq(Op), NEW k \in Key, Chain(c, k), NEW o \in Op,
         \A p \in Op : <<p, k>> \in settled => ~Pending(p, k),
         Pending(o, k), Turn(o, k)
  PROVE  c # <<>> /\ o = c[1]
  <1>1. PICK i \in 1..Len(c) : c[i] = o
    BY DEF Chain
  <1>2. Len(c) \in Nat /\ \A j \in 1..Len(c) : c[j] \in Op
    BY LenProperties
  <1>3. ASSUME i # 1 PROVE FALSE
    <2>1. i \in 2..Len(c) /\ i - 1 \in 1..Len(c)
      BY <1>2, <1>3
    <2>2. prev[o][k] = c[i - 1] /\ Pending(c[i - 1], k) /\ c[i - 1] \in Op
      BY <1>1, <1>2, <2>1 DEF Chain
    <2> QED
      BY <2>2, CoordinatorAssumption DEF Turn
  <1> QED
    BY <1>1, <1>2, <1>3, EmptySeq

-----------------------------------------------------------------------------
(* What a step of one operation does to a key *)

\* The step is that of o: the others stay where they are.
StepOf(o) ==
  \A p \in Op \ {o} :
    pc'[p] = pc[p] /\ inner'[p] = inner[p] /\ visited'[p] = visited[p] /\ shared'[p] = shared[p]

\* Nobody else takes, waits for or holds a key in it.
LEMMA OthersStay ==
  ASSUME NEW o \in Op, StepOf(o), NEW p \in Op \ {o}, NEW k \in Key
  PROVE  /\ Taken(p, k)' <=> Taken(p, k)
         /\ Pending(p, k)' <=> Pending(p, k)
         /\ Holding(p, k)' <=> Holding(p, k)
  BY DEF StepOf, Taken, Pending, Holding

\* Who holds a key has not released it, and who has not released it has taken it.
LEMMA HoldingIsPending ==
  ASSUME NEW o \in Op, OpInv(o), NEW k \in Key
  PROVE  /\ Holding(o, k) => Pending(o, k)
         /\ Pending(o, k) => Taken(o, k)
  <1>1. k # Nobody
    BY CoordinatorAssumption
  <1> QED
    BY <1>1 DEF Holding, Pending, Taken, OpInv, Nested

\* A step that neither takes nor releases a key keeps its invariant, if whoever enters it
\* has the turn.
LEMMA KeyStays ==
  ASSUME NEW k \in Key, KeyInv(k), NEW o \in Op, StepOf(o),
         tail'[k] = tail[k],
         \A p \in Op : <<p, k>> \in settled' <=> <<p, k>> \in settled,
         settled \subseteq settled',
         \A p \in Op : p # o \/ Pending(o, k) => prev'[p][k] = prev[p][k],
         Pending(o, k)' <=> Pending(o, k),
         Taken(o, k) => Taken(o, k)',
         Holding(o, k)' => Turn(o, k)'
  PROVE  KeyInv(k)'
  <1>1. \A p \in Op : Pending(p, k)' <=> Pending(p, k)
    BY OthersStay
  <1>2. \A p \in Op : <<p, k>> \in settled' => Taken(p, k)' /\ ~Pending(p, k)'
    BY <1>1, OthersStay DEF KeyInv
  <1>3. ASSUME NEW p \in Op, Holding(p, k)' PROVE Turn(p, k)'
    <2>1. CASE p = o
      BY <1>3, <2>1
    <2>2. CASE p # o
      BY <1>3, <2>2, OthersStay DEF KeyInv, Turn
    <2> QED
      BY <2>1, <2>2
  <1>4. \E c \in Seq(Op) : Chain(c, k)'
    <2>1. PICK c \in Seq(Op) : Chain(c, k)
      BY DEF KeyInv
    <2>2. \A p \in Op : Pending(p, k) => prev'[p][k] = prev[p][k]
      OBVIOUS
    <2>3. Chain(c, k)'
      BY <1>1, <2>1, <2>2, ChainStays
    <2> QED
      BY <2>3
  <1> QED
    BY <1>2, <1>3, <1>4 DEF KeyInv

\* Taking a key keeps its invariant.
LEMMA KeyTaken ==
  ASSUME TypeOK, NEW k \in Key, KeyInv(k), NEW o \in Op, OpInv(o), StepOf(o),
         Enqueue(o, k), ~Taken(o, k), Taken(o, k)', Pending(o, k)', ~Holding(o, k)'
  PROVE  KeyInv(k)'
  <1>1. ~Pending(o, k) /\ ~Holding(o, k) /\ <<o, k>> \notin settled
    BY HoldingIsPending DEF KeyInv
  <1>2. \A p \in Op : Pending(p, k)' <=> Pending(p, k) \/ p = o
    BY <1>1, OthersStay
  <1>3. \A p \in Op : <<p, k>> \in settled' => Taken(p, k)' /\ ~Pending(p, k)'
    BY <1>1, OthersStay DEF KeyInv, Enqueue
  <1>4. ASSUME NEW p \in Op, Holding(p, k)' PROVE Turn(p, k)'
    <2>1. p # o /\ Holding(p, k)
      BY <1>4, OthersStay
    <2>2. prev'[p][k] = prev[p][k]
      BY <2>1 DEF Enqueue, TypeOK
    <2> QED
      BY <2>1, <2>2 DEF KeyInv, Turn, Enqueue
  <1>5. \E c \in Seq(Op) : Chain(c, k)'
    <2>1. PICK c \in Seq(Op) : Chain(c, k)
      BY DEF KeyInv
    <2>2. Chain(Append(c, o), k)'
      BY <1>1, <1>2, <2>1, ChainGrows DEF TypeOK
    <2>3. Append(c, o) \in Seq(Op)
      BY AppendProperties
    <2> QED
      BY <2>2, <2>3
  <1> QED
    BY <1>3, <1>4, <1>5 DEF KeyInv

\* Releasing a key one holds keeps its invariant.
LEMMA KeyReleased ==
  ASSUME TypeOK, NEW k \in Key, KeyInv(k), NEW o \in Op, OpInv(o), StepOf(o),
         Release(o, k), Holding(o, k), Taken(o, k)', ~Pending(o, k)', ~Holding(o, k)'
  PROVE  KeyInv(k)'
  <1>1. Pending(o, k) /\ Turn(o, k)
    BY HoldingIsPending DEF KeyInv
  <1>2. \A p \in Op : Pending(p, k)' <=> Pending(p, k) /\ p # o
    BY <1>1, OthersStay
  <1>3. \A p \in Op : <<p, k>> \in settled' => Taken(p, k)' /\ ~Pending(p, k)'
    BY <1>1, OthersStay DEF KeyInv, Release
  <1>4. ASSUME NEW p \in Op, Holding(p, k)' PROVE Turn(p, k)'
    <2>1. p # o /\ Holding(p, k)
      BY <1>4, OthersStay
    <2> QED
      BY <2>1 DEF KeyInv, Turn, Release
  <1>5. \E c \in Seq(Op) : Chain(c, k)'
    <2>1. PICK c \in Seq(Op) : Chain(c, k)
      BY DEF KeyInv
    <2>2. c # <<>> /\ o = c[1]
      BY <1>1, <2>1, TurnIsFirst DEF KeyInv
    <2>3. Chain(Tail(c), k)'
      BY <1>2, <2>1, <2>2, ChainShrinks DEF TypeOK
    <2>4. Tail(c) \in Seq(Op)
      BY <2>2, HeadTailProperties
    <2> QED
      BY <2>3, <2>4
  <1> QED
    BY <1>3, <1>4, <1>5 DEF KeyInv

-----------------------------------------------------------------------------
(* Types *)

\* The keys an operation names are keys, and those of a run are none of a machine's.
LEMMA KeyTypes ==
  /\ \A o \in Action : RunOf[o] \in Run /\ RunOf[o] \in Key /\ Source[o] # RunOf[o]
  /\ \A o \in Workflow : MachineOf[o] \in Machine /\ MachineOf[o] \in Key
  /\ \A r \in Run : r \in Key /\ r \notin Machine /\ r # Nobody
  /\ \A m \in Machine : m \in Key /\ m \notin Run /\ m # Nobody
  /\ \A o \in Op : o \in Action <=> o \notin Workflow
  BY CoordinatorAssumption DEF Key, Op

\* Taking and releasing a key keep the chains' types.
LEMMA ChainTypes ==
  ASSUME TypeOK, NEW o \in Op, NEW k \in Key, Enqueue(o, k) \/ Release(o, k)
  PROVE  /\ tail' \in [Key -> Op \cup {Nobody}]
         /\ prev' \in [Op -> [Key -> Op \cup {Nobody}]]
         /\ settled' \subseteq Op \X Key
  <1>1. CASE Enqueue(o, k)
    BY <1>1 DEF TypeOK, Enqueue
  <1>2. CASE Release(o, k)
    BY <1>2 DEF TypeOK, Release
  <1> QED
    BY <1>1, <1>2

LEMMA GotoTypes ==
  ASSUME TypeOK, NEW o \in Op, NEW step \in Step, Goto(o, step)
  PROVE  pc' \in [Op -> Step] /\ pc'[o] = step /\ \A p \in Op \ {o} : pc'[p] = pc[p]
  BY DEF TypeOK, Goto

\* The steps of a workflow on its machine keep every variable's type and are its own.
LEMMA MachineStepTypes ==
  ASSUME TypeOK, NEW o \in Workflow,
         RequestMachine(o) \/ TurnMachine(o) \/ Drained(o) \/ LeaveMachine(o)
  PROVE  TypeOK' /\ StepOf(o)
  <1>1. o \in Op /\ MachineOf[o] \in Machine /\ MachineOf[o] \in Key
    BY KeyTypes DEF Op
  <1>2. {"queued", "draining", "inside", "done"} \subseteq Step
    BY DEF Step
  <1>3. CASE RequestMachine(o)
    BY <1>1, <1>2, <1>3, ChainTypes, GotoTypes DEF RequestMachine, TypeOK, StepOf
  <1>4. CASE TurnMachine(o)
    BY <1>1, <1>2, <1>4, GotoTypes DEF TurnMachine, CheckSharers, TypeOK, StepOf, chain
  <1>5. CASE Drained(o)
    BY <1>1, <1>2, <1>5, GotoTypes DEF Drained, CheckSharers, TypeOK, StepOf, chain
  <1>6. CASE LeaveMachine(o)
    BY <1>1, <1>2, <1>6, ChainTypes, GotoTypes DEF LeaveMachine, TypeOK, StepOf
  <1> QED
    BY <1>3, <1>4, <1>5, <1>6

\* Joining or waiting for a machine takes the run's key or only a place to wait.
LEMMA JoinTypes ==
  ASSUME TypeOK, NEW o \in Action, NEW m \in Machine, JoinOrWait(o, m)
  PROVE  /\ tail' \in [Key -> Op \cup {Nobody}]
         /\ prev' \in [Op -> [Key -> Op \cup {Nobody}]]
         /\ settled' \subseteq Op \X Key
         /\ sharers' \in [Machine -> SUBSET Action]
         /\ pc' \in [Op -> Step] /\ \A p \in Op \ {o} : pc'[p] = pc[p]
  <1>1. o \in Op /\ RunOf[o] \in Key /\ m \in Key
    BY KeyTypes DEF Op
  <1>2. {"waiting", "runQueued"} \subseteq Step
    BY DEF Step
  <1>3. CASE tail[m] = Nobody
    <2>1. Enqueue(o, RunOf[o]) /\ Goto(o, "runQueued")
      BY <1>3 DEF JoinOrWait, TakeRun
    <2>2. sharers' \in [Machine -> SUBSET Action]
      BY <1>3 DEF JoinOrWait, TypeOK
    <2>3. /\ tail' \in [Key -> Op \cup {Nobody}]
          /\ prev' \in [Op -> [Key -> Op \cup {Nobody}]]
          /\ settled' \subseteq Op \X Key
      BY <1>1, <2>1, ChainTypes
    <2>4. pc' \in [Op -> Step] /\ \A p \in Op \ {o} : pc'[p] = pc[p]
      BY <1>1, <1>2, <2>1, GotoTypes
    <2> QED
      BY <2>2, <2>3, <2>4
  <1>4. CASE tail[m] # Nobody
    <2>1. /\ prev' = [prev EXCEPT ![o][m] = tail[m]] /\ Goto(o, "waiting")
          /\ UNCHANGED <<tail, settled, sharers>>
      BY <1>4 DEF JoinOrWait
    <2>2. pc' \in [Op -> Step] /\ \A p \in Op \ {o} : pc'[p] = pc[p]
      BY <1>1, <1>2, <2>1, GotoTypes
    <2> QED
      BY <1>1, <2>1, <2>2 DEF TypeOK
  <1> QED
    BY <1>3, <1>4

\* The steps of an action on its run keep every variable's type and are its own.
LEMMA RunStepTypes ==
  ASSUME TypeOK, NEW o \in Action, OpInv(o),
         RequestRun(o) \/ Resolve(o) \/ Join(o) \/ TurnRun(o) \/ LeaveRun(o) \/ Unshare(o)
  PROVE  TypeOK' /\ StepOf(o)
  <1>1. o \in Op /\ RunOf[o] \in Run /\ RunOf[o] \in Key
    BY KeyTypes DEF Op
  <1>2. {"resolving", "runQueued", "inside", "done", "leaving"} \subseteq Step
    BY DEF Step
  <1>3. CASE RequestRun(o)
    BY <1>1, <1>2, <1>3, GotoTypes DEF RequestRun, TypeOK, StepOf, chain
  <1>4. CASE Resolve(o)
    <2>1. home[RunOf[o]] \in Machine \cup {Nobody}
      BY <1>1 DEF TypeOK
    <2>2. CASE home[RunOf[o]] = Nobody
      BY <1>1, <1>2, <1>4, <2>1, <2>2, ChainTypes, GotoTypes DEF Resolve, TakeRun, TypeOK, StepOf
    <2>3. CASE home[RunOf[o]] # Nobody
      BY <1>1, <1>4, <2>1, <2>3, JoinTypes DEF Resolve, TypeOK, StepOf
    <2> QED
      BY <2>2, <2>3
  <1>5. CASE Join(o)
    <2>1. shared[o] \in Machine
      BY <1>1, <1>5 DEF Join, TypeOK, OpInv
    <2> QED
      BY <1>1, <1>5, <2>1, JoinTypes DEF Join, TypeOK, StepOf
  <1>6. CASE TurnRun(o)
    BY <1>1, <1>2, <1>6, GotoTypes DEF TurnRun, TypeOK, StepOf, chain
  <1>7. CASE LeaveRun(o)
    BY <1>1, <1>2, <1>7, ChainTypes, GotoTypes DEF LeaveRun, TypeOK, StepOf
  <1>8. CASE Unshare(o)
    BY <1>1, <1>2, <1>8, GotoTypes DEF Unshare, TypeOK, StepOf, chain
  <1> QED
    BY <1>3, <1>4, <1>5, <1>6, <1>7, <1>8

\* So do the steps of an operation on a second run key.
LEMMA InnerStepTypes ==
  ASSUME TypeOK, NEW o \in Op, OpInv(o), NEW r \in Run,
         TakeInner(o, r) \/ TurnInner(o) \/ LeaveInner(o)
  PROVE  TypeOK' /\ StepOf(o)
  <1>1. r \in Key /\ {"innerQueued", "innerInside", "inside"} \subseteq Step
    BY KeyTypes DEF Step
  <1>2. CASE TakeInner(o, r)
    BY <1>1, <1>2, ChainTypes, GotoTypes DEF TakeInner, TypeOK, StepOf
  <1>3. CASE TurnInner(o)
    BY <1>1, <1>3, GotoTypes DEF TurnInner, TypeOK, StepOf, chain
  <1>4. CASE LeaveInner(o)
    <2>1. inner[o] \in Run /\ inner[o] \in Key
      BY <1>4, KeyTypes DEF LeaveInner, TypeOK, OpInv
    <2> QED
      BY <1>1, <1>4, <2>1, ChainTypes, GotoTypes DEF LeaveInner, TypeOK, StepOf
  <1> QED
    BY <1>2, <1>3, <1>4

-----------------------------------------------------------------------------
(* The invariant of the operations and the machines *)

\* The steps of a workflow on its machine keep both.
LEMMA MachineStepInv ==
  ASSUME Inv, NEW o \in Workflow,
         RequestMachine(o) \/ TurnMachine(o) \/ Drained(o) \/ LeaveMachine(o)
  PROVE  /\ \A p \in Op : OpInv(p)'
         /\ \A m \in Machine : MachineInv(m)'
  <1>1. o \in Op /\ o \notin Action /\ MachineOf[o] \in Machine /\ OpInv(o)
    BY KeyTypes DEF Op, Inv
  <1>2. TypeOK /\ TypeOK' /\ StepOf(o)
    BY MachineStepTypes DEF Inv
  <1>3. ASSUME NEW p \in Op \ {o} PROVE OpInv(p)'
    BY <1>2 DEF OpInv, StepOf, Inv
  <1>4. inner'[o] = inner[o] /\ visited'[o] = visited[o] /\ UNCHANGED <<sharers, shared>>
    BY DEF RequestMachine, TurnMachine, Drained, LeaveMachine
  <1>5. /\ pc[o] \in {"new", "queued", "draining", "inside"}
        /\ pc'[o] \in {"queued", "draining", "inside", "done"}
        /\ pc'[o] = "inside" => sharers[MachineOf[o]] = {}
    BY <1>1, <1>2 DEF RequestMachine, TurnMachine, Drained, LeaveMachine, CheckSharers, Goto, TypeOK
  <1>6. OpInv(o)'
    BY <1>1, <1>4, <1>5 DEF OpInv, Nested
  <1>7. ASSUME NEW m \in Machine PROVE MachineInv(m)'
    <2>1. \A a \in Action : pc'[a] = pc[a] /\ shared'[a] = shared[a]
      BY <1>1, <1>2 DEF StepOf, Op
    <2>2. m \in drained' => sharers[m] # {}
      <3>1. m \in drained => sharers[m] # {}
        BY DEF Inv, MachineInv
      <3> QED
        BY <3>1 DEF RequestMachine, TurnMachine, Drained, LeaveMachine, CheckSharers
    <2>3. ASSUME NEW w \in Workflow, MachineOf[w] = m, In(w)' PROVE sharers[m] = {}
      <3>1. CASE w = o
        BY <1>5, <2>3, <3>1 DEF In
      <3>2. CASE w # o
        <4>1. In(w)
          BY <1>2, <2>3, <3>2 DEF In, StepOf, Op
        <4> QED
          BY <2>3, <4>1 DEF Inv, MachineInv
      <3> QED
        BY <3>1, <3>2
    <2>4. \A a \in Action :
            a \in sharers[m] <=> shared[a] = m /\ pc[a] \in {"runQueued", "leaving"} \cup Nested
      BY DEF Inv, MachineInv
    <2> QED
      BY <1>4, <2>1, <2>2, <2>3, <2>4 DEF MachineInv
  <1> QED
    BY <1>3, <1>6, <1>7

\* An action that shares its machine finds no workflow inside it.
LEMMA NobodyInside ==
  ASSUME Inv, NEW m \in Machine, tail[m] = Nobody, NEW w \in Workflow, MachineOf[w] = m
  PROVE  ~In(w)
  <1>1. m \in Key /\ w \in Op
    BY KeyTypes DEF Op
  <1>2. PICK c \in Seq(Op) : Chain(c, m)
    BY <1>1 DEF Inv, KeyInv
  <1>3. c = <<>>
    <2> SUFFICES ASSUME c # <<>> PROVE FALSE
      OBVIOUS
    <2>1. Len(c) \in 1..Len(c) /\ c[Len(c)] \in Op
      BY EmptySeq, LenProperties
    <2> QED
      BY <1>2, <2>1, CoordinatorAssumption DEF Chain
  <1>4. ~Pending(w, m)
    BY <1>1, <1>2, <1>3, EmptySeq DEF Chain
  <1> QED
    BY <1>4 DEF Pending, In, Nested

\* The steps of an action on its run keep both.
LEMMA RunStepInv ==
  ASSUME Inv, NEW o \in Action,
         RequestRun(o) \/ Resolve(o) \/ Join(o) \/ TurnRun(o) \/ LeaveRun(o) \/ Unshare(o)
  PROVE  /\ \A p \in Op : OpInv(p)'
         /\ \A m \in Machine : MachineInv(m)'
  <1>1. o \in Op /\ o \notin Workflow /\ OpInv(o)
    BY KeyTypes DEF Op, Inv
  <1>2. TypeOK /\ TypeOK' /\ StepOf(o)
    BY <1>1, RunStepTypes DEF Inv
  <1>3. ASSUME NEW p \in Op \ {o} PROVE OpInv(p)'
    BY <1>2 DEF OpInv, StepOf, Inv
  <1>4. inner'[o] = inner[o] /\ visited'[o] = visited[o]
    BY DEF RequestRun, Resolve, Join, TurnRun, LeaveRun, Unshare
  <1>w. \A w \in Workflow : pc'[w] = pc[w]
    BY <1>1, <1>2 DEF StepOf, Op
  <1>m. \A m \in Machine : m # Nobody
    BY KeyTypes
  \* A step that leaves the sharers alone.
  <1>5. ASSUME UNCHANGED <<sharers, drained>>,
               \A m \in Machine :
                 (shared'[o] = m /\ pc'[o] \in {"runQueued", "leaving"} \cup Nested) <=>
                 (shared[o] = m /\ pc[o] \in {"runQueued", "leaving"} \cup Nested),
               NEW m \in Machine
        PROVE  MachineInv(m)'
    <2>1. \A a \in Action : a # o => pc'[a] = pc[a] /\ shared'[a] = shared[a]
      BY <1>2 DEF StepOf, Op
    <2> QED
      BY <1>5, <1>w, <2>1 DEF Inv, MachineInv, In
  \* A step that joins a machine without a workflow.
  <1>6. ASSUME NEW m \in Machine, tail[m] = Nobody, shared'[o] = m, UNCHANGED drained,
               pc[o] \in {"resolving", "waiting"}, pc'[o] = "runQueued",
               sharers' = [sharers EXCEPT ![m] = @ \cup {o}],
               NEW n \in Machine
        PROVE  MachineInv(n)'
    <2>1. \A a \in Action : a # o => pc'[a] = pc[a] /\ shared'[a] = shared[a]
      BY <1>2 DEF StepOf, Op
    <2>2. o \in sharers'[n] <=> n = m
      <3>1. o \notin sharers[n]
        BY <1>6 DEF Inv, MachineInv, Nested
      <3> QED
        BY <1>2, <1>6, <3>1 DEF TypeOK
    <2>3. \A a \in Action : a # o => (a \in sharers'[n] <=> a \in sharers[n])
      BY <1>2, <1>6 DEF TypeOK
    <2>4. \A w \in Workflow : MachineOf[w] = n /\ In(w)' => sharers'[n] = {}
      <3>1. \A w \in Workflow : In(w)' <=> In(w)
        BY <1>w DEF In
      <3>2. n # m => sharers'[n] = sharers[n]
        BY <1>2, <1>6 DEF TypeOK
      <3> QED
        BY <1>6, <3>1, <3>2, NobodyInside DEF Inv, MachineInv
    <2>5. n \in drained' => sharers'[n] # {}
      BY <1>2, <1>6 DEF Inv, MachineInv, TypeOK
    <2> QED
      BY <1>6, <2>1, <2>2, <2>3, <2>4, <2>5 DEF Inv, MachineInv
  <1>7. CASE RequestRun(o)
    <2>1. pc[o] = "new" /\ pc'[o] = "resolving" /\ UNCHANGED <<sharers, drained, shared>>
      BY <1>1, <1>2, <1>7 DEF RequestRun, Goto, TypeOK
    <2>2. OpInv(o)'
      BY <1>1, <1>4, <2>1 DEF OpInv, Nested
    <2> QED
      BY <1>3, <1>5, <2>1, <2>2 DEF Nested
  <1>8. ASSUME NEW m \in Machine, JoinOrWait(o, m), shared'[o] = m, UNCHANGED drained,
               pc[o] \in {"resolving", "waiting"}
        PROVE  OpInv(o)' /\ \A n \in Machine : MachineInv(n)'
    <2>1. CASE tail[m] = Nobody
      <3>1. pc'[o] = "runQueued" /\ sharers' = [sharers EXCEPT ![m] = @ \cup {o}]
        BY <1>1, <1>2, <1>8, <2>1 DEF JoinOrWait, TakeRun, Goto, TypeOK
      <3>2. OpInv(o)'
        BY <1>1, <1>4, <1>8, <3>1 DEF OpInv, Nested
      <3> QED
        BY <1>6, <1>8, <2>1, <3>1, <3>2
    <2>2. CASE tail[m] # Nobody
      <3>1. pc'[o] = "waiting" /\ UNCHANGED sharers
        BY <1>1, <1>2, <1>8, <2>2 DEF JoinOrWait, Goto, TypeOK
      <3>2. OpInv(o)'
        BY <1>1, <1>4, <1>8, <1>m, <3>1 DEF OpInv, Nested
      <3> QED
        BY <1>5, <1>8, <3>1, <3>2 DEF Nested
    <2> QED
      BY <2>1, <2>2
  <1>9. CASE Resolve(o)
    <2>1. home[RunOf[o]] \in Machine \cup {Nobody} /\ shared'[o] = home[RunOf[o]]
      BY <1>1, <1>2, <1>9, KeyTypes DEF Resolve, TypeOK
    <2>2. pc[o] = "resolving" /\ UNCHANGED drained
      BY <1>9 DEF Resolve
    <2>3. CASE home[RunOf[o]] = Nobody
      <3>1. pc'[o] = "runQueued" /\ UNCHANGED sharers
        BY <1>1, <1>2, <1>9, <2>3, <1>m DEF Resolve, TakeRun, Goto, TypeOK
      <3>2. OpInv(o)'
        BY <1>1, <1>4, <2>2, <3>1 DEF OpInv, Nested
      <3> QED
        BY <1>3, <1>5, <1>m, <2>1, <2>2, <2>3, <3>1, <3>2 DEF Nested
    <2>4. CASE home[RunOf[o]] # Nobody
      <3>1. JoinOrWait(o, home[RunOf[o]])
        BY <1>9, <2>4 DEF Resolve
      <3> QED
        BY <1>3, <1>8, <2>1, <2>2, <2>4, <3>1
    <2> QED
      BY <2>3, <2>4
  <1>10. CASE Join(o)
    <2>1. shared[o] \in Machine /\ shared'[o] = shared[o] /\ pc[o] = "waiting"
          /\ UNCHANGED drained /\ JoinOrWait(o, shared[o])
      BY <1>1, <1>2, <1>10 DEF Join, TypeOK, OpInv
    <2> QED
      BY <1>3, <1>8, <2>1
  <1>11. CASE TurnRun(o)
    <2>1. pc[o] = "runQueued" /\ pc'[o] = "inside" /\ UNCHANGED <<sharers, drained, shared>>
      BY <1>1, <1>2, <1>11 DEF TurnRun, Goto, TypeOK
    <2>2. OpInv(o)'
      BY <1>1, <1>4, <2>1 DEF OpInv, Nested
    <2> QED
      BY <1>3, <1>5, <2>1, <2>2 DEF Nested
  <1>12. CASE LeaveRun(o)
    <2>1. /\ pc[o] = "inside" /\ UNCHANGED <<sharers, drained, shared>>
          /\ pc'[o] = IF shared[o] = Nobody THEN "done" ELSE "leaving"
      BY <1>1, <1>2, <1>12 DEF LeaveRun, Goto, TypeOK
    <2>2. OpInv(o)'
      BY <1>1, <1>4, <2>1 DEF OpInv, Nested
    <2> QED
      BY <1>3, <1>5, <1>m, <2>1, <2>2 DEF Nested
  <1>13. CASE Unshare(o)
    <2> DEFINE m == shared[o]
    <2>1. /\ pc[o] = "leaving" /\ pc'[o] = "done" /\ UNCHANGED shared
          /\ m \in Machine
          /\ sharers' = [sharers EXCEPT ![m] = @ \ {o}]
          /\ drained' = IF sharers[m] = {o} THEN drained \ {m} ELSE drained
      BY <1>1, <1>2, <1>13 DEF Unshare, Goto, TypeOK, OpInv
    <2>2. OpInv(o)'
      BY <1>1, <1>4, <2>1 DEF OpInv, Nested
    <2>3. ASSUME NEW n \in Machine PROVE MachineInv(n)'
      <3>1. \A a \in Action : a # o => pc'[a] = pc[a] /\ shared'[a] = shared[a]
        BY <1>2 DEF StepOf, Op
      <3>2. sharers'[n] = IF n = m THEN sharers[n] \ {o} ELSE sharers[n]
        BY <1>2, <2>1 DEF TypeOK
      <3>3. o \in sharers[n] <=> n = m
        BY <2>1 DEF Inv, MachineInv
      <3>4. \A w \in Workflow : MachineOf[w] = n /\ In(w)' => sharers'[n] = {}
        BY <1>w, <3>2 DEF Inv, MachineInv, In
      <3>5. n \in drained' => sharers'[n] # {}
        <4>1. n \in drained => sharers[n] # {}
          BY DEF Inv, MachineInv
        <4>2. n = m /\ sharers[n] # {o} => sharers[n] \ {o} # {}
          BY <3>3
        <4> QED
          BY <2>1, <3>2, <4>1, <4>2
      <3>6. \A a \in Action :
              a \in sharers'[n] <=> shared'[a] = n /\ pc'[a] \in {"runQueued", "leaving"} \cup Nested
        BY <2>1, <3>1, <3>2, <3>3 DEF Inv, MachineInv, Nested
      <3> QED
        BY <3>4, <3>5, <3>6 DEF MachineInv
    <2> QED
      BY <1>3, <2>2, <2>3
  <1> QED
    BY <1>7, <1>9, <1>10, <1>11, <1>12, <1>13

\* The steps on a second run key keep both.
LEMMA InnerStepInv ==
  ASSUME Inv, NEW o \in Op, NEW r \in Run, TakeInner(o, r) \/ TurnInner(o) \/ LeaveInner(o)
  PROVE  /\ \A p \in Op : OpInv(p)'
         /\ \A m \in Machine : MachineInv(m)'
  <1>1. OpInv(o)
    BY DEF Inv
  <1>2. TypeOK /\ TypeOK' /\ StepOf(o)
    BY <1>1, InnerStepTypes DEF Inv
  <1>3. ASSUME NEW p \in Op \ {o} PROVE OpInv(p)'
    BY <1>2 DEF OpInv, StepOf, Inv
  <1>4. pc[o] \in Nested /\ pc'[o] \in Nested /\ UNCHANGED <<sharers, drained, shared>>
    BY <1>2 DEF TakeInner, TurnInner, LeaveInner, Goto, TypeOK, Nested
  <1>5. OpInv(o)'
    <2>1. CASE TakeInner(o, r)
      <3>1. /\ pc'[o] = "innerQueued" /\ inner'[o] = r /\ visited'[o] = visited[o] \cup {r}
            /\ shared'[o] = shared[o] /\ r # Nobody /\ (o \in Action => r = Source[o])
        BY <1>2, <2>1, KeyTypes DEF TakeInner, Goto, TypeOK, Reaches
      <3> QED
        BY <1>1, <1>4, <3>1 DEF OpInv, Nested
    <2>2. CASE TurnInner(o)
      <3>1. /\ pc[o] = "innerQueued" /\ pc'[o] = "innerInside" /\ inner'[o] = inner[o]
            /\ visited'[o] = visited[o] /\ shared'[o] = shared[o]
        BY <1>2, <2>2 DEF TurnInner, Goto, TypeOK
      <3> QED
        BY <1>1, <1>4, <3>1 DEF OpInv, Nested
    <2>3. CASE LeaveInner(o)
      <3>1. /\ pc'[o] = "inside" /\ inner'[o] = Nobody
            /\ visited'[o] = visited[o] /\ shared'[o] = shared[o]
        BY <1>2, <2>3 DEF LeaveInner, Goto, TypeOK
      <3> QED
        BY <1>1, <1>4, <3>1 DEF OpInv, Nested
    <2> QED
      BY <2>1, <2>2, <2>3
  <1>6. ASSUME NEW m \in Machine PROVE MachineInv(m)'
    <2>1. \A a \in Action : a # o => pc'[a] = pc[a] /\ shared'[a] = shared[a]
      BY <1>2 DEF StepOf, Op
    <2>2. \A a \in Action :
            (shared'[a] = m /\ pc'[a] \in {"runQueued", "leaving"} \cup Nested) <=>
            (shared[a] = m /\ pc[a] \in {"runQueued", "leaving"} \cup Nested)
      BY <1>4, <2>1
    <2>3. \A w \in Workflow : In(w)' <=> In(w)
      BY <1>2, <1>4 DEF In, StepOf, Op, Nested
    <2> QED
      BY <1>4, <2>2, <2>3 DEF Inv, MachineInv
  <1> QED
    BY <1>3, <1>5, <1>6

-----------------------------------------------------------------------------
(* The invariant of the keys *)

\* Taking or releasing one key leaves the others alone.
LEMMA OtherKeys ==
  ASSUME TypeOK, NEW o \in Op, NEW j \in Key, Enqueue(o, j) \/ Release(o, j),
         NEW k \in Key, k # j
  PROVE  /\ tail'[k] = tail[k]
         /\ \A p \in Op : prev'[p][k] = prev[p][k]
         /\ \A p \in Op : <<p, k>> \in settled' <=> <<p, k>> \in settled
         /\ settled \subseteq settled'
  BY DEF TypeOK, Enqueue, Release

LEMMA MachineStepKeys ==
  ASSUME Inv, NEW o \in Workflow, NEW k \in Key,
         RequestMachine(o) \/ TurnMachine(o) \/ Drained(o) \/ LeaveMachine(o)
  PROVE  KeyInv(k)'
  <1> DEFINE m == MachineOf[o]
  <1>1. o \in Op /\ o \notin Action /\ m \in Machine /\ m \in Key /\ OpInv(o) /\ KeyInv(k)
    BY KeyTypes DEF Op, Inv
  <1>2. TypeOK /\ TypeOK' /\ StepOf(o)
    BY MachineStepTypes DEF Inv
  <1>3. inner'[o] = inner[o] /\ visited'[o] = visited[o] /\ visited[o] \subseteq Run
    BY <1>1, <1>2 DEF RequestMachine, TurnMachine, Drained, LeaveMachine, TypeOK
  <1>4. m \notin visited[o] /\ (inner[o] = Nobody \/ inner[o] \in Run)
    BY <1>1, <1>2, <1>3, KeyTypes DEF TypeOK
  <1>5. CASE RequestMachine(o)
    <2>1. pc[o] = "new" /\ pc'[o] = "queued" /\ Enqueue(o, m)
      BY <1>1, <1>2, <1>5 DEF RequestMachine, Goto, TypeOK
    <2>2. inner[o] = Nobody
      BY <1>1, <2>1 DEF OpInv
    <2>3. CASE k = m
      <3>1. ~Taken(o, k) /\ Taken(o, k)' /\ Pending(o, k)' /\ ~Holding(o, k)'
        BY <1>1, <1>3, <1>4, <2>1, <2>2, <2>3, KeyTypes DEF Taken, Pending, Holding, Nested
      <3> QED
        BY <1>1, <1>2, <2>1, <2>3, <3>1, KeyTaken
    <2>4. CASE k # m
      <3>1. /\ Taken(o, k) <=> Taken(o, k)'
            /\ Pending(o, k) <=> Pending(o, k)'
            /\ ~Holding(o, k)'
        BY <1>1, <1>3, <2>1, <2>4 DEF Taken, Pending, Holding
      <3> QED
        BY <1>1, <1>2, <2>1, <2>4, <3>1, OtherKeys, KeyStays
    <2> QED
      BY <2>3, <2>4
  <1>6. CASE TurnMachine(o) \/ Drained(o)
    <2>1. UNCHANGED chain /\ pc[o] \in {"queued", "draining"} /\ pc'[o] \in {"draining", "inside"}
          /\ (pc[o] = "queued" => Turn(o, m))
      BY <1>1, <1>2, <1>6 DEF TurnMachine, Drained, CheckSharers, Goto, TypeOK
    <2>2. Turn(o, m)
      BY <1>1, <2>1 DEF Inv, KeyInv, Holding
    <2>3. /\ Taken(o, k) <=> Taken(o, k)'
          /\ Pending(o, k) <=> Pending(o, k)'
          /\ Holding(o, k)' => k = m
      BY <1>1, <1>3, <2>1 DEF Taken, Pending, Holding, Nested
    <2>4. Turn(o, m)'
      BY <2>1, <2>2 DEF Turn, chain
    <2> QED
      BY <1>1, <1>2, <2>1, <2>3, <2>4, KeyStays DEF chain
  <1>7. CASE LeaveMachine(o)
    <2>1. pc[o] = "inside" /\ pc'[o] = "done" /\ Release(o, m)
      BY <1>1, <1>2, <1>7 DEF LeaveMachine, Goto, TypeOK
    <2>2. inner[o] = Nobody
      BY <1>1, <2>1 DEF OpInv
    <2>3. CASE k = m
      <3>1. Holding(o, k) /\ Taken(o, k)' /\ ~Pending(o, k)' /\ ~Holding(o, k)'
        BY <1>1, <1>3, <1>4, <2>1, <2>2, <2>3, KeyTypes DEF Taken, Pending, Holding, Nested
      <3> QED
        BY <1>1, <1>2, <2>1, <2>3, <3>1, KeyReleased
    <2>4. CASE k # m
      <3>1. /\ Taken(o, k) <=> Taken(o, k)'
            /\ Pending(o, k) <=> Pending(o, k)'
            /\ ~Holding(o, k)'
        BY <1>1, <1>3, <2>1, <2>4 DEF Taken, Pending, Holding
      <3> QED
        BY <1>1, <1>2, <2>1, <2>4, <3>1, OtherKeys, KeyStays
    <2> QED
      BY <2>3, <2>4
  <1> QED
    BY <1>5, <1>6, <1>7

LEMMA RunStepKeys ==
  ASSUME Inv, NEW o \in Action, NEW k \in Key,
         RequestRun(o) \/ Resolve(o) \/ Join(o) \/ TurnRun(o) \/ LeaveRun(o) \/ Unshare(o)
  PROVE  KeyInv(k)'
  <1> DEFINE r == RunOf[o]
  <1>1. o \in Op /\ o \notin Workflow /\ r \in Run /\ r \in Key /\ OpInv(o) /\ KeyInv(k)
    BY KeyTypes DEF Op, Inv
  <1>2. TypeOK /\ TypeOK' /\ StepOf(o)
    BY <1>1, RunStepTypes DEF Inv
  <1>3. inner'[o] = inner[o] /\ visited'[o] = visited[o]
    BY DEF RequestRun, Resolve, Join, TurnRun, LeaveRun, Unshare
  <1>4. r \notin visited[o] /\ (inner[o] = Nobody \/ inner[o] # r)
    BY <1>1, KeyTypes DEF OpInv
  \* A step on no key at all.
  <1>5. ASSUME UNCHANGED chain, pc[o] \in {"new", "leaving"}, pc'[o] \in {"resolving", "done"},
               pc[o] = "new" <=> pc'[o] = "resolving"
        PROVE  KeyInv(k)'
    <2>1. Taken(o, k) <=> Taken(o, k)'
      BY <1>1, <1>3, <1>5 DEF Taken
    <2>2. (Pending(o, k) <=> Pending(o, k)') /\ ~Holding(o, k)'
      BY <1>1, <1>3, <1>5 DEF Pending, Holding, Nested
    <2> QED
      BY <1>1, <1>2, <1>5, <2>1, <2>2, KeyStays DEF chain
  \* A step that takes the run's key.
  <1>6. ASSUME TakeRun(o), pc[o] \in {"resolving", "waiting"} PROVE KeyInv(k)'
    <2>1. Enqueue(o, r) /\ pc'[o] = "runQueued"
      BY <1>1, <1>2, <1>6 DEF TakeRun, Goto, TypeOK
    <2>2. inner[o] = Nobody
      BY <1>1, <1>6 DEF OpInv
    <2>3. CASE k = r
      <3>1. ~Taken(o, k) /\ Taken(o, k)' /\ Pending(o, k)' /\ ~Holding(o, k)'
        BY <1>1, <1>3, <1>4, <1>6, <2>1, <2>2, <2>3, KeyTypes DEF Taken, Pending, Holding, Nested
      <3> QED
        BY <1>1, <1>2, <2>1, <2>3, <3>1, KeyTaken
    <2>4. CASE k # r
      <3>1. /\ Taken(o, k) <=> Taken(o, k)'
            /\ Pending(o, k) <=> Pending(o, k)'
            /\ ~Holding(o, k)'
        BY <1>1, <1>3, <2>1, <2>4 DEF Taken, Pending, Holding
      <3> QED
        BY <1>1, <1>2, <2>1, <2>4, <3>1, OtherKeys, KeyStays
    <2> QED
      BY <2>3, <2>4
  <1>7. ASSUME NEW m \in Machine, JoinOrWait(o, m), pc[o] \in {"resolving", "waiting"}
        PROVE  KeyInv(k)'
    <2>1. CASE tail[m] = Nobody
      BY <1>6, <1>7, <2>1 DEF JoinOrWait
    <2>2. CASE tail[m] # Nobody
      <3>1. /\ prev' = [prev EXCEPT ![o][m] = tail[m]] /\ pc'[o] = "waiting"
            /\ UNCHANGED <<tail, settled>>
        BY <1>1, <1>2, <1>7, <2>2 DEF JoinOrWait, Goto, TypeOK
      <3>2. /\ Taken(o, k) <=> Taken(o, k)'
            /\ Pending(o, k) <=> Pending(o, k)'
            /\ ~Holding(o, k)'
        BY <1>1, <1>3, <1>7, <3>1 DEF Taken, Pending, Holding, Nested
      <3>3. k = m => ~Pending(o, k)
        BY <1>1, <1>2, KeyTypes DEF Pending, TypeOK
      <3>4. \A p \in Op : p # o \/ Pending(o, k) => prev'[p][k] = prev[p][k]
        BY <1>1, <1>2, <3>1, <3>3 DEF TypeOK
      <3> QED
        BY <1>1, <1>2, <3>1, <3>2, <3>4, KeyStays
    <2> QED
      BY <2>1, <2>2
  <1>8. CASE RequestRun(o)
    BY <1>1, <1>2, <1>5, <1>8 DEF RequestRun, Goto, TypeOK
  <1>9. CASE Resolve(o)
    <2>1. home[r] \in Machine \cup {Nobody} /\ pc[o] = "resolving"
      BY <1>1, <1>2, <1>9 DEF Resolve, TypeOK
    <2> QED
      BY <1>6, <1>7, <1>9, <2>1 DEF Resolve
  <1>10. CASE Join(o)
    <2>1. shared[o] \in Machine /\ pc[o] = "waiting" /\ JoinOrWait(o, shared[o])
      BY <1>1, <1>2, <1>10 DEF Join, TypeOK, OpInv
    <2> QED
      BY <1>7, <2>1
  <1>11. CASE TurnRun(o)
    <2>1. UNCHANGED chain /\ pc[o] = "runQueued" /\ pc'[o] = "inside" /\ Turn(o, r)
      BY <1>1, <1>2, <1>11 DEF TurnRun, Goto, TypeOK
    <2>2. /\ Taken(o, k) <=> Taken(o, k)'
          /\ Pending(o, k) <=> Pending(o, k)'
          /\ Holding(o, k)' => k = r
      BY <1>1, <1>3, <2>1 DEF Taken, Pending, Holding, Nested
    <2>3. Turn(o, r)'
      BY <2>1 DEF Turn, chain
    <2> QED
      BY <1>1, <1>2, <2>1, <2>2, <2>3, KeyStays DEF chain
  <1>12. CASE LeaveRun(o)
    <2>1. pc[o] = "inside" /\ pc'[o] \in {"done", "leaving"} /\ Release(o, r)
      BY <1>1, <1>2, <1>12 DEF LeaveRun, Goto, TypeOK
    <2>2. inner[o] = Nobody
      BY <1>1, <2>1 DEF OpInv
    <2>3. CASE k = r
      <3>1. Holding(o, k) /\ Taken(o, k)' /\ ~Pending(o, k)' /\ ~Holding(o, k)'
        BY <1>1, <1>3, <1>4, <2>1, <2>2, <2>3, KeyTypes DEF Taken, Pending, Holding, Nested
      <3> QED
        BY <1>1, <1>2, <2>1, <2>3, <3>1, KeyReleased
    <2>4. CASE k # r
      <3>1. /\ Taken(o, k) <=> Taken(o, k)'
            /\ Pending(o, k) <=> Pending(o, k)'
            /\ ~Holding(o, k)'
        BY <1>1, <1>3, <2>1, <2>4 DEF Taken, Pending, Holding
      <3> QED
        BY <1>1, <1>2, <2>1, <2>4, <3>1, OtherKeys, KeyStays
    <2> QED
      BY <2>3, <2>4
  <1>13. CASE Unshare(o)
    BY <1>1, <1>2, <1>5, <1>13 DEF Unshare, Goto, TypeOK
  <1> QED
    BY <1>8, <1>9, <1>10, <1>11, <1>12, <1>13

LEMMA InnerStepKeys ==
  ASSUME Inv, NEW o \in Op, NEW r \in Run, NEW k \in Key,
         TakeInner(o, r) \/ TurnInner(o) \/ LeaveInner(o)
  PROVE  KeyInv(k)'
  <1>1. OpInv(o) /\ KeyInv(k) /\ r \in Key /\ k # Nobody
    BY KeyTypes DEF Inv, Key
  <1>2. TypeOK /\ TypeOK' /\ StepOf(o)
    BY <1>1, InnerStepTypes DEF Inv
  <1>3. pc[o] \in Nested /\ pc'[o] \in Nested
    BY <1>2 DEF TakeInner, TurnInner, LeaveInner, Goto, TypeOK, Nested
  \* The operation's own key.
  <1>4. o \in Workflow => r # MachineOf[o]
    BY KeyTypes
  <1>5. CASE TakeInner(o, r)
    <2>1. /\ pc[o] = "inside" /\ pc'[o] = "innerQueued" /\ Enqueue(o, r) /\ r \notin visited[o]
          /\ inner'[o] = r /\ visited'[o] = visited[o] \cup {r}
          /\ o \in Action => r = Source[o]
      BY <1>2, <1>5, KeyTypes DEF TakeInner, Goto, TypeOK, Reaches
    <2>2. inner[o] = Nobody /\ (o \in Action => r # RunOf[o])
      BY <1>1, <2>1, KeyTypes DEF OpInv
    <2>3. CASE k = r
      <3>1. ~Taken(o, k) /\ Taken(o, k)' /\ Pending(o, k)' /\ ~Holding(o, k)'
        BY <1>4, <2>1, <2>2, <2>3 DEF Taken, Pending, Holding, Nested
      <3> QED
        BY <1>1, <1>2, <2>1, <2>3, <3>1, KeyTaken
    <2>4. CASE k # r
      <3>1. /\ Taken(o, k) <=> Taken(o, k)'
            /\ Pending(o, k) <=> Pending(o, k)'
            /\ Holding(o, k)' => Holding(o, k)
        BY <1>1, <2>1, <2>2, <2>4 DEF Taken, Pending, Holding, Nested
      <3>2. Holding(o, k)' => Turn(o, k)'
        BY <1>1, <1>2, <2>1, <2>4, <3>1, OtherKeys DEF KeyInv, Turn
      <3> QED
        BY <1>1, <1>2, <2>1, <2>4, <3>1, <3>2, OtherKeys, KeyStays
    <2> QED
      BY <2>3, <2>4
  <1>6. CASE TurnInner(o)
    <2>1. /\ pc[o] = "innerQueued" /\ pc'[o] = "innerInside" /\ Turn(o, inner[o])
          /\ UNCHANGED <<chain, inner, visited>>
      BY <1>2, <1>6 DEF TurnInner, Goto, TypeOK
    <2>2. /\ Taken(o, k) <=> Taken(o, k)'
          /\ Pending(o, k) <=> Pending(o, k)'
          /\ Holding(o, k)' => Holding(o, k) \/ k = inner[o]
      BY <2>1 DEF Taken, Pending, Holding, Nested
    <2>3. Holding(o, k)' => Turn(o, k)'
      BY <1>1, <2>1, <2>2 DEF KeyInv, Turn, chain
    <2> QED
      BY <1>1, <1>2, <2>1, <2>2, <2>3, KeyStays DEF chain
  <1>7. CASE LeaveInner(o)
    <2> DEFINE i == inner[o]
    <2>1. /\ pc[o] = "innerInside" /\ pc'[o] = "inside" /\ Release(o, i)
          /\ inner'[o] = Nobody /\ visited'[o] = visited[o]
      BY <1>2, <1>7 DEF LeaveInner, Goto, TypeOK
    <2>2. i \in Run /\ i \in Key /\ i \in visited[o]
      BY <1>1, <1>2, <2>1, KeyTypes DEF OpInv, TypeOK
    <2>3. (o \in Workflow => i # MachineOf[o]) /\ (o \in Action => i # RunOf[o])
      BY <1>1, <2>2, KeyTypes DEF OpInv
    <2>4. CASE k = i
      <3>1. Holding(o, k) /\ Taken(o, k)' /\ ~Pending(o, k)' /\ ~Holding(o, k)'
        BY <1>1, <2>1, <2>2, <2>3, <2>4 DEF Taken, Pending, Holding
      <3> QED
        BY <1>1, <1>2, <2>1, <2>4, <3>1, KeyReleased
    <2>5. CASE k # i
      <3>1. /\ Taken(o, k) <=> Taken(o, k)'
            /\ Pending(o, k) <=> Pending(o, k)'
            /\ Holding(o, k)' => Holding(o, k)
        BY <1>1, <2>1, <2>5 DEF Taken, Pending, Holding, Nested
      <3>2. Holding(o, k)' => Turn(o, k)'
        BY <1>1, <1>2, <2>1, <2>2, <2>5, <3>1, OtherKeys DEF KeyInv, Turn
      <3> QED
        BY <1>1, <1>2, <2>1, <2>2, <2>5, <3>1, <3>2, OtherKeys, KeyStays
    <2> QED
      BY <2>4, <2>5
  <1> QED
    BY <1>5, <1>6, <1>7

-----------------------------------------------------------------------------
(* Initiation and steps *)

\* The invariant holds when no operation has been requested.
LEMMA InvInit == Init => Inv
  <1> SUFFICES ASSUME Init PROVE Inv
    OBVIOUS
  <1>1. TypeOK
    BY DEF Init, TypeOK, Step
  <1>2. \A o \in Op : pc[o] = "new" /\ inner[o] = Nobody /\ visited[o] = {}
    BY DEF Init
  <1>3. \A o \in Op : OpInv(o)
    BY <1>2 DEF OpInv
  <1>4. ASSUME NEW k \in Key PROVE KeyInv(k)
    <2>1. \A o \in Op : ~Pending(o, k) /\ ~Holding(o, k)
      BY <1>2, KeyTypes DEF Pending, Holding, Nested, Key
    <2>2. Chain(<<>>, k)
      BY <2>1 DEF Chain, Init
    <2> QED
      BY <2>1, <2>2, EmptySeq DEF KeyInv, Init
  <1>5. ASSUME NEW m \in Machine PROVE MachineInv(m)
    <2>1. sharers[m] = {} /\ drained = {}
      BY DEF Init
    <2>2. \A o \in Action : pc[o] = "new"
      BY <1>2 DEF Op
    <2> QED
      BY <2>1, <2>2 DEF MachineInv, Nested
  <1> QED
    BY <1>1, <1>3, <1>4, <1>5 DEF Inv

\* Every step keeps the invariant.
LEMMA InvStep == Inv /\ [Next]_vars => Inv'
  <1> SUFFICES ASSUME Inv, [Next]_vars PROVE Inv'
    OBVIOUS
  <1>o. \A o \in Op : OpInv(o) /\ (o \notin Workflow => o \in Action)
    BY DEF Inv, Op
  <1>1. ASSUME NEW o \in Workflow,
               RequestMachine(o) \/ TurnMachine(o) \/ Drained(o) \/ LeaveMachine(o)
        PROVE  Inv'
    BY <1>1, MachineStepTypes, MachineStepInv, MachineStepKeys DEF Inv
  <1>2. ASSUME NEW o \in Action,
               RequestRun(o) \/ Resolve(o) \/ Join(o) \/ TurnRun(o) \/ LeaveRun(o) \/ Unshare(o)
        PROVE  Inv'
    <2>1. o \in Op /\ OpInv(o)
      BY <1>o DEF Op
    <2> QED
      BY <1>2, <2>1, RunStepTypes, RunStepInv, RunStepKeys DEF Inv
  <1>3. ASSUME NEW o \in Op, NEW r \in Run, TakeInner(o, r) \/ TurnInner(o) \/ LeaveInner(o)
        PROVE  Inv'
    BY <1>o, <1>3, InnerStepTypes, InnerStepInv, InnerStepKeys DEF Inv
  <1>4. ASSUME NEW o \in Op, TurnInner(o) \/ LeaveInner(o) PROVE Inv'
    <2>1. inner[o] \in Run
      BY <1>o, <1>4 DEF TurnInner, LeaveInner, Inv, TypeOK, OpInv
    <2> QED
      BY <1>3, <1>4, <2>1
  <1>5. CASE UNCHANGED vars
    <2>1. TypeOK'
      BY <1>5 DEF Inv, TypeOK, vars
    <2>2. \A o \in Op : OpInv(o)'
      BY <1>5 DEF Inv, OpInv, vars
    <2>3. \A m \in Machine : MachineInv(m)'
      BY <1>5 DEF Inv, MachineInv, In, vars
    <2>4. ASSUME NEW k \in Key PROVE KeyInv(k)'
      <3>1. \A o \in Op : /\ Taken(o, k)' <=> Taken(o, k)
                          /\ Pending(o, k)' <=> Pending(o, k)
                          /\ Holding(o, k)' <=> Holding(o, k)
                          /\ Turn(o, k)' <=> Turn(o, k)
        BY <1>5 DEF Taken, Pending, Holding, Turn, vars
      <3>2. PICK c \in Seq(Op) : Chain(c, k)
        BY DEF Inv, KeyInv
      <3>3. Chain(c, k)'
        BY <1>5, <3>1, <3>2, ChainStays DEF vars
      <3> QED
        BY <1>5, <3>1, <3>3 DEF Inv, KeyInv, vars
    <2> QED
      BY <2>1, <2>2, <2>3, <2>4 DEF Inv
  <1>6. ASSUME NEW o \in Op, Request(o) \/ Proceed(o) \/ Leave(o) PROVE Inv'
    <2>1. CASE Request(o)
      BY <1>1, <1>2, <1>o, <2>1 DEF Request
    <2>2. CASE Proceed(o)
      BY <1>1, <1>2, <1>4, <2>2 DEF Proceed
    <2>3. CASE Leave(o)
      BY <1>1, <1>2, <1>4, <2>3 DEF Leave, LeaveMachine, LeaveRun
    <2> QED
      BY <1>6, <2>1, <2>2, <2>3
  <1> QED
    BY <1>3, <1>5, <1>6 DEF Next

-----------------------------------------------------------------------------
(* What follows *)

\* Two operations never mutate one run together: both would be first in its queue.
THEOREM RunMutationsAreSerial == Spec => []RunsAreSerial
  <1>1. ASSUME Inv, NEW r \in Run, NEW o \in Op, NEW p \in Op, InRun(o, r), InRun(p, r)
        PROVE  o = p
    <2>1. r \in Key /\ r # Nobody /\ OpInv(o) /\ OpInv(p) /\ KeyInv(r)
      BY <1>1, KeyTypes DEF Inv
    <2>2. Holding(o, r) /\ Holding(p, r)
      BY <1>1 DEF InRun, In, Holding, Nested
    <2>3. Pending(o, r) /\ Turn(o, r) /\ Pending(p, r) /\ Turn(p, r)
      BY <2>1, <2>2, HoldingIsPending DEF KeyInv
    <2>4. PICK c \in Seq(Op) : Chain(c, r)
      BY <2>1 DEF KeyInv
    <2>5. o = c[1] /\ p = c[1]
      BY <2>1, <2>3, <2>4, TurnIsFirst DEF KeyInv
    <2> QED
      BY <2>5
  <1>2. Inv => RunsAreSerial
    BY <1>1 DEF RunsAreSerial
  <1> QED
    BY <1>2, InvInit, InvStep, PTL DEF Spec

\* A workflow has its machine alone, against other workflows by the queue and against the
\* actions that share the machine because it waited for the last of them.
THEOREM MachineWorkflowsAreExclusive == Spec => []MachinesAreExclusive
  <1>1. ASSUME Inv, NEW o \in Workflow, In(o), NEW p \in Workflow, MachineOf[p] = MachineOf[o],
               In(p)
        PROVE  o = p
    <2> DEFINE m == MachineOf[o]
    <2>1. m \in Key /\ o \in Op /\ p \in Op
      BY KeyTypes DEF Op
    <2>i. OpInv(o) /\ OpInv(p) /\ KeyInv(m)
      BY <1>1, <2>1 DEF Inv
    <2>2. Holding(o, m) /\ Holding(p, m)
      BY <1>1 DEF In, Holding, Nested
    <2>3. Pending(o, m) /\ Turn(o, m) /\ Pending(p, m) /\ Turn(p, m)
      BY <2>1, <2>i, <2>2, HoldingIsPending DEF KeyInv
    <2>4. PICK c \in Seq(Op) : Chain(c, m)
      BY <2>i DEF KeyInv
    <2>5. o = c[1] /\ p = c[1]
      BY <2>1, <2>i, <2>3, <2>4, TurnIsFirst DEF KeyInv
    <2> QED
      BY <2>5
  <1>2. ASSUME Inv, NEW o \in Workflow, In(o), NEW p \in Action, shared[p] = MachineOf[o]
        PROVE  ~In(p)
    <2>1. MachineOf[o] \in Machine /\ sharers[MachineOf[o]] = {}
      BY <1>2, KeyTypes DEF Inv, MachineInv
    <2> QED
      BY <1>2, <2>1 DEF Inv, MachineInv, In, Nested
  <1>3. Inv => MachinesAreExclusive
    BY <1>1, <1>2 DEF MachinesAreExclusive
  <1> QED
    BY <1>3, InvInit, InvStep, PTL DEF Spec

\* The tables keep their types, and are empty when nothing is in flight.
THEOREM NothingIsLeft == Spec => []NothingLeft
  <1>1. ASSUME Inv, \A o \in Op : pc[o] \in {"new", "done"}
        PROVE  /\ tail = [k \in Key |-> Nobody]
               /\ sharers = [m \in Machine |-> {}]
               /\ drained = {}
    <2>1. ASSUME NEW k \in Key PROVE tail[k] = Nobody
      <3>1. ASSUME NEW o \in Op PROVE ~Pending(o, k)
        <4>1. inner[o] = Nobody /\ k # Nobody
          BY <1>1, KeyTypes DEF Inv, OpInv, Key
        <4> QED
          BY <1>1, <4>1 DEF Pending, Nested
      <3>2. PICK c \in Seq(Op) : Chain(c, k)
        BY <1>1 DEF Inv, KeyInv
      <3>3. c = <<>>
        <4> SUFFICES ASSUME c # <<>> PROVE FALSE
          OBVIOUS
        <4>1. 1 \in 1..Len(c) /\ c[1] \in Op
          BY EmptySeq, LenProperties
        <4> QED
          BY <3>1, <3>2, <4>1 DEF Chain
      <3> QED
        BY <3>2, <3>3 DEF Chain
    <2>2. ASSUME NEW m \in Machine PROVE sharers[m] = {} /\ m \notin drained
      <3>1. \A o \in Action : pc[o] \in {"new", "done"}
        BY <1>1 DEF Op
      <3>2. sharers[m] \subseteq Action
        BY <1>1 DEF Inv, TypeOK
      <3> QED
        BY <1>1, <3>1, <3>2 DEF Inv, MachineInv, Nested
    <2> QED
      BY <1>1, <2>1, <2>2 DEF Inv, TypeOK
  <1>2. Inv => NothingLeft
    BY <1>1 DEF NothingLeft, Inv
  <1> QED
    BY <1>2, InvInit, InvStep, PTL DEF Spec

=============================================================================
