------------------------- MODULE SessionWriteProofs -------------------------
(***************************************************************************)
(* Proofs about SessionWrite, for any number of messages: no wake-up of    *)
(* the write chain is lost, no message is begun twice, and undisturbed     *)
(* writes keep whole messages in order.                                    *)
(***************************************************************************)
EXTENDS SessionWrite, SequenceTheorems, TLAPS

(* Until two writes overlap, at most one message is being written.         *)
OneAtATime ==
  ~overlap => \A m, n \in Msgs : st[m] \in Writing /\ st[n] \in Writing => m = n

(* It all holds initially.                                                 *)
LEMMA InitWrite == Init => TypeOK /\ QueueServed /\ OneAtATime /\ Ordered
<1> SUFFICES ASSUME Init PROVE TypeOK /\ QueueServed /\ OneAtATime /\ Ordered
  OBVIOUS
<1>1. TypeOK
  <2>1. queue = <<>> /\ Len(queue) = 0 /\ queue \in Seq(Msgs) /\ pushed \in Seq(Msgs)
        /\ wire \in Seq(Pieces)
    BY EmptySeq DEF Init
  <2>2. \A i \in 1..Len(queue) : FALSE  BY <2>1
  <2> QED  BY <2>1, <2>2 DEF Init, TypeOK, States
<1>2. QueueServed /\ OneAtATime  BY DEF Init, QueueServed, OneAtATime, Writing
<1>3. Taken = {} /\ Written = <<>> /\ pushed = <<>> /\ queue = <<>>
  BY DEF Init, Taken, Written
<1>4. <<>> \o <<>> = <<>>  BY EmptySeq, ConcatEmptySeq
<1> QED  BY <1>1, <1>2, <1>3, <1>4 DEF Ordered

\* A queue that is not empty is its first message and the rest.
LEMMA Front ==
  ASSUME TypeOK, queue # <<>>
  PROVE  /\ Head(queue) \in Msgs /\ st[Head(queue)] = "queued"
         /\ Tail(queue) \in Seq(Msgs) /\ queue = <<Head(queue)>> \o Tail(queue)
         /\ Len(Tail(queue)) = Len(queue) - 1 /\ Len(queue) \in Nat \ {0}
         /\ Head(queue) = queue[1]
         /\ \A i \in 1..Len(Tail(queue)) : Tail(queue)[i] = queue[i + 1]
<1>1. queue \in Seq(Msgs) /\ Len(queue) \in Nat \ {0}  BY EmptySeq DEF TypeOK
<1>2. /\ Head(queue) \in Msgs /\ Tail(queue) \in Seq(Msgs)
      /\ Len(Tail(queue)) = Len(queue) - 1 /\ Head(queue) = queue[1]
      /\ \A i \in 1..Len(Tail(queue)) : Tail(queue)[i] = queue[i + 1]
  BY <1>1
<1>3. st[Head(queue)] = "queued"  BY <1>1, <1>2 DEF TypeOK
<1>4. SubSeq(queue, 1, Len(queue)) = <<queue[1]>> \o SubSeq(queue, 2, Len(queue))
  BY <1>1, SubSeqRecursiveFirst
<1>5. queue = <<Head(queue)>> \o Tail(queue)
  BY <1>1, <1>2, <1>4, SubSeqFull, TailIsSubSeq
<1> QED  BY <1>1, <1>2, <1>3, <1>5

-----------------------------------------------------------------------------
LEMMA TakeType ==
  ASSUME TypeOK, NEW s \in [Msgs -> States], Take(s),
         \A m \in Msgs : st[m] = "queued" => s[m] = "queued"
  PROVE  /\ queue' \in Seq(Msgs) /\ st' \in [Msgs -> States] /\ overlap' \in BOOLEAN
         /\ \A i \in 1..Len(queue') : st'[queue'[i]] = "queued"
         /\ \A i, j \in 1..Len(queue') : queue'[i] = queue'[j] => i = j
<1>1. CASE queue = <<>>  BY <1>1 DEF Take, TypeOK
<1>2. CASE queue # <<>>
  <2>1. queue' = Tail(queue) /\ st' = [s EXCEPT ![Head(queue)] = "popped"]  BY <1>2 DEF Take
  <2>2. queue' \in Seq(Msgs) /\ st' \in [Msgs -> States]  BY <1>2, <2>1, Front DEF States
  <2>3. overlap' \in BOOLEAN  BY Zenon, <1>2 DEF Take, TypeOK, Busy
  <2>4. ASSUME NEW i \in 1..Len(queue') PROVE st'[queue'[i]] = "queued"
    <3>1. i + 1 \in 1..Len(queue) /\ queue'[i] = queue[i + 1] /\ 1 \in 1..Len(queue) /\ i + 1 # 1
      BY <1>2, <2>1, <2>4, Front
    <3>2. queue[i + 1] # queue[1] /\ st[queue[i + 1]] = "queued" /\ queue[i + 1] \in Msgs
      BY <3>1 DEF TypeOK
    <3> QED  BY <1>2, <2>1, <3>1, <3>2, Front
  <2>5. ASSUME NEW i \in 1..Len(queue'), NEW j \in 1..Len(queue'), queue'[i] = queue'[j]
        PROVE  i = j
    <3>1. i + 1 \in 1..Len(queue) /\ j + 1 \in 1..Len(queue) /\ queue[i + 1] = queue[j + 1]
      BY <1>2, <2>1, <2>5, Front
    <3>2. i + 1 = j + 1  BY <3>1 DEF TypeOK
    <3>3. i \in Int /\ j \in Int  BY <2>2
    <3> QED  BY <3>2, <3>3
  <2> QED  BY <2>2, <2>3, <2>4, <2>5
<1> QED  BY <1>1, <1>2

\* A message that is not queued moves on.
LEMMA MoveType ==
  ASSUME TypeOK, NEW m \in Msgs, st[m] # "queued", NEW to \in States \ {"queued"},
         st' = [st EXCEPT ![m] = to], UNCHANGED <<queue, posting, posts, pushed, overlap>>,
         open' \in BOOLEAN, wire' \in Seq(Pieces)
  PROVE  TypeOK'
<1>1. st' \in [Msgs -> States]  BY DEF TypeOK
<1>2. \A i \in 1..Len(queue) : queue[i] \in Msgs  BY DEF TypeOK
<1>3. \A i \in 1..Len(queue) : st'[queue[i]] = "queued"  BY <1>2 DEF TypeOK
<1> QED  BY <1>1, <1>3 DEF TypeOK

LEMMA StepType == TypeOK /\ [Next]_vars => TypeOK'
<1> SUFFICES ASSUME TypeOK, [Next]_vars PROVE TypeOK'
  OBVIOUS
<1>1. ASSUME NEW m \in Msgs, Send(m) PROVE TypeOK'
  <2>1. queue' = Append(queue, m) /\ queue' \in Seq(Msgs) /\ Len(queue') = Len(queue) + 1
        /\ queue'[Len(queue) + 1] = m /\ \A i \in 1..Len(queue) : queue'[i] = queue[i]
        /\ Len(queue) \in Nat
    BY <1>1 DEF Send, TypeOK
  <2>2. st' \in [Msgs -> States] /\ st'[m] = "queued"
        /\ \A i \in 1..Len(queue) : queue[i] # m /\ st'[queue[i]] = "queued"
    BY <1>1 DEF Send, TypeOK, States
  <2>3. \A i \in 1..Len(queue') : i \in 1..Len(queue) \/ i = Len(queue) + 1  BY <2>1
  <2>4. \A i \in 1..Len(queue') : st'[queue'[i]] = "queued"  BY <2>1, <2>2, <2>3
  <2>5. \A i, j \in 1..Len(queue') : queue'[i] = queue'[j] => i = j
    BY <2>1, <2>2, <2>3 DEF TypeOK
  <2>6. posting' \in SUBSET Msgs  BY <1>1 DEF Send, TypeOK
  <2>7. pushed' \in Seq(Msgs)  BY <1>1 DEF Send, TypeOK
  <2> QED  BY <1>1, <2>1, <2>2, <2>4, <2>5, <2>6, <2>7 DEF Send, TypeOK
<1>2. ASSUME NEW m \in Msgs, Post(m) PROVE TypeOK'  BY <1>2 DEF Post, TypeOK
<1>3. ASSUME NEW m \in Msgs, Write(m) PROVE TypeOK'
  <2>1. Append(wire, <<m, "whole">>) \in Seq(Pieces) /\ Append(wire, <<m, "head">>) \in Seq(Pieces)
    BY AppendProperties DEF TypeOK, Pieces
  <2>2. PICK to \in {"sent", "rest", "failed"} : st' = [st EXCEPT ![m] = to]
    BY <1>3 DEF Write
  <2>3. wire' \in Seq(Pieces)  BY <1>3, <2>1 DEF Write, TypeOK
  <2>4. open' \in BOOLEAN  BY <1>3 DEF Write, TypeOK
  <2> QED  BY <1>3, <2>2, <2>3, <2>4, MoveType DEF Write, States
<1>4. ASSUME NEW m \in Msgs, WriteRest(m) PROVE TypeOK'
  <2>1. \A b \in {m, Junk} : Append(wire, <<b, "rest">>) \in Seq(Pieces)
    BY AppendProperties DEF TypeOK, Pieces
  <2>2. PICK to \in {"sent", "failed"} : st' = [st EXCEPT ![m] = to]
    BY <1>4 DEF WriteRest
  <2>3. wire' \in Seq(Pieces)  BY <1>4, <2>1 DEF WriteRest, TypeOK
  <2>4. open' \in BOOLEAN  BY <1>4 DEF WriteRest, TypeOK
  <2> QED  BY <1>4, <2>2, <2>3, <2>4, MoveType DEF WriteRest, States
<1>5. ASSUME NEW m \in Msgs, Complete(m) PROVE TypeOK'
  <2>1. CASE st[m] = "sent" /\ Take([st EXCEPT ![m] = "done"])
             /\ UNCHANGED <<posting, posts, open, wire, pushed>>
    <3>1. [st EXCEPT ![m] = "done"] \in [Msgs -> States]  BY DEF TypeOK, States
    <3>2. \A n \in Msgs : st[n] = "queued" => [st EXCEPT ![m] = "done"][n] = "queued"
      BY <2>1 DEF TypeOK
    <3> QED  BY <2>1, <3>1, <3>2, TakeType DEF TypeOK
  <2>2. CASE /\ st[m] = "failed" /\ st' = [st EXCEPT ![m] = "done"] /\ open' = FALSE
             /\ UNCHANGED <<queue, posting, posts, wire, pushed, overlap>>
    BY <2>2, MoveType DEF States, TypeOK
  <2> QED  BY <1>5, <2>1, <2>2 DEF Complete
<1>6. CASE DoWrite
  <2>1. st \in [Msgs -> States] /\ Take(st)  BY <1>6 DEF DoWrite, TypeOK
  <2>2. posts' \in Nat  BY <1>6 DEF DoWrite, TypeOK
  <2> QED  BY <1>6, <2>1, <2>2, TakeType DEF DoWrite, TypeOK
<1>7. CASE Close  BY <1>7 DEF Close, TypeOK
<1>8. CASE UNCHANGED vars  BY <1>8 DEF vars, TypeOK
<1> QED  BY <1>1, <1>2, <1>3, <1>4, <1>5, <1>6, <1>7, <1>8 DEF Next

(* The queue holds the queued messages, each once, and the rest is typed.  *)
THEOREM WriteTypes == Spec => []TypeOK
<1> QED  BY InitWrite, StepType, PTL DEF Spec

-----------------------------------------------------------------------------
\* Whoever takes a message goes on with it.
LEMMA TakeServes ==
  ASSUME TypeOK, NEW s \in [Msgs -> States], Take(s)
  PROVE  queue' # <<>> => \E m \in Msgs : st'[m] \in {"popped", "rest", "sent"}
<1> SUFFICES ASSUME queue' # <<>> PROVE st'[Head(queue)] = "popped" /\ Head(queue) \in Msgs
  OBVIOUS
<1>1. queue # <<>>  BY DEF Take
<1> QED  BY <1>1, Front DEF Take

LEMMA StepServed == TypeOK /\ QueueServed /\ [Next]_vars => QueueServed'
<1> SUFFICES ASSUME TypeOK, QueueServed, [Next]_vars PROVE QueueServed'
  OBVIOUS
<1> DEFINE Chain == \E m \in Msgs : st[m] \in {"popped", "rest", "sent"}
<1>1. ASSUME NEW m \in Msgs, Send(m) PROVE QueueServed'
  <2>1. CASE queue = <<>>  BY <1>1, <2>1 DEF Send, QueueServed
  <2>2. CASE queue # <<>>
    <3>1. Chain => Chain'  BY <1>1 DEF Send, TypeOK
    <3> QED  BY <1>1, <2>2, <3>1 DEF Send, QueueServed
  <2> QED  BY <2>1, <2>2
<1>2. ASSUME NEW m \in Msgs, Post(m) PROVE QueueServed'
  BY <1>2 DEF Post, QueueServed, TypeOK
<1>3. ASSUME NEW m \in Msgs, Write(m) \/ WriteRest(m) PROVE QueueServed'
  <2>1. open' = open  BY <1>3 DEF Write, WriteRest
  <2>2. CASE ~open  BY <2>1, <2>2 DEF QueueServed
  <2>3. CASE open
    <3>1. st'[m] \in {"rest", "sent"}  BY <1>3, <2>3 DEF Write, WriteRest, TypeOK
    <3> QED  BY <3>1 DEF QueueServed
  <2> QED  BY <2>2, <2>3 DEF TypeOK
<1>4. ASSUME NEW m \in Msgs, Complete(m) PROVE QueueServed'
  <2>1. CASE Take([st EXCEPT ![m] = "done"])
    <3>1. [st EXCEPT ![m] = "done"] \in [Msgs -> States]  BY DEF TypeOK, States
    <3> QED  BY <2>1, <3>1, TakeServes DEF QueueServed
  <2>2. CASE open' = FALSE  BY <2>2 DEF QueueServed
  <2> QED  BY <1>4, <2>1, <2>2 DEF Complete
<1>5. CASE DoWrite
  <2>1. st \in [Msgs -> States] /\ Take(st)  BY <1>5 DEF DoWrite, TypeOK
  <2> QED  BY <2>1, TakeServes DEF QueueServed
<1>6. CASE Close  BY <1>6 DEF Close, QueueServed
<1>7. CASE UNCHANGED vars  BY <1>7 DEF vars, QueueServed
<1> QED  BY <1>1, <1>2, <1>3, <1>4, <1>5, <1>6, <1>7 DEF Next

(* While a message is queued on an open socket, a call of do_write is      *)
(* posted, about to be posted, or under way.                               *)
THEOREM NoLostWakeup == Spec => []QueueServed
<1> QED  BY InitWrite, StepServed, WriteTypes, PTL DEF Spec

-----------------------------------------------------------------------------
LEMMA TakeAlone ==
  ASSUME TypeOK, NEW s \in [Msgs -> States], Take(s), ~overlap',
         \A m, n \in Msgs : s[m] \in Writing /\ s[n] \in Writing => m = n
  PROVE  /\ \A m, n \in Msgs : st'[m] \in Writing /\ st'[n] \in Writing => m = n
         /\ ~overlap
         /\ queue # <<>> => \A m \in Msgs : s[m] \notin Writing
<1>1. CASE queue = <<>>  BY <1>1 DEF Take
<1>2. CASE queue # <<>>
  <2>1. st' = [s EXCEPT ![Head(queue)] = "popped"] /\ ~overlap /\ ~Busy(s)
    BY Zenon, <1>2 DEF Take
  <2>2. \A m \in Msgs : s[m] \notin Writing  BY <2>1 DEF Busy
  <2> QED  BY <2>1, <2>2
<1> QED  BY <1>1, <1>2

LEMMA StepAlone == TypeOK /\ OneAtATime /\ [Next]_vars => OneAtATime'
<1> SUFFICES ASSUME TypeOK, OneAtATime, [Next]_vars, ~overlap'
             PROVE  \A m, n \in Msgs : st'[m] \in Writing /\ st'[n] \in Writing => m = n
  BY DEF OneAtATime
<1>2. ASSUME NEW m \in Msgs, Send(m) \/ Write(m) \/ WriteRest(m)
      PROVE  \A x, y \in Msgs : st'[x] \in Writing /\ st'[y] \in Writing => x = y
  <2>1. ~overlap  BY <1>2 DEF Send, Write, WriteRest
  <2>2. \A x \in Msgs : st'[x] \in Writing => st[x] \in Writing
    BY <1>2 DEF Send, Write, WriteRest, TypeOK, Writing
  <2> QED  BY <2>1, <2>2 DEF OneAtATime
<1>3. ASSUME NEW m \in Msgs, Complete(m)
      PROVE  \A x, y \in Msgs : st'[x] \in Writing /\ st'[y] \in Writing => x = y
  <2> DEFINE s == [st EXCEPT ![m] = "done"]
  <2>1. s \in [Msgs -> States] /\ \A x \in Msgs : s[x] \in Writing => st[x] \in Writing
    BY DEF TypeOK, States, Writing
  <2>2. CASE Take(s)
    <3>1. overlap => overlap'  BY Zenon, <2>2 DEF Take
    <3>2. \A x, y \in Msgs : s[x] \in Writing /\ s[y] \in Writing => x = y
      BY <2>1, <3>1 DEF OneAtATime
    <3> HIDE DEF s
    <3> QED  BY <2>1, <2>2, <3>2, TakeAlone
  <2>3. CASE st' = s /\ overlap' = overlap  BY <2>1, <2>3 DEF OneAtATime
  <2> QED  BY <1>3, <2>2, <2>3 DEF Complete
<1>4. CASE DoWrite
  <2>1. st \in [Msgs -> States] /\ Take(st)  BY <1>4 DEF DoWrite, TypeOK
  <2>2. overlap => overlap'  BY Zenon, <2>1 DEF Take
  <2> QED  BY <2>1, <2>2, TakeAlone DEF OneAtATime
<1>5. CASE UNCHANGED <<st, overlap>>  BY <1>5 DEF OneAtATime
<1> QED  BY <1>2, <1>3, <1>4, <1>5 DEF Next, Post, Close, vars

-----------------------------------------------------------------------------
(* The pieces on the wire, as messages.                                    *)
LEMMA WrittenTyped ==
  ASSUME TypeOK, Undisturbed
  PROVE  Written \in Seq(Msgs) /\ Len(Written) = Len(wire)
<1>1. \A i \in 1..Len(wire) : wire[i] \in Pieces /\ wire[i][2] = "whole"
  BY DEF TypeOK, Undisturbed
<1>2. \A i \in 1..Len(wire) : wire[i][1] \in Msgs  BY <1>1 DEF Pieces
<1>3. Len(wire) \in Nat  BY DEF TypeOK
<1> QED  BY <1>2, <1>3 DEF Written

LEMMA WrittenAppend ==
  ASSUME TypeOK, TypeOK', Undisturbed, Undisturbed', NEW m \in Msgs,
         wire' = Append(wire, <<m, "whole">>)
  PROVE  Written' = Written \o <<m>>
<1>1. Written \in Seq(Msgs) /\ Len(Written) = Len(wire) /\ Len(wire) \in Nat
  BY WrittenTyped DEF TypeOK
<1>2. /\ Len(wire') = Len(wire) + 1 /\ wire'[Len(wire) + 1] = <<m, "whole">>
      /\ \A i \in 1..Len(wire) : wire'[i] = wire[i]
  BY DEF TypeOK
<1>3. Written' \in Seq(Msgs) /\ Len(Written') = Len(wire')
  <2>1. \A i \in 1..Len(wire') : wire'[i] \in Pieces /\ wire'[i][2] = "whole"
    BY DEF TypeOK, Undisturbed
  <2>2. \A i \in 1..Len(wire') : wire'[i][1] \in Msgs  BY <2>1 DEF Pieces
  <2>3. Len(wire') \in Nat  BY DEF TypeOK
  <2> QED  BY <2>2, <2>3 DEF Written
<1>4. Append(Written, m) \in Seq(Msgs) /\ Len(Append(Written, m)) = Len(wire')
      /\ \A i \in 1..Len(wire') : Append(Written, m)[i] =
            IF i = Len(wire) + 1 THEN m ELSE Written[i]
  BY <1>1, <1>2
<1>5. \A i \in 1..Len(wire') : Written'[i] = Append(Written, m)[i]
  BY <1>1, <1>2, <1>4 DEF Written
<1>6. Written' = Append(Written, m)  BY <1>3, <1>4, <1>5, SeqEqual
<1> QED  BY <1>1, <1>6, AppendIsConcat

\* Disturbance is for good.
LEMMA Disturbed ==
  ASSUME TypeOK, [Next]_vars, Undisturbed'
  PROVE  Undisturbed
<1>1. open /\ ~overlap
  <2>1. open' => open
    BY Zenon DEF Next, Send, Post, Write, WriteRest, Complete, DoWrite, Close, vars
  <2>2. ASSUME NEW s, Take(s) PROVE overlap => overlap'  BY Zenon, <2>2 DEF Take
  <2>3. UNCHANGED overlap \/ \E s : Take(s)
    BY DEF Next, Send, Post, Write, WriteRest, Complete, DoWrite, Close, vars
  <2>4. overlap => overlap'  BY Zenon, <2>2, <2>3
  <2> QED  BY Zenon, <2>1, <2>4 DEF Undisturbed
<1>2. \A i \in 1..Len(wire) : wire[i][2] = "whole"
  <2>1. \/ wire' = wire
        \/ \E p \in Pieces : wire' = Append(wire, p)
    BY DEF Next, Send, Post, Write, WriteRest, Complete, DoWrite, Close, vars, Pieces
  <2>2. CASE wire' = wire  BY <2>2 DEF Undisturbed
  <2>3. ASSUME NEW p \in Pieces, wire' = Append(wire, p)
        PROVE  \A i \in 1..Len(wire) : wire[i][2] = "whole"
    <3>1. Len(wire) \in Nat /\ Len(wire') = Len(wire) + 1
          /\ \A i \in 1..Len(wire) : wire'[i] = wire[i]
      BY <2>3 DEF TypeOK
    <3> QED  BY <3>1 DEF Undisturbed
  <2> QED  BY <2>1, <2>2, <2>3
<1>3. ASSUME NEW m \in Msgs, st[m] = "rest" PROVE FALSE
  <2>1. st'[m] # "rest" /\ open'  BY DEF Undisturbed
  <2>2. WriteRest(m)
    <3>1. ASSUME NEW s \in [Msgs -> States], s[m] = "rest", Take(s) PROVE st'[m] = "rest"
      BY <1>3, <3>1, Front DEF Take
    <3>2. ASSUME NEW x \in Msgs, Send(x) \/ Post(x) \/ Write(x) \/ (WriteRest(x) /\ x # m)
          PROVE  FALSE
      BY <1>3, <2>1, <3>2 DEF Send, Post, Write, WriteRest, TypeOK
    <3>3. ASSUME NEW x \in Msgs, Complete(x) PROVE FALSE
      <4>1. [st EXCEPT ![x] = "done"] \in [Msgs -> States]  BY DEF TypeOK, States
      <4>2. x # m /\ [st EXCEPT ![x] = "done"][m] = "rest"
        BY <1>3, <3>3 DEF Complete, TypeOK
      <4>3. CASE Take([st EXCEPT ![x] = "done"])  BY <2>1, <3>1, <4>1, <4>2, <4>3
      <4>4. CASE st' = [st EXCEPT ![x] = "done"]  BY <2>1, <4>2, <4>4
      <4> QED  BY <3>3, <4>3, <4>4 DEF Complete
    <3>4. CASE DoWrite  BY <1>3, <2>1, <3>1, <3>4 DEF DoWrite, TypeOK
    <3>5. CASE Close \/ UNCHANGED vars  BY <1>3, <2>1, <3>5 DEF Close, vars
    <3> QED  BY <3>2, <3>3, <3>4, <3>5 DEF Next
  <2>3. PICK b \in {m, Junk} : wire' = Append(wire, <<b, "rest">>)
    BY <1>1, <2>2 DEF WriteRest
  <2>4. Len(wire) + 1 \in 1..Len(wire') /\ wire'[Len(wire) + 1] = <<b, "rest">>
    BY <2>3 DEF TypeOK
  <2> QED  BY <2>4 DEF Undisturbed
<1> QED  BY <1>1, <1>2, <1>3 DEF Undisturbed

-----------------------------------------------------------------------------
\* Sequences: what is written, taken and queued, put together in two ways.
LEMMA Regroup ==
  ASSUME NEW w \in Seq(Msgs), NEW m \in Msgs, NEW q \in Seq(Msgs)
  PROVE  /\ (w \o <<m>>) \o q = w \o (<<m>> \o q)
         /\ Append(w \o q, m) = w \o Append(q, m)
<1>1. <<m>> \in Seq(Msgs)  OBVIOUS
<1>2. (w \o <<m>>) \o q = w \o (<<m>> \o q)  BY <1>1, ConcatAssociative
<1>3. (w \o q) \o <<m>> = w \o (q \o <<m>>)  BY <1>1, ConcatAssociative
<1>4. w \o q \in Seq(Msgs)  BY ConcatProperties
<1> QED  BY <1>2, <1>3, <1>4, AppendIsConcat

\* Nothing was taken before, and now the first queued message is, or nothing is queued.
LEMMA TakeOrder ==
  ASSUME TypeOK, NEW s \in [Msgs -> States], Take(s), UNCHANGED <<wire, pushed>>, Undisturbed,
         pushed = Written \o queue,
         queue # <<>> \/ \A m \in Msgs : s[m] # "popped"
  PROVE  IF Taken' = {} THEN pushed' = Written' \o queue'
                        ELSE \E m \in Taken' : pushed' = Written' \o <<m>> \o queue'
<1>1. Written' = Written /\ Written \in Seq(Msgs)  BY WrittenTyped DEF Written
<1>2. CASE queue = <<>>
  <2>1. Taken' = {}  BY <1>2 DEF Take, Taken
  <2> QED  BY <1>1, <1>2, <2>1 DEF Take
<1>3. CASE queue # <<>>
  <2>1. Head(queue) \in Taken'  BY <1>3, Front DEF Take, Taken
  <2>2. /\ Head(queue) \in Msgs /\ Tail(queue) \in Seq(Msgs)
        /\ queue = <<Head(queue)>> \o Tail(queue) /\ queue' = Tail(queue)
    BY <1>3, Front DEF Take
  <2>3. pushed = Written \o (<<Head(queue)>> \o Tail(queue))  BY Zenon, <2>2
  <2>4. pushed = (Written \o <<Head(queue)>>) \o Tail(queue)  BY <1>1, <2>2, <2>3, Regroup
  <2>5. pushed' = Written' \o <<Head(queue)>> \o queue'  BY Zenon, <1>1, <2>2, <2>4
  <2> QED  BY <2>1, <2>5
<1> QED  BY <1>2, <1>3

LEMMA StepOrder ==
  TypeOK /\ TypeOK' /\ OneAtATime /\ OneAtATime' /\ Ordered /\ [Next]_vars => Ordered'
<1> SUFFICES ASSUME TypeOK, TypeOK', OneAtATime, OneAtATime', Ordered, [Next]_vars, Undisturbed'
             PROVE  IF Taken' = {} THEN pushed' = Written' \o queue'
                                   ELSE \E m \in Taken' : pushed' = Written' \o <<m>> \o queue'
  BY DEF Ordered
<1>1. Undisturbed  BY Disturbed
<1>2. /\ Taken = {} => pushed = Written \o queue
      /\ Taken # {} => \E m \in Taken : pushed = Written \o <<m>> \o queue
  BY <1>1 DEF Ordered
<1>3. Written \in Seq(Msgs) /\ queue \in Seq(Msgs) /\ Len(Written) = Len(wire)
  BY <1>1, WrittenTyped DEF TypeOK
<1>4. CASE UNCHANGED <<wire, pushed, queue, st>>
  <2>1. Written' = Written /\ Taken' = Taken  BY <1>4 DEF Written, Taken
  <2> QED  BY <1>2, <1>4, <2>1
<1>5. ASSUME NEW m \in Msgs, Send(m) PROVE Ordered'
  <2>1. Written' = Written /\ queue' = Append(queue, m) /\ pushed' = Append(pushed, m)
    BY <1>5 DEF Send, Written
  <2>2. Taken' = Taken  BY <1>5 DEF Send, Taken, TypeOK
  <2>3. CASE Taken = {}
    <3>1. Append(Written \o queue, m) = Written \o Append(queue, m)  BY <1>3, Regroup
    <3>2. pushed' = Written' \o queue'  BY Zenon, <1>2, <2>1, <2>3, <3>1
    <3> QED  BY <2>2, <2>3, <3>2 DEF Ordered
  <2>4. CASE Taken # {}
    <3>1. PICK x \in Taken : pushed = Written \o <<x>> \o queue  BY <1>2, <2>4
    <3>2. Written \o <<x>> \in Seq(Msgs)  BY <1>3 DEF Taken
    <3>3. Append(Written \o <<x>> \o queue, m) = Written \o <<x>> \o Append(queue, m)
      BY <1>3, <3>2, Regroup
    <3>4. pushed' = Written' \o <<x>> \o queue'  BY Zenon, <2>1, <3>1, <3>3
    <3> QED  BY <2>2, <3>1, <3>4 DEF Ordered
  <2> QED  BY <2>3, <2>4
<1>6. ASSUME NEW m \in Msgs, Write(m) PROVE Ordered'
  <2>1. open /\ open' /\ st'[m] # "rest" /\ ~overlap  BY <1>1 DEF Undisturbed
  <2>2. /\ st[m] = "popped" /\ st' = [st EXCEPT ![m] = "sent"]
        /\ wire' = Append(wire, <<m, "whole">>) /\ UNCHANGED <<queue, pushed>>
    BY <1>6, <2>1 DEF Write, TypeOK
  <2>3. Written' = Written \o <<m>>  BY <1>1, <2>2, WrittenAppend
  <2>4. \A x \in Taken : x = m  BY <2>1, <2>2 DEF Taken, OneAtATime, Writing
  <2>5. Taken' = {}  BY <2>2, <2>4 DEF Taken, TypeOK
  <2>6. m \in Taken  BY <2>2 DEF Taken
  <2> QED  BY <1>2, <2>2, <2>3, <2>4, <2>5, <2>6 DEF Ordered
<1>7. ASSUME NEW m \in Msgs, WriteRest(m) PROVE FALSE
  BY <1>1, <1>7 DEF WriteRest, Undisturbed
<1>8. ASSUME NEW m \in Msgs, Complete(m) PROVE Ordered'
  <2> DEFINE s == [st EXCEPT ![m] = "done"]
  <2>1. open' /\ ~overlap  BY <1>1 DEF Undisturbed
  <2>2. st[m] = "sent" /\ Take(s) /\ UNCHANGED <<wire, pushed>>
    BY <1>8, <2>1 DEF Complete
  <2>3. s \in [Msgs -> States]  BY DEF TypeOK, States
  <2>4. Taken = {}  BY <2>1, <2>2 DEF Taken, OneAtATime, Writing
  <2>5. \A x \in Msgs : s[x] # "popped"  BY <2>4 DEF Taken, TypeOK
  <2>6. pushed = Written \o queue  BY <1>2, <2>4
  <2> HIDE DEF s
  <2> QED  BY <1>1, <2>2, <2>3, <2>5, <2>6, TakeOrder DEF Ordered
<1>9. CASE DoWrite
  <2>1. st \in [Msgs -> States] /\ Take(st) /\ UNCHANGED <<wire, pushed>>
    BY <1>9 DEF DoWrite, TypeOK
  <2>2. CASE queue = <<>>
    <3>1. UNCHANGED <<queue, st>>  BY <2>1, <2>2 DEF Take
    <3> QED  BY <1>4, <2>1, <3>1
  <2>3. CASE queue # <<>>
    <3>1. ~Busy(st)
      <4>1. ~overlap'  BY DEF Undisturbed
      <4> QED  BY Zenon, <2>1, <2>3, <4>1 DEF Take
    <3>2. Taken = {}  BY <3>1 DEF Busy, Writing, Taken
    <3> QED  BY <1>1, <1>2, <2>1, <2>3, <3>2, TakeOrder
  <2> QED  BY <2>2, <2>3
<1> QED
  BY <1>4, <1>5, <1>6, <1>7, <1>8, <1>9 DEF Next, Post, Close, vars, Ordered

-----------------------------------------------------------------------------
(* What the wire shows of a message's beginning has left the queue.        *)
Begun == {"rest", "sent", "failed", "done"}
BegunGone == \A i \in 1..Len(wire) : wire[i][2] # "rest" => st[wire[i][1]] \in Begun

(* A message that was begun stays so.                                      *)
LEMMA TakeBegun ==
  ASSUME TypeOK, NEW s \in [Msgs -> States], Take(s),
         \A m \in Msgs : st[m] = "queued" => s[m] = "queued"
  PROVE  \A m \in Msgs : s[m] \in Begun => st'[m] \in Begun
<1>1. CASE queue = <<>>  BY <1>1 DEF Take
<1>2. CASE queue # <<>>
  <2>1. Head(queue) \in Msgs /\ s[Head(queue)] = "queued"  BY <1>2, Front
  <2> QED  BY <1>2, <2>1 DEF Take, Begun
<1> QED  BY <1>1, <1>2

(* Every step keeps that, and no message begun is begun again.             *)
LEMMA StepBegun == TypeOK /\ BegunGone /\ BegunOnce /\ [Next]_vars => BegunGone' /\ BegunOnce'
<1> SUFFICES ASSUME TypeOK, BegunGone, BegunOnce, [Next]_vars PROVE BegunGone' /\ BegunOnce'
  OBVIOUS
<1>t. st \in [Msgs -> States] /\ wire \in Seq(Pieces)  BY DEF TypeOK
<1>p. \A i \in 1..Len(wire) : wire[i][2] # "rest" => wire[i][1] \in Msgs
  BY <1>t DEF Pieces
<1>1. ASSUME UNCHANGED wire, \A m \in Msgs : st[m] \in Begun => st'[m] \in Begun
      PROVE  BegunGone' /\ BegunOnce'
  BY <1>p, <1>1 DEF BegunGone, BegunOnce
<1>2. ASSUME NEW m \in Msgs, NEW to \in Begun, st' = [st EXCEPT ![m] = to],
             NEW b, NEW part, wire' = Append(wire, <<b, part>>),
             part = "rest" \/ (b = m /\ st[m] = "popped")
      PROVE  BegunGone' /\ BegunOnce'
  <2>1. \A n \in Msgs : st[n] \in Begun => st'[n] \in Begun  BY <1>t, <1>2
  <2>2. /\ Len(wire) \in Nat /\ Len(wire') = Len(wire) + 1
        /\ \A i \in 1..Len(wire) : wire'[i] = wire[i]
        /\ wire'[Len(wire) + 1] = <<b, part>>
    BY <1>t, <1>2
  <2>3. \A i \in 1..Len(wire') : i \in 1..Len(wire) \/ i = Len(wire) + 1  BY <2>2
  <2>4. part # "rest" => \A i \in 1..Len(wire) : wire[i][2] # "rest" => wire[i][1] # m
    BY <1>2 DEF BegunGone, Begun
  <2>5. st'[m] = to  BY <1>t, <1>2
  <2>6. BegunGone'  BY <1>2, <1>p, <2>1, <2>2, <2>3, <2>5 DEF BegunGone
  <2>7. BegunOnce'  BY <1>2, <2>2, <2>3, <2>4 DEF BegunOnce
  <2> QED  BY <2>6, <2>7
<1>3. ASSUME NEW m \in Msgs, Send(m) PROVE BegunGone' /\ BegunOnce'
  BY <1>1, <1>3, <1>t DEF Send, Begun
<1>4. ASSUME NEW m \in Msgs, Write(m) PROVE BegunGone' /\ BegunOnce'
  <2>1. CASE UNCHANGED wire
    BY <1>1, <1>4, <1>t, <2>1 DEF Write, Begun
  <2>2. CASE st' = [st EXCEPT ![m] = "sent"] /\ wire' = Append(wire, <<m, "whole">>)
    BY <1>2, <1>4, <2>2 DEF Write, Begun
  <2>3. CASE st' = [st EXCEPT ![m] = "rest"] /\ wire' = Append(wire, <<m, "head">>)
    BY <1>2, <1>4, <2>3 DEF Write, Begun
  <2> QED  BY <1>4, <2>1, <2>2, <2>3 DEF Write
<1>5. ASSUME NEW m \in Msgs, WriteRest(m) PROVE BegunGone' /\ BegunOnce'
  <2>1. CASE UNCHANGED wire
    BY <1>1, <1>5, <1>t, <2>1 DEF WriteRest, Begun
  <2>2. CASE wire' # wire
    <3>1. PICK bytes \in {m, Junk} : wire' = Append(wire, <<bytes, "rest">>)
      BY <1>5, <2>2 DEF WriteRest
    <3>2. st' = [st EXCEPT ![m] = "sent"]  BY <1>5, <2>2 DEF WriteRest
    <3> QED  BY <1>2, <3>1, <3>2 DEF Begun
  <2> QED  BY <2>1, <2>2
<1>6. ASSUME NEW m \in Msgs, Complete(m) PROVE BegunGone' /\ BegunOnce'
  <2>1. CASE st[m] = "sent" /\ Take([st EXCEPT ![m] = "done"]) /\ UNCHANGED wire
    <3> DEFINE s == [st EXCEPT ![m] = "done"]
    <3>1. s \in [Msgs -> States] /\ \A n \in Msgs : st[n] = "queued" => s[n] = "queued"
      BY <1>t, <2>1 DEF States
    <3>2. \A n \in Msgs : s[n] \in Begun => st'[n] \in Begun  BY <2>1, <3>1, TakeBegun
    <3>3. \A n \in Msgs : st[n] \in Begun => s[n] \in Begun  BY <1>t DEF Begun
    <3> QED  BY <1>1, <2>1, <3>2, <3>3
  <2>2. CASE st[m] = "failed" /\ st' = [st EXCEPT ![m] = "done"] /\ UNCHANGED wire
    BY <1>1, <1>t, <2>2 DEF Begun
  <2> QED  BY <1>6, <2>1, <2>2 DEF Complete
<1>7. ASSUME DoWrite PROVE BegunGone' /\ BegunOnce'
  BY <1>1, <1>t, <1>7, TakeBegun DEF DoWrite
<1>8. ASSUME UNCHANGED <<st, wire>> PROVE BegunGone' /\ BegunOnce'
  BY <1>1, <1>8
<1> QED
  BY <1>3, <1>4, <1>5, <1>6, <1>7, <1>8 DEF Next, Post, Close, vars

(* No message is begun twice, also while several are being written; and    *)
(* undisturbed, the client receives whole messages in the order sent.      *)
THEOREM WritesInOrder == Spec => []InOrder
<1>1. Init => BegunGone /\ BegunOnce
  BY DEF Init, BegunGone, BegunOnce
<1>2. Spec => [](BegunGone /\ BegunOnce)
  BY <1>1, StepBegun, WriteTypes, PTL DEF Spec
<1>3. Spec => []Ordered
  BY InitWrite, StepAlone, StepOrder, WriteTypes, PTL DEF Spec
<1> QED  BY <1>2, <1>3, PTL DEF InOrder
=============================================================================
