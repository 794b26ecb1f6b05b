---------------------------- MODULE SessionWrite ----------------------------
(***************************************************************************)
(* The write side of a session of the TCP server (session.cpp: send,       *)
(* do_write, close): any thread appends to write_queue_, and the threads   *)
(* of io_context_ run do_write, which takes one message and hands it to    *)
(* async_write.                                                            *)
(*                                                                         *)
(* async_write tries the socket at once and writes what fits; the rest is  *)
(* written later from the buffer do_write was given, which is its local    *)
(* variable and gone by then: what is written then may be anything.        *)
(***************************************************************************)
EXTENDS Naturals, Sequences, FiniteSets

CONSTANTS
  Msgs,   \* the messages handed to send, each once
  Junk    \* bytes of memory that was freed

ASSUME WriteAssumption == IsFiniteSet(Msgs) /\ Junk \notin Msgs

VARIABLES
  queue,    \* write_queue_
  posting,  \* messages whose send has found the queue empty and not posted do_write yet
  posts,    \* calls of do_write that are posted and not begun
  st,       \* st[m]: where message m is
  open,     \* the socket is open
  wire,     \* the pieces of messages written to the socket
  pushed,   \* history: the messages in the order of their push
  overlap   \* history: two messages were being written at once

vars == <<queue, posting, posts, st, open, wire, pushed, overlap>>

(* "popped": taken by do_write; "rest": async_write has not written it all;  *)
(* "sent" and "failed": async_write is over and its handler has yet to run.  *)
States == {"unsent", "queued", "popped", "rest", "sent", "failed", "done"}
Writing == {"popped", "rest", "sent", "failed"}
Busy(s) == \E m \in Msgs : s[m] \in Writing

Init ==
  /\ queue = <<>>
  /\ posting = {}
  /\ posts = 0
  /\ st = [m \in Msgs |-> "unsent"]
  /\ open = TRUE
  /\ wire = <<>>
  /\ pushed = <<>>
  /\ overlap = FALSE

\* Mutant of Send: the test for a write in progress comes after the push.
SendLateTest(m) ==
  /\ st[m] = "unsent"
  /\ queue' = Append(queue, m)
  /\ pushed' = Append(pushed, m)
  /\ st' = [st EXCEPT ![m] = "queued"]
  /\ UNCHANGED <<posting, posts, open, wire, overlap>>

\* send: the critical section ...
Send(m) ==
  /\ st[m] = "unsent"
  /\ queue' = Append(queue, m)
  /\ pushed' = Append(pushed, m)
  /\ st' = [st EXCEPT ![m] = "queued"]
  /\ posting' = IF queue = <<>> THEN posting \cup {m} ELSE posting
  /\ UNCHANGED <<posts, open, wire, overlap>>

\* ... and what follows it.
Post(m) ==
  /\ m \in posting
  /\ posting' = posting \ {m}
  /\ posts' = posts + 1
  /\ UNCHANGED <<queue, st, open, wire, pushed, overlap>>

\* Mutant of Take: the newest message is taken.
TakeLast(s) ==
  IF queue = <<>> THEN st' = s /\ UNCHANGED <<queue, overlap>>
  ELSE /\ queue' = SubSeq(queue, 1, Len(queue) - 1)
       /\ st' = [s EXCEPT ![queue[Len(queue)]] = "popped"]
       /\ overlap' = (overlap \/ Busy(s))

\* Mutant of Take: the message stays in the queue.
TakeKeeps(s) ==
  IF queue = <<>> THEN st' = s /\ UNCHANGED <<queue, overlap>>
  ELSE /\ UNCHANGED queue
       /\ st' = [s EXCEPT ![Head(queue)] = "popped"]
       /\ overlap' = (overlap \/ Busy(s))

\* The critical section of do_write, s being where the messages are.
Take(s) ==
  IF queue = <<>> THEN st' = s /\ UNCHANGED <<queue, overlap>>
  ELSE /\ queue' = Tail(queue)
       /\ st' = [s EXCEPT ![Head(queue)] = "popped"]
       /\ overlap' = (overlap \/ Busy(s))

DoWrite ==
  /\ posts > 0
  /\ posts' = posts - 1
  /\ Take(st)
  /\ UNCHANGED <<posting, open, wire, pushed>>

\* async_write: what the socket takes at once, all, a part or nothing.
Write(m) ==
  /\ st[m] = "popped"
  /\ \/ open /\ st' = [st EXCEPT ![m] = "sent"] /\ wire' = Append(wire, <<m, "whole">>)
     \/ open /\ st' = [st EXCEPT ![m] = "rest"] /\ wire' = Append(wire, <<m, "head">>)
     \/ open /\ st' = [st EXCEPT ![m] = "rest"] /\ UNCHANGED wire
     \/ ~open /\ st' = [st EXCEPT ![m] = "failed"] /\ UNCHANGED wire
  /\ UNCHANGED <<queue, posting, posts, open, pushed, overlap>>

\* The rest of it when the socket has room again.
WriteRest(m) ==
  /\ st[m] = "rest"
  /\ \/ /\ open /\ st' = [st EXCEPT ![m] = "sent"]
        /\ \E bytes \in {m, Junk} : wire' = Append(wire, <<bytes, "rest">>)
     \/ ~open /\ st' = [st EXCEPT ![m] = "failed"] /\ UNCHANGED wire
  /\ UNCHANGED <<queue, posting, posts, open, pushed, overlap>>

\* The handler of async_write goes on with the next message, or closes.
Complete(m) ==
  \/ /\ st[m] = "sent"
     /\ Take([st EXCEPT ![m] = "done"])
     /\ UNCHANGED <<posting, posts, open, wire, pushed>>
  \/ /\ st[m] = "failed"
     /\ st' = [st EXCEPT ![m] = "done"]
     /\ open' = FALSE
     /\ UNCHANGED <<queue, posting, posts, wire, pushed, overlap>>

\* The client goes, or the server closes the session.
Close ==
  /\ open
  /\ open' = FALSE
  /\ UNCHANGED <<queue, posting, posts, st, wire, pushed, overlap>>

Next ==
  \/ \E m \in Msgs : Send(m) \/ Post(m) \/ Write(m) \/ WriteRest(m) \/ Complete(m)
  \/ DoWrite
  \/ Close

Spec == Init /\ [][Next]_vars

-----------------------------------------------------------------------------
Pieces == (Msgs \X {"whole", "head"}) \cup ((Msgs \cup {Junk}) \X {"rest"})

TypeOK ==
  /\ queue \in Seq(Msgs)
  /\ posting \in SUBSET Msgs
  /\ posts \in Nat
  /\ st \in [Msgs -> States]
  /\ open \in BOOLEAN
  /\ wire \in Seq(Pieces)
  /\ pushed \in Seq(Msgs)
  /\ overlap \in BOOLEAN
  /\ \A i \in 1..Len(queue) :
       st[queue[i]] = "queued" /\ \A j \in 1..Len(queue) : queue[i] = queue[j] => i = j

(* No wake-up is lost although do_write empties the queue before its       *)
(* message is written: while a message is queued on an open socket, some   *)
(* call of do_write is posted, about to be posted, or under way.           *)
QueueServed ==
  queue # <<>> /\ open =>
    posts > 0 \/ posting # {} \/ \E m \in Msgs : st[m] \in {"popped", "rest", "sent"}

(* No message is begun twice, whatever overlaps.  And as long as no two    *)
(* messages were being written at once and the socket took each message at *)
(* once, the client receives whole messages in the order in which they     *)
(* were sent.                                                              *)
BegunOnce ==
  \A i, j \in 1..Len(wire) :
    wire[i][2] # "rest" /\ wire[j][2] # "rest" /\ wire[i][1] = wire[j][1] => i = j

Undisturbed ==
  /\ open /\ ~overlap
  /\ \A m \in Msgs : st[m] # "rest"
  /\ \A i \in 1..Len(wire) : wire[i][2] = "whole"

Written == [i \in 1..Len(wire) |-> wire[i][1]]
Taken == {m \in Msgs : st[m] = "popped"}

Ordered ==
  Undisturbed =>
    IF Taken = {} THEN pushed = Written \o queue
                  ELSE \E m \in Taken : pushed = Written \o <<m>> \o queue

InOrder == BegunOnce /\ Ordered
=============================================================================
