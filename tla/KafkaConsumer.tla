---------------------------- MODULE KafkaConsumer ----------------------------
(***************************************************************************)
(* pkg/kafka: the consumers of one group on one partition of a topic.      *)
(*                                                                         *)
(* Start fetches a message, gives it to a handler with retries, routes it  *)
(* to the dead-letter topic when they are used up, and marks its offset as *)
(* done whatever came out.  The reader (kafka-go, external) sends marked   *)
(* offsets to the broker once a second, so a consumer that stops loses its *)
(* marks, and gives the partition to another consumer while the old one    *)
(* may still have a message in hand.                                       *)
(*                                                                         *)
(* What a handler does is left open: it succeeds or fails.  Modules that   *)
(* EXTEND this one say what it does.                                       *)
(***************************************************************************)
EXTENDS Naturals, Sequences

CONSTANTS
  Consumers,    \* instances of the service, one Start loop each
  Published,    \* the sequence of messages published to the topic
  Undecodable,  \* messages that are not an event envelope
  MaxRetries,   \* Config.MaxRetries
  DLQSuffix,    \* Config.DLQSuffix, "" when it is not set
  MaxLog,       \* bound: messages in the topic
  MaxFaults     \* bound: crashes, shutdowns, rebalances and failed broker calls

ASSUME ConsumerAssumption ==
  /\ Published \in Seq(Nat)
  /\ MaxRetries \in Nat
  /\ MaxLog \in Nat
  /\ MaxFaults \in Nat

VARIABLES
  log,        \* the topic: original messages and whatever is published to it later
  dlq,        \* the dead-letter topic, if it is another one
  committed,  \* the offset of the group stored by the broker: messages up to it are done
  owner,      \* the consumer the partition is assigned to, if any: a set of at most one
  next,       \* the offset a consumer fetches next
  pc,         \* what it is doing
  hand,       \* the offset of the message in its hands
  attempt,    \* attempts of the handler at it
  mark,       \* the offset its reader will commit, 0 for none
  handled,    \* history: offsets some handler call succeeded for
  lost,       \* history: offsets whose dead letter could not be written
  faults      \* faults so far

reader == <<owner, next, mark, committed>>
topics == <<log, dlq>>
history == <<handled, lost>>
consumerVars == <<reader, topics, history, pc, hand, attempt, faults>>

Offsets == Nat

ConsumerInit ==
  /\ log = Published
  /\ dlq = <<>>
  /\ committed = 0
  /\ owner = {}
  /\ next = [c \in Consumers |-> 1]
  /\ pc = [c \in Consumers |-> "fetch"]
  /\ hand = [c \in Consumers |-> 0]
  /\ attempt = [c \in Consumers |-> 0]
  /\ mark = [c \in Consumers |-> 0]
  /\ handled = {}
  /\ lost = {}
  /\ faults = 0

Fault == faults < MaxFaults /\ faults' = faults + 1
NoFault == faults' = faults

-----------------------------------------------------------------------------
(* The reader *)

\* The group coordinator gives the partition to c, which goes on from the committed
\* offset.  The old owner, if there is one, is not interrupted.
Assign(c) ==
  /\ c \notin owner
  /\ IF owner = {} THEN NoFault ELSE Fault
  /\ owner' = {c}
  /\ next' = [next EXCEPT ![c] = committed + 1]
  /\ UNCHANGED <<topics, history, committed, mark, pc, hand, attempt>>

\* CommitInterval has passed: the marked offset goes to the broker.
CommitMarked(c) ==
  /\ mark[c] # 0
  /\ committed' = mark[c]
  /\ mark' = [mark EXCEPT ![c] = 0]
  /\ UNCHANGED <<topics, history, owner, next, pc, hand, attempt, faults>>

-----------------------------------------------------------------------------
(* Start *)

\* FetchMessage, and UnmarshalEnvelope in processMessage.
FetchMessage(c) ==
  /\ pc[c] = "fetch"
  /\ c \in owner
  /\ next[c] <= Len(log)
  /\ hand' = [hand EXCEPT ![c] = next[c]]
  /\ next' = [next EXCEPT ![c] = @ + 1]
  /\ pc' = [pc EXCEPT ![c] = IF log[next[c]] \in Undecodable THEN "dead" ELSE "handle"]
  /\ attempt' = [attempt EXCEPT ![c] = 1]
  /\ UNCHANGED <<topics, history, owner, mark, committed, faults>>

HandlerSucceeds(c) ==
  /\ pc[c] = "handle"
  /\ pc' = [pc EXCEPT ![c] = "mark"]
  /\ handled' = handled \cup {hand[c]}
  /\ UNCHANGED <<reader, topics, lost, hand, attempt, faults>>

MaxAttempts == IF MaxRetries < 1 THEN 1 ELSE MaxRetries

\* Mutant: a message whose attempts are used up is skipped.
SkipExhausted(c) ==
  /\ pc[c] = "handle"
  /\ pc' = [pc EXCEPT ![c] = "mark"]
  /\ UNCHANGED <<reader, topics, history, hand, attempt>>

\* ExecuteWithRetry: the next attempt, or the dead-letter topic after the last.
HandlerFails(c) ==
  /\ pc[c] = "handle"
  /\ IF attempt[c] < MaxAttempts
     THEN /\ attempt' = [attempt EXCEPT ![c] = @ + 1]
          /\ UNCHANGED pc
     ELSE /\ pc' = [pc EXCEPT ![c] = "dead"]
          /\ UNCHANGED attempt
  /\ UNCHANGED <<reader, topics, history, hand>>

\* The topic's name with DLQSuffix: without one, the topic itself.
PublishToDLQ(c) ==
  /\ pc[c] = "dead"
  /\ Len(log) < MaxLog
  /\ IF DLQSuffix = ""
     THEN log' = Append(log, log[hand[c]]) /\ UNCHANGED dlq
     ELSE dlq' = Append(dlq, log[hand[c]]) /\ UNCHANGED log
  /\ pc' = [pc EXCEPT ![c] = "mark"]
  /\ UNCHANGED <<reader, history, hand, attempt, faults>>

\* The dead letter cannot be written; Start drops the error.
DLQFails(c) ==
  /\ pc[c] = "dead"
  /\ Fault
  /\ pc' = [pc EXCEPT ![c] = "mark"]
  /\ lost' = lost \cup {hand[c]}
  /\ UNCHANGED <<reader, topics, handled, hand, attempt>>

\* The larger of the offsets marked so far and this one.
Marked(c) == IF mark[c] > hand[c] THEN mark[c] ELSE hand[c]

\* CommitMessages, whatever processMessage returned.
CommitMessages(c) ==
  /\ pc[c] = "mark"
  /\ mark' = [mark EXCEPT ![c] = Marked(c)]
  /\ pc' = [pc EXCEPT ![c] = "fetch"]
  /\ UNCHANGED <<topics, history, owner, next, committed, hand, attempt, faults>>

-----------------------------------------------------------------------------
(* Ends of a process; it is started again. *)

\* Marks that were not committed are gone.
Crash(c) ==
  /\ Fault
  /\ pc' = [pc EXCEPT ![c] = "fetch"]
  /\ mark' = [mark EXCEPT ![c] = 0]
  /\ owner' = owner \ {c}
  /\ UNCHANGED <<topics, history, next, committed, hand, attempt>>

\* The context is cancelled: the handler's calls and the dead letter fail, and
\* CommitMessages may still pass the offset to the reader, which commits it in Close.
Shutdown(c) ==
  /\ Fault
  /\ \/ /\ pc[c] \in {"handle", "dead"}
        /\ lost' = lost \cup {hand[c]}
        /\ committed' = Marked(c)
     \/ /\ pc[c] = "mark"
        /\ committed' = Marked(c)
        /\ UNCHANGED lost
     \/ /\ committed' = IF mark[c] = 0 THEN committed ELSE mark[c]
        /\ UNCHANGED lost
  /\ pc' = [pc EXCEPT ![c] = "fetch"]
  /\ mark' = [mark EXCEPT ![c] = 0]
  /\ owner' = owner \ {c}
  /\ UNCHANGED <<topics, handled, next, hand, attempt>>

-----------------------------------------------------------------------------
LoopStep(c) == FetchMessage(c) \/ PublishToDLQ(c) \/ CommitMessages(c)
ReaderStep(c) == Assign(c) \/ CommitMarked(c)
FaultStep(c) == DLQFails(c) \/ Crash(c) \/ Shutdown(c)

\* A failing attempt is a fault of the services the handler calls.
ConsumerNext ==
  \E c \in Consumers :
    \/ LoopStep(c)
    \/ HandlerSucceeds(c)
    \/ HandlerFails(c) /\ Fault
    \/ ReaderStep(c)
    \/ FaultStep(c)

ConsumerSpec == ConsumerInit /\ [][ConsumerNext]_consumerVars

-----------------------------------------------------------------------------
(* Properties *)

Phases == {"fetch", "handle", "dead", "mark"}

ConsumerTypeOK ==
  /\ log \in Seq(Nat)
  /\ dlq \in Seq(Nat)
  /\ committed \in Offsets
  /\ owner \in SUBSET Consumers
  /\ next \in [Consumers -> Offsets \ {0}]
  /\ pc \in [Consumers -> Phases]
  /\ hand \in [Consumers -> Offsets]
  /\ attempt \in [Consumers -> 0..MaxAttempts]
  /\ mark \in [Consumers -> Offsets]
  /\ handled \in SUBSET Offsets
  /\ lost \in SUBSET Offsets
  /\ faults \in 0..MaxFaults

\* Message n of the topic has been written again as a dead letter.
DeadLettered(n) ==
  \/ \E k \in DOMAIN dlq : dlq[k] = log[n]
  \/ \E k \in DOMAIN log : k > n /\ log[k] = log[n]

\* At-least-once: an offset the broker counts as done belongs to a message that a
\* handler accepted or that was dead-lettered, whatever crashes, shutdowns and
\* rebalances happened; the exceptions are the dead letters that could not be written.
NothingDropped ==
  \A n \in 1..committed : n \in handled \cup lost \/ DeadLettered(n)
=============================================================================
