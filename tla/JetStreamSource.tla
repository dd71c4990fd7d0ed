-------------------------- MODULE JetStreamSource --------------------------
(***************************************************************************)
(* The source of the batcher (source.rs): the durable explicit-ack pull    *)
(* consumer of the JetStream server, as far as the code relies on it, and  *)
(* the task that pulls messages, decodes them and feeds the channel to the *)
(* run loop.                                                               *)
(*                                                                         *)
(* A message is "available" to the consumer, "pending" once delivered and  *)
(* not acked, and "acked" for good.  A message not yet published is one    *)
(* that has not been delivered yet.                                        *)
(***************************************************************************)
EXTENDS Accumulator

CONSTANTS FetchBatch  \* BATCHER_FETCH_BATCH

ASSUME FetchAssumption == FetchBatch \in Nat

VARIABLES
    delivery,  \* the server's view of each message
    fetched,   \* messages of the current pull not yet looked at by drain_batch
    channel    \* envelopes sent to the run loop and not yet received

sourceVars == <<delivery, fetched, channel>>

(* The consumer config written by ensure_consumer. *)
MaxAckPending ==
    IF 2 * MaxRecords > 2 * FetchBatch THEN 2 * MaxRecords ELSE 2 * FetchBatch

AckPending == {m \in Msgs : delivery[m] = "pending"}
Available == {m \in Msgs : delivery[m] = "available"}

(* mpsc::channel(batch.max_records.max(1)) *)
ChannelCapacity == AtLeastOne(MaxRecords)

SourceInit ==
    /\ delivery = [m \in Msgs |-> "available"]
    /\ fetched = <<>>
    /\ channel = <<>>

-----------------------------------------------------------------------------
\* Mutant of Deliver: a message that is pending is delivered again.
DeliverAgain(m) ==
    /\ delivery[m] # "acked"
    /\ Cardinality(AckPending) < MaxAckPending
    /\ Len(fetched) < AtLeastOne(FetchBatch)
    /\ delivery' = [delivery EXCEPT ![m] = "pending"]
    /\ fetched' = Append(fetched, m)
    /\ UNCHANGED channel

(* The server hands a message to the open pull request: new messages and     *)
(* redeliveries alike, never more than max_ack_pending unacked.  What is not *)
(* kept is how much of its max_messages a request has used up: the next one  *)
(* is taken to follow without a gap.                                         *)
Deliver(m) ==
    /\ delivery[m] = "available"
    /\ Cardinality(AckPending) < MaxAckPending
    /\ Len(fetched) < AtLeastOne(FetchBatch)
    /\ delivery' = [delivery EXCEPT ![m] = "pending"]
    /\ fetched' = Append(fetched, m)
    /\ UNCHANGED channel

(* An ack reaches the server: it settles the message whichever delivery it   *)
(* answers, a delivery already timed out included.                           *)
ServerAck(m) == delivery' = [delivery EXCEPT ![m] = "acked"]

(* ack_wait has passed since the delivery of m: it will be redelivered.      *)
AckWait(m) ==
    /\ delivery[m] = "pending"
    /\ delivery' = [delivery EXCEPT ![m] = "available"]
    /\ UNCHANGED <<fetched, channel>>

(* process_message on a payload that does not decode: ack it and drop it.    *)
DropUndecodable ==
    /\ fetched # <<>>
    /\ Head(fetched) \in Undecodable
    /\ ServerAck(Head(fetched))
    /\ fetched' = Tail(fetched)
    /\ UNCHANGED channel

(* The same when the ack is lost: the failure is logged, the message dropped. *)
DropUnacked ==
    /\ fetched # <<>>
    /\ Head(fetched) \in Undecodable
    /\ fetched' = Tail(fetched)
    /\ UNCHANGED <<delivery, channel>>

\* Mutant of Send: the payload is not decoded before it is passed on.
SendUndecoded ==
    /\ fetched # <<>>
    /\ Len(channel) < ChannelCapacity
    /\ channel' = Append(channel, Head(fetched))
    /\ fetched' = Tail(fetched)
    /\ UNCHANGED delivery

(* process_message on a trade, then tx.send, which waits for room.           *)
Send ==
    /\ fetched # <<>>
    /\ Head(fetched) \notin Undecodable
    /\ Len(channel) < ChannelCapacity
    /\ channel' = Append(channel, Head(fetched))
    /\ fetched' = Tail(fetched)
    /\ UNCHANGED delivery

(* The pull stream fails: what it had not yielded yet is left to ack_wait.   *)
FetchError ==
    /\ fetched # <<>>
    /\ fetched' = <<>>
    /\ UNCHANGED <<delivery, channel>>

PullStep == (\E m \in Msgs : Deliver(m)) \/ DropUndecodable \/ Send

-----------------------------------------------------------------------------
SourceTypeOK ==
    /\ delivery \in [Msgs -> {"available", "pending", "acked"}]
    /\ fetched \in Seq(Msgs)
    /\ channel \in Seq(Msgs \ Undecodable)

=============================================================================
