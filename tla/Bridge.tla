------------------------------- MODULE Bridge --------------------------------
(***************************************************************************)
(* What is said to the centre and by it: task events (submit-event and     *)
(* acknowledge-event of C08) and the messages of the C14 bridge.  None of  *)
(* these commands takes a lock: each checks routing, ledger and files,     *)
(* and writes its file or two later.  Native delivery is external: it      *)
(* succeeds or fails, and the sender records which.                        *)
(***************************************************************************)
EXTENDS CentralState

-----------------------------------------------------------------------------
(* Checks. *)

\* Once past its checks a command is one more pending write.
Checked(command) ==
    /\ Cardinality(pending) < MaxPending
    /\ command \notin pending
    /\ pending' = pending \cup {command}
    /\ UNCHANGED <<routingVars, handoverVars, eventVars, letterVars, writes>>

\* submit-event, by a window that works for the task.
SubmitEvent(e, t, w) ==
    /\ revision > 0
    /\ Known(t)
    /\ CurrentTask(w) = t
    /\ events[e] = None
    /\ Checked([op |-> "SUBMIT", event |-> e, task |-> t, window |-> w])

\* acknowledge-event, by the current centre.
AcknowledgeEvent(e, c) ==
    /\ IsCentral(c)
    /\ events[e] # None /\ events[e].whole
    /\ eventAcks[e] = None
    /\ Checked([op |-> "ACK_EVENT", event |-> e,
                ack |-> [by |-> c, generation |-> Roster["CURRENT_CENTRAL"].generation,
                         revision |-> revision]])

(***************************************************************************)
(* validate_direction_command.  While the task waits for something only    *)
(* corrections and cancellations pass; a correction is the latest one, to  *)
(* a window it binds; any other instruction needs the task free of a       *)
(* correction hold and is one of the direction the task has now.           *)
(***************************************************************************)
DirectionAllows(envelope, t, w) ==
    /\ ActiveWaits(t) # {} => envelope.kind # "INSTRUCTION"
    /\ envelope.kind = "CORRECTION" => /\ envelope.context = corrections[t]
                                       /\ w \in bindings[t]
    /\ envelope.kind = "INSTRUCTION" /\ corrections[t] > 0 =>
           /\ ~DirectionHold(t)
           /\ envelope.context = corrections[t]

Enqueue(m, envelope) ==
    /\ envelopes[m] = None
    /\ Checked([op |-> "ENQUEUE", letter |-> m, envelope |-> envelope])

\* enqueue-task-to-central: any current window of the event's task.
Notify(m, e, w) ==
    /\ revision > 0
    /\ events[e] # None /\ events[e].whole
    /\ CurrentTask(w) = events[e].task
    /\ Enqueue(m, [kind |-> "HANDBACK", task |-> events[e].task, window |-> w, context |-> 0])

\* enqueue-central-command: a correction goes under the id correction_snapshot
\* gives it, other commands under any.
Command(c, m, kind, t, w) ==
    /\ IsCentral(c)
    /\ Known(t)
    /\ CurrentTask(w) = t
    /\ IF kind = "CORRECTION" THEN m = Notice(t, corrections[t], w) ELSE m \in Orders
    /\ LET envelope == [kind |-> kind, task |-> t, window |-> w, context |-> corrections[t]]
       IN  DirectionAllows(envelope, t, w) /\ Enqueue(m, envelope)

\* live_target: a message to the centre goes to whoever that is now; one to a
\* window goes there as long as its task and direction still ask for it.
Targets(m) ==
    LET x == envelopes[m]
    IN  IF x.kind \in ToCentral THEN {Holder("CURRENT_CENTRAL")}
        ELSE {w \in {x.window} : CurrentTask(w) = x.task /\ DirectionAllows(x, x.task, w)}

\* source_is_current: whoever records a delivery speaks for its sender.
Senders(m) ==
    LET x == envelopes[m]
    IN  IF x.kind \in ToCentral
        THEN {w \in {x.window} : CurrentTask(w) = x.task}
        ELSE {Holder("CURRENT_CENTRAL")}

\* record-delivery of a native message that was sent or failed.  A further
\* failure towards the same target changes nothing.
RecordDelivery(m, target, succeeded) ==
    /\ revision > 0
    /\ m \in whole
    /\ Senders(m) # {}
    /\ target \in Targets(m)
    /\ Queued(m)
    /\ [letter |-> m, target |-> target, succeeded |-> succeeded] \notin deliveries
    /\ Checked([op |-> "DELIVER", letter |-> m, target |-> target, succeeded |-> succeeded])

\* Mutant of MayAcknowledge: by somebody the message was delivered to.
OwnDelivery(m, x) == x \in DeliveredTo(m) /\ x \in Targets(m)

MayAcknowledge(m, x) == DeliveredTo(m) # {} /\ x \in Targets(m)

\* acknowledge: some delivery has succeeded, and the caller is who the message
\* is for now.
Acknowledge(m, x) ==
    /\ revision > 0
    /\ m \in whole
    /\ MayAcknowledge(m, x)
    /\ acks[m] = None
    /\ Checked([op |-> "ACK", letter |-> m, by |-> x])

\* record-command-result, and its retries: the first answer stands, and the
\* notification of it is queued unless it is already.
RecordResult(m, answer) ==
    /\ revision > 0
    /\ m \in whole
    /\ envelopes[m].kind \notin ToCentral
    /\ Targets(m) # {}
    /\ acks[m] # None
    /\ results[m] \in {None, answer}
    /\ Result(m) \notin whole
    /\ Checked([op |-> "RESULT", letter |-> m, answer |-> answer])

-----------------------------------------------------------------------------
(* Writes.  write_exclusive refuses a file that exists.  "done" is FALSE    *)
(* for a command that is killed before its last file.                      *)

Leave(command) ==
    /\ command \in pending
    /\ pending' = pending \ {command}
    /\ UNCHANGED <<routingVars, handoverVars, writes>>

WriteEvent(c, done) ==
    /\ c.op = "SUBMIT"
    /\ events[c.event] = None
    /\ events' = [events EXCEPT ![c.event] =
                     [task |-> c.task, window |-> c.window, whole |-> done]]
    /\ UNCHANGED <<eventAcks, letterVars>>

WriteEventAck(c) ==
    /\ c.op = "ACK_EVENT"
    /\ eventAcks[c.event] = None
    /\ eventAcks' = [eventAcks EXCEPT ![c.event] = c.ack]
    /\ UNCHANGED <<events, letterVars>>

\* write_envelope: the enqueue receipt, then the envelope.
WriteEnvelope(c, done) ==
    /\ c.op = "ENQUEUE"
    /\ envelopes[c.letter] = None
    /\ envelopes' = [envelopes EXCEPT ![c.letter] = c.envelope]
    /\ whole' = IF done THEN whole \cup {c.letter} ELSE whole
    /\ UNCHANGED <<eventVars, deliveries, acks, results>>

WriteDelivery(c) ==
    /\ c.op = "DELIVER"
    /\ deliveries' = deliveries \cup {[letter |-> c.letter, target |-> c.target,
                                       succeeded |-> c.succeeded]}
    /\ UNCHANGED <<eventVars, envelopes, whole, acks, results>>

WriteAck(c) ==
    /\ c.op = "ACK"
    /\ acks[c.letter] = None
    /\ acks' = [acks EXCEPT ![c.letter] = c.by]
    /\ UNCHANGED <<eventVars, envelopes, whole, deliveries, results>>

\* The result, then the notification of it; an enqueue receipt that an earlier
\* attempt sealed is completed as it stands.
WriteResult(c, sealed, done) ==
    /\ c.op = "RESULT"
    /\ done => sealed
    /\ LET m == c.letter
           n == Result(m)
           notification == [kind |-> "RESULT", task |-> envelopes[m].task,
                            window |-> envelopes[m].window, context |-> 0]
       IN  /\ results[m] \in {None, c.answer}
           /\ n \notin whole
           /\ results' = [results EXCEPT ![m] = c.answer]
           /\ envelopes' = IF sealed THEN [envelopes EXCEPT ![n] = notification] ELSE envelopes
           /\ whole' = IF done THEN whole \cup {n} ELSE whole
    /\ UNCHANGED <<eventVars, deliveries, acks>>

\* The command writes all its files.
Finish(c) ==
    /\ Leave(c)
    /\ \/ WriteEvent(c, TRUE)
       \/ WriteEventAck(c)
       \/ WriteEnvelope(c, TRUE)
       \/ WriteDelivery(c)
       \/ WriteAck(c)
       \/ WriteResult(c, TRUE, TRUE)

\* It is killed or refused on the way there, with some of them or none.
Interrupt(c) ==
    /\ Leave(c)
    /\ \/ UNCHANGED <<eventVars, letterVars>>
       \/ WriteEvent(c, FALSE)
       \/ WriteEnvelope(c, FALSE)
       \/ \E sealed \in BOOLEAN : WriteResult(c, sealed, FALSE)

BridgeNext ==
    \/ \E e \in Events, t \in Tasks, w \in Windows : SubmitEvent(e, t, w)
    \/ \E e \in Events, c \in Threads : AcknowledgeEvent(e, c)
    \/ \E m \in Reports, e \in Events, w \in Windows : Notify(m, e, w)
    \/ \E c \in Threads, m \in Commands, kind \in Kinds \ ToCentral, t \in Tasks, w \in Windows :
          Command(c, m, kind, t, w)
    \/ \E m \in Letters, x \in Threads \cup Windows :
          \/ \E succeeded \in BOOLEAN : RecordDelivery(m, x, succeeded)
          \/ Acknowledge(m, x)
    \/ \E m \in Commands, answer \in Answers : RecordResult(m, answer)
    \/ \E c \in pending : Finish(c) \/ Interrupt(c)

-----------------------------------------------------------------------------
(***************************************************************************)
(* readyForVerification: each window the latest correction binds still     *)
(* works for the task, was told, answered APPLIED, and the notification    *)
(* of that was acknowledged.  delivery_state refuses an acknowledgement by *)
(* somebody the message was never delivered to.                            *)
(***************************************************************************)
Confirmed(m) == m \in whole /\ acks[m] \in DeliveredTo(m)

\* Mutant of ReadyForVerification: that the windows answered is enough.
AnsweredApplied(t) ==
    \A w \in bindings[t] : results[Notice(t, corrections[t], w)] = "APPLIED"

ReadyForVerification(t) ==
    /\ corrections[t] > 0
    /\ \A w \in bindings[t] :
          LET m == Notice(t, corrections[t], w)
          IN  /\ CurrentTask(w) = t
              /\ Confirmed(m) /\ results[m] = "APPLIED"
              /\ Confirmed(Result(m))
==============================================================================
