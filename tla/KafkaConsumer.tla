--------------------------- MODULE KafkaConsumer ---------------------------
(***************************************************************************)
(* SupervisedKafkaConsumer (infrastructure/kafka/base_consumer.py) and the *)
(* handlers of its subclasses, one consumer group over one topic.  Every   *)
(* taskiq worker process runs one member of the group.  The broker side    *)
(* (log, assignment, committed offsets) is not code of this repository: it *)
(* is modelled from how the consumer uses it - a new member triggers a     *)
(* rebalance, a rebalance forgets every position, a position is looked up  *)
(* lazily, commit() without arguments stores the positions of all          *)
(* partitions the member owns at that moment.                              *)
(*                                                                         *)
(* A message is its partition, its offset and its kind; the kinds are the  *)
(* branches the handlers tell apart.                                       *)
(***************************************************************************)
EXTENDS Integers, Sequences

CONSTANTS
    Workers,       \* worker processes, each with one member of the group
    NoOne,         \* owner of a partition nobody was assigned
    Partitions,    \* partitions of the topic
    Kinds,         \* kinds of message producers publish, a subset of AllKinds
    MaxLog,        \* bound: messages per partition
    MaxFaults      \* bound: crashes, stops, exceptions and slow handlers

\* What the handlers distinguish: "deliver" has an effect (a notification, a
\* redirect, a scheduled reminder, a conversion), "ignored" returns early,
\* "malformed" makes Fluent raise FormatError, "poison" makes the handler raise
\* on every attempt, "garbled" is not JSON and already fails in the deserializer.
AllKinds == {"deliver", "ignored", "malformed", "poison", "garbled"}

ASSUME ConsumerAssumption ==
    /\ NoOne \notin Workers
    /\ Kinds \subseteq AllKinds
    /\ MaxLog \in Nat
    /\ MaxFaults \in Nat

NoOffset == -1     \* no committed offset, or a position not looked up yet
Offsets == 0 .. (MaxLog - 1)
Positions == NoOffset .. MaxLog
NoMessage == <<>>

VARIABLES
    log,        \* log[p]: the messages published to p, message n at log[p][n + 1]
    committed,  \* committed[p]: the group's committed offset
    owner,      \* owner[p]: the member p is assigned to
    pos,        \* pos[p]: the owner's next offset to read
    pending,    \* the group has to rebalance
    pc,         \* pc[w]: where the supervised loop of w stands
    msg,        \* msg[w]: the message w is handling, as <<partition, offset>>
    started,    \* history: messages some handler began with
    handled,    \* history: messages some handler returned from
    begin,      \* history: begin[p]: where the group began to read p
    faults      \* faults so far

vars == <<log, committed, owner, pos, pending, pc, msg, started, handled,
          begin, faults>>
history == <<started, handled, begin>>

Pcs == {"stopped", "polling", "handling", "commit", "backoff"}
Members == {w \in Workers : pc[w] \in {"polling", "handling", "commit"}}
KindOf(p, o) == log[p][o + 1]

TypeOK ==
    /\ log \in [Partitions -> Seq(Kinds)]
    /\ committed \in [Partitions -> Positions]
    /\ owner \in [Partitions -> Workers \union {NoOne}]
    /\ pos \in [Partitions -> Positions]
    /\ pending \in BOOLEAN
    /\ pc \in [Workers -> Pcs]
    /\ msg \in [Workers -> (Partitions \X Offsets) \union {NoMessage}]
    /\ started \subseteq Partitions \X Offsets
    /\ handled \subseteq Partitions \X Offsets
    /\ begin \in [Partitions -> 0 .. MaxLog]
    /\ faults \in 0 .. MaxFaults
    /\ \A p \in Partitions : Len(log[p]) \in 0 .. MaxLog
    /\ \A w \in Workers :
          pc[w] \in {"handling", "commit"} => msg[w] \in Partitions \X Offsets

\* The deployment starts on an empty topic; the group is new or has been there.
Init ==
    /\ log = [p \in Partitions |-> <<>>]
    /\ committed \in [Partitions -> {NoOffset, 0}]
    /\ owner = [p \in Partitions |-> NoOne]
    /\ pos = [p \in Partitions |-> NoOffset]
    /\ pending = FALSE
    /\ pc = [w \in Workers |-> "stopped"]
    /\ msg = [w \in Workers |-> NoMessage]
    /\ started = {}
    /\ handled = {}
    /\ begin = [p \in Partitions |-> 0]
    /\ faults = 0

\* A producer appends a message.
Publish(p, k) ==
    /\ Len(log[p]) < MaxLog
    /\ log' = [log EXCEPT ![p] = Append(@, k)]
    /\ UNCHANGED <<committed, owner, pos, pending, pc, msg, history, faults>>

\* The worker process starts its consumer, or the supervisor's backoff is over:
\* a new AIOKafkaConsumer joins the group.
Join(w, from) ==
    /\ pc[w] = from
    /\ pc' = [pc EXCEPT ![w] = "polling"]
    /\ pending' = TRUE
    /\ UNCHANGED <<log, committed, owner, pos, msg, history, faults>>

Start(w) == Join(w, "stopped")
Wake(w) == Join(w, "backoff")

\* The consumer of w is closed or dies: it leaves the group with its positions.
LeaveTo(w, there) ==
    /\ pc' = [pc EXCEPT ![w] = there]
    /\ msg' = [msg EXCEPT ![w] = NoMessage]
    /\ owner' = [p \in Partitions |-> IF owner[p] = w THEN NoOne ELSE owner[p]]
    /\ pos' = [p \in Partitions |-> IF owner[p] = w THEN NoOffset ELSE pos[p]]
    /\ pending' = TRUE

\* The coordinator hands every partition to some member; nobody keeps a position.
Rebalance ==
    /\ pending
    /\ Members # {}
    /\ owner' \in [Partitions -> Members]
    /\ pos' = [p \in Partitions |-> NoOffset]
    /\ pending' = FALSE
    /\ UNCHANGED <<log, committed, pc, msg, history, faults>>

\* mutant: one past the end of the log
StartOffsetBeyond(p) == IF committed[p] = NoOffset THEN Len(log[p]) + 1 ELSE committed[p]

\* Where a member begins: the committed offset or, as auto_offset_reset says
\* "latest", the end of the log when the group has none.
StartOffset(p) == IF committed[p] = NoOffset THEN Len(log[p]) ELSE committed[p]

LookUp(p) ==
    /\ owner[p] # NoOne
    /\ pos[p] = NoOffset
    /\ pos' = [pos EXCEPT ![p] = StartOffset(p)]
    /\ begin' = [begin EXCEPT ![p] =
                    IF committed[p] = NoOffset THEN Len(log[p]) ELSE @]
    /\ UNCHANGED <<log, committed, owner, pending, pc, msg, started, handled, faults>>

\* `async for msg in self._consumer`: the position moves past the message.
Fetch(w, p) ==
    /\ pc[w] = "polling"
    /\ owner[p] = w
    /\ pos[p] # NoOffset
    /\ pos[p] < Len(log[p])
    /\ IF KindOf(p, pos[p]) = "garbled"
       THEN /\ LeaveTo(w, "backoff")
            /\ UNCHANGED started
       ELSE /\ pc' = [pc EXCEPT ![w] = "handling"]
            /\ msg' = [msg EXCEPT ![w] = <<p, pos[p]>>]
            /\ pos' = [pos EXCEPT ![p] = @ + 1]
            /\ started' = started \union {<<p, pos[p]>>}
            /\ UNCHANGED <<owner, pending>>
    /\ UNCHANGED <<log, committed, handled, begin, faults>>

\* mutant: FormatError is not swallowed
HandlerReturnsStrictly(k) == k \in {"deliver", "ignored"}

\* FormatError is swallowed by the notification consumer, every other exception
\* leaves _handle_message.
HandlerReturns(k) == k \in {"deliver", "ignored", "malformed"}

Handle(w) ==
    /\ pc[w] = "handling"
    /\ HandlerReturns(KindOf(msg[w][1], msg[w][2]))
    /\ pc' = [pc EXCEPT ![w] = "commit"]
    /\ handled' = handled \union {msg[w]}
    /\ UNCHANGED <<log, committed, owner, pos, pending, msg, started, begin, faults>>

\* mutant: the consume loop logs the exception and goes on to the commit
HandleSwallows(w) ==
    /\ pc[w] = "handling"
    /\ ~HandlerReturns(KindOf(msg[w][1], msg[w][2]))
    /\ pc' = [pc EXCEPT ![w] = "commit"]
    /\ UNCHANGED <<log, committed, owner, pos, pending, msg, history, faults>>

\* The handler raises: the finally clause of _run_once stops the consumer and
\* the supervisor sleeps.
HandleRaises(w) ==
    /\ pc[w] = "handling"
    /\ ~HandlerReturns(KindOf(msg[w][1], msg[w][2]))
    /\ LeaveTo(w, "backoff")
    /\ UNCHANGED <<log, committed, history, faults>>

\* mutant: commit({partition: offset + 1}) of the message just handled
CommitOwnOffset(w) ==
    /\ pc[w] = "commit"
    /\ committed' = [committed EXCEPT ![msg[w][1]] = msg[w][2] + 1]
    /\ pc' = [pc EXCEPT ![w] = "polling"]
    /\ msg' = [msg EXCEPT ![w] = NoMessage]
    /\ UNCHANGED <<log, owner, pos, pending, history, faults>>

\* await self._consumer.commit(): the position of every partition w owns now.
Commit(w) ==
    /\ pc[w] = "commit"
    /\ committed' = [p \in Partitions |->
                        IF owner[p] = w /\ pos[p] # NoOffset THEN pos[p]
                        ELSE committed[p]]
    /\ pc' = [pc EXCEPT ![w] = "polling"]
    /\ msg' = [msg EXCEPT ![w] = NoMessage]
    /\ UNCHANGED <<log, owner, pos, pending, history, faults>>

\* A call of the handler or of the commit fails, or the broker refuses a commit
\* because the group is rebalancing.
Exception(w) ==
    /\ pc[w] \in {"handling", "commit"}
    /\ faults < MaxFaults
    /\ faults' = faults + 1
    /\ LeaveTo(w, "backoff")
    /\ UNCHANGED <<log, committed, history>>

\* The process is stopped (on_shutdown cancels the supervisor) or is killed.
Stop(w) ==
    /\ pc[w] # "stopped"
    /\ faults < MaxFaults
    /\ faults' = faults + 1
    /\ LeaveTo(w, "stopped")
    /\ UNCHANGED <<log, committed, history>>

\* A handler takes longer than the poll interval: the group rebalances under it.
SlowHandler(w) ==
    /\ pc[w] \in {"handling", "commit"}
    /\ ~pending
    /\ faults < MaxFaults
    /\ faults' = faults + 1
    /\ pending' = TRUE
    /\ UNCHANGED <<log, committed, owner, pos, pc, msg, history>>

WorkerStep(w) ==
    \/ Start(w) \/ Wake(w) \/ Handle(w) \/ HandleRaises(w) \/ Commit(w)
    \/ \E p \in Partitions : Fetch(w, p)

Next ==
    \/ \E p \in Partitions, k \in Kinds : Publish(p, k)
    \/ Rebalance
    \/ \E p \in Partitions : LookUp(p)
    \/ \E w \in Workers : WorkerStep(w) \/ Exception(w) \/ Stop(w) \/ SlowHandler(w)

Spec == Init /\ [][Next]_vars

\* The event loops of the workers run, the orchestrator restarts a stopped worker
\* and the broker completes a rebalance.
FairSpec ==
    /\ Spec
    /\ WF_vars(Rebalance)
    /\ \A p \in Partitions : WF_vars(LookUp(p))
    /\ \A w \in Workers : WF_vars(WorkerStep(w))

-----------------------------------------------------------------------------
\* Every offset the group has committed past since it began to read a partition
\* belongs to a message whose handler returned: neither a crash nor a rebalance
\* in the middle of _handle_message loses a message (base_consumer.py:113-115).
CommittedMeansHandled ==
    \A p \in Partitions :
        \A o \in Offsets : begin[p] <= o /\ o < committed[p] => <<p, o>> \in handled

\* A committed offset never moves back, also when a member that was slow commits
\* after its partition went to another one and came back.
CommitsForward ==
    [][\A p \in Partitions : committed[p] <= committed'[p]]_vars

\* A message that cannot be handled ever.
Stuck(k) == k \in {"poison", "garbled"}
Poisoned == \E p \in Partitions : \E n \in 1 .. Len(log[p]) : Stuck(log[p][n])

Behind(p, o) == committed[p] # NoOffset /\ committed[p] <= o /\ o < Len(log[p])

\* A message behind the committed offset is handled in the end, whatever
\* malformed notifications are in front of it, unless a message is published
\* whose handling never succeeds.
UnpoisonedIsHandled ==
    \A p \in Partitions : \A o \in Offsets :
        Behind(p, o) ~> (<<p, o>> \in handled \/ Poisoned)

\* "a crash mid-processing redelivers the message instead of silently dropping
\* it" (base_consumer.py:20-22): a message that was begun and not finished is
\* being worked on or is one a member starting now would still read.
StartedIsKept ==
    \A m \in started \ handled :
        \/ \E w \in Workers : pc[w] = "handling" /\ msg[w] = m
        \/ StartOffset(m[1]) <= m[2]
=============================================================================
