---------------------------- MODULE KafkaProofs ----------------------------
(***************************************************************************)
(* Theorems about KafkaConsumer for any number of workers and partitions,  *)
(* any log bound and any number of faults.                                 *)
(***************************************************************************)
EXTENDS KafkaConsumer, TLAPS, SequenceTheorems

USE ConsumerAssumption

LEMMA InitType == Init => TypeOK
<1> SUFFICES ASSUME Init PROVE TypeOK
  OBVIOUS
<1>1. log \in [Partitions -> Seq(Kinds)] /\ \A p \in Partitions : Len(log[p]) = 0
  BY EmptySeq DEF Init
<1>2. committed \in [Partitions -> Positions] /\ pos \in [Partitions -> Positions]
  BY DEF Init, Positions, NoOffset
<1>3. /\ pc \in [Workers -> Pcs]
      /\ \A w \in Workers : pc[w] \notin {"handling", "commit"}
  BY DEF Init, Pcs
<1>4. owner \in [Partitions -> Workers \union {NoOne}] /\ pending \in BOOLEAN
  BY DEF Init
<1>5. msg \in [Workers -> (Partitions \X Offsets) \union {NoMessage}]
  BY DEF Init
<1>6. started \subseteq Partitions \X Offsets /\ handled \subseteq Partitions \X Offsets
  BY DEF Init
<1>7. begin \in [Partitions -> 0 .. MaxLog] /\ faults \in 0 .. MaxFaults
  BY DEF Init
<1>8. \A p \in Partitions : Len(log[p]) \in 0 .. MaxLog
  BY <1>1
<1>9. \A w \in Workers :
         pc[w] \in {"handling", "commit"} => msg[w] \in Partitions \X Offsets
  BY <1>3
<1> QED BY <1>1, <1>2, <1>3, <1>4, <1>5, <1>6, <1>7, <1>8, <1>9 DEF TypeOK

\* LeaveTo forgets the positions of one member and nothing else.
LEMMA LeaveTypes ==
  ASSUME TypeOK, NEW w \in Workers, NEW there \in {"stopped", "backoff"}, LeaveTo(w, there)
  PROVE  /\ pc' \in [Workers -> Pcs]
         /\ msg' \in [Workers -> (Partitions \X Offsets) \union {NoMessage}]
         /\ owner' \in [Partitions -> Workers \union {NoOne}]
         /\ pos' \in [Partitions -> Positions]
         /\ pending' \in BOOLEAN
         /\ \A v \in Workers :
              pc'[v] \in {"handling", "commit"} => msg'[v] \in Partitions \X Offsets
BY DEF LeaveTo, TypeOK, Pcs, Positions, NoOffset

LEMMA StepType == TypeOK /\ [Next]_vars => TypeOK'
<1> SUFFICES ASSUME TypeOK, [Next]_vars PROVE TypeOK'
  OBVIOUS
<1>1. ASSUME NEW p \in Partitions, NEW k \in Kinds, Publish(p, k) PROVE TypeOK'
  <2>1. /\ log[p] \in Seq(Kinds)
        /\ Append(log[p], k) \in Seq(Kinds)
        /\ Len(Append(log[p], k)) = Len(log[p]) + 1
    BY AppendProperties DEF TypeOK
  <2>2. log' \in [Partitions -> Seq(Kinds)]
    BY <1>1, <2>1 DEF Publish, TypeOK
  <2>3. \A q \in Partitions : Len(log'[q]) \in 0 .. MaxLog
    BY <1>1, <2>1 DEF Publish, TypeOK
  <2> QED BY <1>1, <2>2, <2>3 DEF Publish, TypeOK, history
<1>2. CASE Rebalance
  <2>1. owner' \in [Partitions -> Workers \union {NoOne}]
    BY <1>2 DEF Rebalance, Members
  <2>2. pos' \in [Partitions -> Positions]
    BY <1>2 DEF Rebalance, Positions, NoOffset
  <2> QED BY <1>2, <2>1, <2>2 DEF Rebalance, TypeOK, history
<1>3. ASSUME NEW p \in Partitions, LookUp(p) PROVE TypeOK'
  <2>1. Len(log[p]) \in 0 .. MaxLog /\ committed[p] \in Positions
    BY DEF TypeOK
  <2>2. StartOffset(p) \in Positions
    BY <2>1 DEF StartOffset, Positions, NoOffset
  <2> QED BY <1>3, <2>1, <2>2 DEF LookUp, TypeOK
<1>4. ASSUME NEW w \in Workers, NEW from \in Pcs, Join(w, from) PROVE TypeOK'
  BY <1>4 DEF Join, TypeOK, Pcs, history
<1>5. ASSUME NEW w \in Workers, NEW p \in Partitions, Fetch(w, p) PROVE TypeOK'
  <2>1. pos[p] \in Offsets /\ pos[p] + 1 \in Positions
    BY <1>5 DEF Fetch, TypeOK, Positions, Offsets, NoOffset
  <2>2. CASE KindOf(p, pos[p]) = "garbled"
    <3>1. LeaveTo(w, "backoff") /\ UNCHANGED <<log, committed, handled, begin, faults, started>>
      BY <1>5, <2>2 DEF Fetch
    <3> QED BY <3>1, LeaveTypes DEF TypeOK
  <2>3. CASE KindOf(p, pos[p]) # "garbled"
    <3>1. <<p, pos[p]>> \in Partitions \X Offsets
      BY <2>1
    <3>2. pc' \in [Workers -> Pcs]
      BY <1>5, <2>3 DEF Fetch, TypeOK, Pcs
    <3>4. /\ msg' \in [Workers -> (Partitions \X Offsets) \union {NoMessage}]
          /\ pos' \in [Partitions -> Positions]
          /\ started' \subseteq Partitions \X Offsets
      BY <1>5, <2>1, <2>3, <3>1 DEF Fetch, TypeOK
    <3>3. \A v \in Workers :
             pc'[v] \in {"handling", "commit"} => msg'[v] \in Partitions \X Offsets
      BY <1>5, <2>3, <3>1 DEF Fetch, TypeOK
    <3> QED BY <1>5, <2>3, <3>2, <3>3, <3>4 DEF Fetch, TypeOK
  <2> QED BY <2>2, <2>3
<1>6. ASSUME NEW w \in Workers, Handle(w) PROVE TypeOK'
  <2>1. msg[w] \in Partitions \X Offsets
    BY <1>6 DEF Handle, TypeOK
  <2> QED BY <1>6, <2>1 DEF Handle, TypeOK, Pcs
<1>7. ASSUME NEW w \in Workers, HandleRaises(w) PROVE TypeOK'
  BY <1>7, LeaveTypes DEF HandleRaises, TypeOK, Pcs, history
<1>8. ASSUME NEW w \in Workers, Commit(w) PROVE TypeOK'
  <2>1. committed' \in [Partitions -> Positions]
    BY <1>8 DEF Commit, TypeOK
  <2>2. pc' \in [Workers -> Pcs]
    BY <1>8 DEF Commit, TypeOK, Pcs
  <2>3. \A v \in Workers :
           pc'[v] \in {"handling", "commit"} => msg'[v] \in Partitions \X Offsets
    BY <1>8 DEF Commit, TypeOK
  <2> QED BY <1>8, <2>1, <2>2, <2>3 DEF Commit, TypeOK, history
<1>9. ASSUME NEW w \in Workers, Exception(w) \/ Stop(w) PROVE TypeOK'
  <2>1. PICK there \in {"stopped", "backoff"} : LeaveTo(w, there)
    BY <1>9 DEF Exception, Stop
  <2>2. faults' \in 0 .. MaxFaults
    BY <1>9 DEF Exception, Stop, TypeOK
  <2>3. UNCHANGED <<log, committed, started, handled, begin>>
    BY <1>9 DEF Exception, Stop, history
  <2> QED BY <2>1, <2>2, <2>3, LeaveTypes DEF TypeOK
<1>10. ASSUME NEW w \in Workers, SlowHandler(w) PROVE TypeOK'
  BY <1>10 DEF SlowHandler, TypeOK, history
<1>11. CASE UNCHANGED vars
  BY <1>11 DEF vars, history, TypeOK
<1>12. "stopped" \in Pcs /\ "backoff" \in Pcs
  BY DEF Pcs
<1> QED BY <1>1, <1>2, <1>3, <1>4, <1>5, <1>6, <1>7, <1>8, <1>9, <1>10, <1>11, <1>12
        DEF Next, WorkerStep, Start, Wake

\* Every variable keeps to its type; a member that handles a message knows which.
THEOREM TypeCorrect == Spec => []TypeOK
<1>1. Init => TypeOK
  BY InitType
<1>2. TypeOK /\ [Next]_vars => TypeOK'
  BY StepType
<1> QED BY <1>1, <1>2, PTL DEF Spec

-----------------------------------------------------------------------------
\* What lies between the place where the group began to read p and limit is
\* handled, except for a message w may be handling.
ReadUpTo(w, p, limit) ==
    \A o \in Offsets :
        begin[p] <= o /\ o < limit =>
            \/ <<p, o>> \in handled
            \/ pc[w] = "handling" /\ msg[w] = <<p, o>>

\* A known position is not behind the committed offset, and everything before it
\* was handled or is in the hands of the member it was assigned to.
PositionsRead ==
    \A p \in Partitions : \A w \in Workers :
        owner[p] = w /\ pos[p] # NoOffset =>
            /\ begin[p] <= pos[p]
            /\ committed[p] <= pos[p]
            /\ ReadUpTo(w, p, pos[p])

BeginsBefore ==
    \A p \in Partitions : committed[p] # NoOffset => begin[p] <= committed[p]

\* CommittedMeansHandled is not inductive: a commit stores positions, so the
\* invariant has to speak of positions too.
GroupInv == TypeOK /\ BeginsBefore /\ CommittedMeansHandled /\ PositionsRead

LEMMA InitGroup == Init => GroupInv
<1> SUFFICES ASSUME Init PROVE GroupInv
  OBVIOUS
<1>1. TypeOK
  BY InitType
<1>2. BeginsBefore /\ PositionsRead
  BY DEF Init, BeginsBefore, PositionsRead, NoOffset
<1>3. CommittedMeansHandled
  BY DEF Init, CommittedMeansHandled, NoOffset, Offsets
<1> QED BY <1>1, <1>2, <1>3 DEF GroupInv

\* A member that leaves takes its positions and its message with it; what the
\* others have read stays read.
LEMMA LeaveGroup ==
  ASSUME GroupInv, NEW w \in Workers, NEW there \in {"stopped", "backoff"},
         LeaveTo(w, there), UNCHANGED <<committed, handled, begin>>
  PROVE  BeginsBefore' /\ CommittedMeansHandled' /\ PositionsRead'
<1>1. BeginsBefore' /\ CommittedMeansHandled'
  BY DEF GroupInv, BeginsBefore, CommittedMeansHandled
<1>2. ASSUME NEW p \in Partitions, NEW v \in Workers, owner'[p] = v, pos'[p] # NoOffset
      PROVE  v # w /\ owner[p] = v /\ pos'[p] = pos[p] /\ pc'[v] = pc[v] /\ msg'[v] = msg[v]
  BY <1>2 DEF LeaveTo, GroupInv, TypeOK
<1>3. PositionsRead'
  BY <1>2 DEF GroupInv, PositionsRead, ReadUpTo
<1> QED BY <1>1, <1>3

LEMMA StepGroup == GroupInv /\ [Next]_vars => GroupInv'
<1> SUFFICES ASSUME GroupInv, [Next]_vars
             PROVE  BeginsBefore' /\ CommittedMeansHandled' /\ PositionsRead'
  BY StepType DEF GroupInv
<1> USE DEF GroupInv
<1> DEFINE Goal == BeginsBefore' /\ CommittedMeansHandled' /\ PositionsRead'
<1>1. ASSUME NEW p \in Partitions, NEW k \in Kinds, Publish(p, k) PROVE Goal
  BY <1>1 DEF Publish, history, BeginsBefore, CommittedMeansHandled, PositionsRead, ReadUpTo
<1>2. CASE Rebalance
  <2>1. \A p \in Partitions : pos'[p] = NoOffset
    BY <1>2 DEF Rebalance
  <2> QED BY <1>2, <2>1 DEF Rebalance, history, BeginsBefore, CommittedMeansHandled, PositionsRead
<1>3. ASSUME NEW p \in Partitions, LookUp(p) PROVE Goal
  <2>1. /\ \A q \in Partitions \ {p} : pos'[q] = pos[q] /\ begin'[q] = begin[q]
        /\ UNCHANGED <<committed, owner, pc, msg, handled>>
    BY <1>3 DEF LookUp, TypeOK
  <2>2. CASE committed[p] = NoOffset
    <3>1. pos'[p] = Len(log[p]) /\ begin'[p] = Len(log[p]) /\ Len(log[p]) \in Nat
      BY <1>3, <2>2 DEF LookUp, StartOffset, TypeOK
    <3>2. BeginsBefore' /\ CommittedMeansHandled'
      BY <2>1, <2>2, <3>1 DEF BeginsBefore, CommittedMeansHandled, NoOffset, Offsets
    <3>3. ASSUME NEW q \in Partitions, NEW v \in Workers, owner'[q] = v, pos'[q] # NoOffset
          PROVE  begin'[q] <= pos'[q] /\ committed'[q] <= pos'[q] /\ ReadUpTo(v, q, pos[q])'
      <4>1. CASE q = p
        BY <2>1, <2>2, <3>1, <4>1 DEF ReadUpTo, NoOffset, Offsets
      <4>2. CASE q # p
        BY <2>1, <3>3, <4>2 DEF PositionsRead, ReadUpTo
      <4> QED BY <4>1, <4>2
    <3>4. PositionsRead'
      BY <3>3 DEF PositionsRead
    <3> QED BY <3>2, <3>4
  <2>3. CASE committed[p] # NoOffset
    <3>1. pos'[p] = committed[p] /\ begin'[p] = begin[p] /\ committed[p] \in Int
      BY <1>3, <2>3 DEF LookUp, StartOffset, TypeOK, Positions, NoOffset
    <3>2. BeginsBefore' /\ CommittedMeansHandled'
      BY <2>1, <3>1 DEF BeginsBefore, CommittedMeansHandled
    <3>3. PositionsRead'
      BY <2>1, <2>3, <3>1 DEF PositionsRead, ReadUpTo, BeginsBefore, CommittedMeansHandled
    <3> QED BY <3>2, <3>3
  <2> QED BY <2>2, <2>3
<1>4. ASSUME NEW w \in Workers, NEW from \in {"stopped", "backoff"}, Join(w, from) PROVE Goal
  <2>1. \A v \in Workers : pc'[v] = "handling" <=> pc[v] = "handling"
    BY <1>4 DEF Join, TypeOK
  <2> QED BY <1>4, <2>1 DEF Join, history, BeginsBefore, CommittedMeansHandled, PositionsRead,
             ReadUpTo
<1>5. ASSUME NEW w \in Workers, NEW p \in Partitions, Fetch(w, p) PROVE Goal
  <2>1. CASE KindOf(p, pos[p]) = "garbled"
    BY <1>5, <2>1, LeaveGroup DEF Fetch
  <2>2. CASE KindOf(p, pos[p]) # "garbled"
    <3>1. /\ pc[w] = "polling" /\ owner[p] = w /\ pos[p] # NoOffset
          /\ pc'[w] = "handling" /\ msg'[w] = <<p, pos[p]>> /\ pos'[p] = pos[p] + 1
          /\ \A v \in Workers \ {w} : pc'[v] = pc[v] /\ msg'[v] = msg[v]
          /\ \A q \in Partitions \ {p} : pos'[q] = pos[q]
          /\ UNCHANGED <<committed, owner, handled, begin>>
      BY <1>5, <2>2 DEF Fetch, TypeOK
    <3>2. pos[p] \in Nat /\ committed[p] \in Int /\ begin[p] \in Nat
      BY <3>1 DEF TypeOK, Positions, NoOffset
    <3>3. BeginsBefore' /\ CommittedMeansHandled'
      BY <3>1 DEF BeginsBefore, CommittedMeansHandled
    <3>4. ASSUME NEW q \in Partitions, NEW v \in Workers, owner'[q] = v, pos'[q] # NoOffset
          PROVE begin'[q] <= pos'[q] /\ committed'[q] <= pos'[q] /\ ReadUpTo(v, q, pos[q])
      BY <3>1, <3>2, <3>4 DEF PositionsRead
    <3>5. ASSUME NEW q \in Partitions, NEW v \in Workers, owner'[q] = v, pos'[q] # NoOffset
          PROVE ReadUpTo(v, q, pos[q])'
      BY <3>1, <3>2, <3>4, <3>5 DEF ReadUpTo, Offsets
    <3> QED BY <3>3, <3>4, <3>5 DEF PositionsRead
  <2> QED BY <2>1, <2>2
<1>6. ASSUME NEW w \in Workers, Handle(w) PROVE Goal
  <2>1. /\ handled' = handled \union {msg[w]}
        /\ \A v \in Workers \ {w} : pc'[v] = pc[v]
        /\ UNCHANGED <<committed, owner, pos, msg, begin>>
    BY <1>6 DEF Handle, TypeOK
  <2> QED BY <2>1 DEF BeginsBefore, CommittedMeansHandled, PositionsRead, ReadUpTo
<1>7. ASSUME NEW w \in Workers, HandleRaises(w) \/ Exception(w) \/ Stop(w) PROVE Goal
  <2>1. PICK there \in {"stopped", "backoff"} : LeaveTo(w, there)
    BY <1>7 DEF HandleRaises, Exception, Stop
  <2>2. UNCHANGED <<committed, handled, begin>>
    BY <1>7 DEF HandleRaises, Exception, Stop, history
  <2> QED BY <2>1, <2>2, LeaveGroup
<1>8. ASSUME NEW w \in Workers, Commit(w) PROVE Goal
  <2>1. /\ pc[w] = "commit" /\ pc'[w] # "handling"
        /\ \A v \in Workers \ {w} : pc'[v] = pc[v] /\ msg'[v] = msg[v]
        /\ UNCHANGED <<owner, pos, handled, begin>>
    BY <1>8 DEF Commit, TypeOK, history
  <2>2. ASSUME NEW p \in Partitions, committed'[p] # committed[p]
        PROVE  owner[p] = w /\ pos[p] # NoOffset /\ committed'[p] = pos[p]
    BY <1>8, <2>2 DEF Commit
  <2>3. ASSUME NEW p \in Partitions, owner[p] = w, pos[p] # NoOffset
        PROVE  /\ begin[p] <= pos[p]
               /\ \A o \in Offsets : begin[p] <= o /\ o < pos[p] => <<p, o>> \in handled
    BY <2>1, <2>3 DEF PositionsRead, ReadUpTo
  <2>4. BeginsBefore' /\ CommittedMeansHandled'
    BY <2>1, <2>2, <2>3 DEF BeginsBefore, CommittedMeansHandled
  <2>5. ASSUME NEW p \in Partitions, NEW v \in Workers, owner'[p] = v, pos'[p] # NoOffset
        PROVE begin'[p] <= pos'[p] /\ committed'[p] <= pos'[p] /\ ReadUpTo(v, p, pos[p])'
    <3>1. begin[p] <= pos[p] /\ committed[p] <= pos[p] /\ ReadUpTo(v, p, pos[p])
      BY <2>1, <2>5 DEF PositionsRead
    <3>2. committed'[p] <= pos[p]
      <4>1. pos[p] \in Int
        BY DEF TypeOK, Positions, NoOffset
      <4> QED BY <2>2, <3>1, <4>1
    <3>3. pc'[v] = "handling" <=> pc[v] = "handling"
      BY <2>1
    <3>4. pc[v] = "handling" => msg'[v] = msg[v]
      BY <2>1
    <3> QED BY <2>1, <3>1, <3>2, <3>3, <3>4 DEF ReadUpTo
  <2> QED BY <2>1, <2>4, <2>5 DEF PositionsRead
<1>9. ASSUME NEW w \in Workers, SlowHandler(w) PROVE Goal
  BY <1>9 DEF SlowHandler, history, BeginsBefore, CommittedMeansHandled, PositionsRead, ReadUpTo
<1>10. CASE UNCHANGED vars
  BY <1>10 DEF vars, history, BeginsBefore, CommittedMeansHandled, PositionsRead, ReadUpTo
<1> QED BY <1>1, <1>2, <1>3, <1>4, <1>5, <1>6, <1>7, <1>8, <1>9, <1>10
        DEF Next, WorkerStep, Start, Wake

\* Committing after _handle_message returned, and only positions of the current
\* assignment, never passes over a message: at-least-once for every message
\* since the group began to read.
THEOREM NoLoss == Spec => []CommittedMeansHandled
<1>1. Init => GroupInv
  BY InitGroup
<1>2. GroupInv /\ [Next]_vars => GroupInv'
  BY StepGroup
<1>3. GroupInv => CommittedMeansHandled
  BY DEF GroupInv
<1> QED BY <1>1, <1>2, <1>3, PTL DEF Spec

\* Only a commit changes the committed offset, and it stores a position that is
\* not behind it.
LEMMA StepForward ==
  GroupInv /\ [Next]_vars => [\A p \in Partitions : committed[p] <= committed'[p]]_vars
<1> SUFFICES ASSUME GroupInv, Next
             PROVE  \A p \in Partitions : committed[p] <= committed'[p]
  OBVIOUS
<1>1. \A p \in Partitions : committed[p] \in Int
  BY DEF GroupInv, TypeOK, Positions, NoOffset
<1>2. ASSUME NEW w \in Workers, Commit(w) PROVE \A p \in Partitions : committed[p] <= committed'[p]
  BY <1>1, <1>2 DEF Commit, GroupInv, PositionsRead
<1>3. CASE \E w \in Workers : Commit(w)
  BY <1>2, <1>3
<1>4. CASE ~ \E w \in Workers : Commit(w)
  <2>1. committed' = committed
    BY <1>4 DEF Next, WorkerStep, Publish, Rebalance, LookUp, Start, Wake, Join, Handle, Fetch,
           HandleRaises, Exception, Stop, SlowHandler
  <2> QED BY <1>1, <2>1
<1> QED BY <1>3, <1>4

\* The group's committed offsets never move back.
THEOREM NeverBack == Spec => CommitsForward
<1>1. Init => GroupInv
  BY InitGroup
<1>2. GroupInv /\ [Next]_vars => GroupInv'
  BY StepGroup
<1>3. GroupInv /\ [Next]_vars => [\A p \in Partitions : committed[p] <= committed'[p]]_vars
  BY StepForward
<1> QED BY <1>1, <1>2, <1>3, PTL DEF Spec, CommitsForward
=============================================================================
