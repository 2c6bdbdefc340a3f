------------------------- MODULE ExternalData_proofs -------------------------
(***************************************************************************)
(* Proofs about ExternalData, for every value of the constants:            *)
(* TypeOK and RefreshAheadPending are invariants of Spec.                  *)
(***************************************************************************)
EXTENDS ExternalData, TLAPS

(* The strengthening of RefreshAheadPending: no get_data call started      *)
(* after the current instant.                                              *)
CallerNotAhead == \A c \in Callers : caller[c].at <= now

IInv == TypeOK /\ CallerNotAhead /\ RefreshAheadPending

(* Appending to the channel keeps every buffered id buffered and buffers   *)
(* the appended one.                                                       *)
LEMMA AppendInQueue ==
    ASSUME NEW q \in Seq(Ids), NEW x \in Ids, NEW y \in Ids
    PROVE  LET q2 == Append(q, x) IN
           /\ \E k \in 1..Len(q2) : q2[k] = x
           /\ (\E k \in 1..Len(q) : q[k] = y) => \E k \in 1..Len(q2) : q2[k] = y
<1>1. Len(Append(q, x)) = Len(q) + 1 /\ Append(q, x)[Len(q) + 1] = x
  OBVIOUS
<1>2. \A k \in 1..Len(q) : Append(q, x)[k] = q[k]
  OBVIOUS
<1>3. QED BY <1>1, <1>2

(* Removing the head keeps every id buffered behind a different head.     *)
LEMMA TailInQueue ==
    ASSUME NEW q \in Seq(Ids), q # <<>>, NEW y \in Ids, y # Head(q),
           \E k \in 1..Len(q) : q[k] = y
    PROVE  \E k \in 1..Len(Tail(q)) : Tail(q)[k] = y
<1>1. PICK k \in 1..Len(q) : q[k] = y
  OBVIOUS
<1>2. k # 1
  BY <1>1
<1>3. k - 1 \in 1..Len(Tail(q)) /\ Tail(q)[k - 1] = q[k]
  BY <1>1, <1>2
<1>4. QED BY <1>1, <1>3

(* The effect of a send on the channel: buffered when the receiver is     *)
(* alive, dropped otherwise.                                               *)
LEMMA SendType ==
    ASSUME NEW id \in Ids, queue \in Seq(Ids), rxAlive \in BOOLEAN, Send(id)
    PROVE  /\ queue' \in Seq(Ids)
           /\ rxAlive => queue' = Append(queue, id)
           /\ ~rxAlive => queue' = queue
<1>1. CASE rxAlive
  <2>1. queue' = Append(queue, id)
    BY <1>1, Zenon DEF Send
  <2>2. QED BY <1>1, <2>1
<1>2. CASE ~rxAlive
  <2>1. queue' = queue
    BY <1>2, Zenon DEF Send
  <2>2. QED BY <1>2, <2>1
<1>3. QED BY <1>1, <1>2

-----------------------------------------------------------------------------
(* Every state of every behaviour is well typed.                           *)
(* The initial states are well typed.                                     *)
LEMMA TypeInit == Init => TypeOK
  BY ConstantsAssumption DEF Init, TypeOK, CallerState, Time

(* Every step keeps the variables well typed.                             *)
LEMMA TypeStep == TypeOK /\ [Next]_vars => TypeOK'
<1> SUFFICES ASSUME TypeOK, [Next]_vars PROVE TypeOK'
  OBVIOUS
<1>1. ASSUME NEW id \in Ids, NEW cfg \in SourceConfig, AddSource(id, cfg)
      PROVE  TypeOK'
  <2>1. sources' \in [Ids -> SourceConfig \cup {NoSource}]
    BY <1>1 DEF AddSource, TypeOK
  <2>2. queue' \in Seq(Ids)
    BY <1>1, SendType DEF AddSource, TypeOK
  <2>3. QED BY <1>1, <2>1, <2>2 DEF AddSource, TypeOK
<1>2. ASSUME NEW id \in Ids, RemoveSource(id) PROVE TypeOK'
  BY <1>2 DEF RemoveSource, TypeOK
<1>3. ASSUME NEW c \in Callers, NEW id \in Ids, GetDataCheck(c, id)
      PROVE  TypeOK'
  <2>1. CASE HasFreshEntry(id)
    <3>1. UNCHANGED vars
      BY <1>3, <2>1, Zenon DEF GetDataCheck, vars
    <3>2. QED BY <3>1 DEF vars, TypeOK
  <2>2. CASE ~HasFreshEntry(id)
    <3>1. /\ Send(id)
          /\ caller' = [caller EXCEPT ![c] = [st |-> "fallback", id |-> id, at |-> now]]
          /\ UNCHANGED <<sources, cache, rxAlive, managerAlive, tickers, spawned, now>>
      BY <1>3, <2>2, Zenon DEF GetDataCheck
    <3>2. queue' \in Seq(Ids)
      BY <3>1, SendType DEF TypeOK
    <3>3. caller' \in [Callers -> CallerState]
      BY <3>1 DEF TypeOK, CallerState
    <3>4. QED BY <3>1, <3>2, <3>3 DEF TypeOK
  <2>3. QED BY <2>1, <2>2
<1>4. ASSUME NEW c \in Callers, GetDataFallback(c) PROVE TypeOK'
  BY <1>4 DEF GetDataFallback, TypeOK, CallerState
<1>5. CASE RefreshTask
  <2>1. queue' \in Seq(Ids)
    BY <1>5 DEF RefreshTask, TypeOK
  <2>2. cache' \in [Ids -> Entry \cup {NoEntry}]
    BY <1>5 DEF RefreshTask, TypeOK, Entry, Time
  <2>3. QED BY <1>5, <2>1, <2>2 DEF RefreshTask, TypeOK
<1>6. CASE RefreshPanic
  <2>1. queue' \in Seq(Ids)
    BY <1>6 DEF RefreshPanic
  <2>2. rxAlive' \in BOOLEAN
    BY <1>6 DEF RefreshPanic
  <2>3. QED BY <1>6, <2>1, <2>2 DEF RefreshPanic, TypeOK
<1>7. CASE RefreshExit
  BY <1>7 DEF RefreshExit, TypeOK
<1>8. CASE StartAutoRefresh
  BY <1>8, ConstantsAssumption DEF StartAutoRefresh, TypeOK
<1>9. ASSUME NEW id \in Ids, TickerTick(id) PROVE TypeOK'
  <2>1. CASE rxAlive
    <3>1. queue' = Append(queue, id)
          /\ UNCHANGED <<tickers, spawned, sources, cache, rxAlive, managerAlive,
                       caller, now>>
      BY <1>9, <2>1, Zenon DEF TickerTick
    <3>2. QED BY <3>1 DEF TypeOK
  <2>2. CASE ~rxAlive
    <3>1. tickers' = [tickers EXCEPT ![id] = @ - 1] /\ tickers[id] > 0
          /\ UNCHANGED <<queue, spawned, sources, cache, rxAlive, managerAlive,
                       caller, now>>
      BY <1>9, <2>2, Zenon DEF TickerTick
    <3>2. QED BY <3>1, ConstantsAssumption DEF TypeOK
  <2>3. QED BY <2>1, <2>2
<1>10. CASE DropManager
  BY <1>10 DEF DropManager, TypeOK
<1>11. CASE Tick
  BY <1>11, ConstantsAssumption DEF Tick, TypeOK, Time
<1>12. CASE UNCHANGED vars
  BY <1>12 DEF vars, TypeOK
<1>13. QED
  BY <1>1, <1>2, <1>3, <1>4, <1>5, <1>6, <1>7, <1>8, <1>9, <1>10, <1>11,
     <1>12 DEF Next

(* Every state of every behaviour is well typed.                           *)
THEOREM TypeCorrect == Spec => []TypeOK
<1>1. QED BY TypeInit, TypeStep, PTL DEF Spec

-----------------------------------------------------------------------------
(* The inductive invariant holds initially.                                *)
LEMMA IInvInit == Init => IInv
  BY TypeInit DEF Init, IInv, CallerNotAhead, RefreshAheadPending, RefreshBufferedOrDone

(* The steps that leave the channel, the cache, the receiver and the       *)
(* callers alone and do not move the clock keep IInv.                      *)
LEMMA IInvFrame ==
    ASSUME IInv, TypeOK',
           UNCHANGED <<queue, cache, rxAlive, caller, now>>
    PROVE  IInv'
  BY DEF IInv, CallerNotAhead, RefreshAheadPending, RefreshBufferedOrDone, InQueue

(* A step that appends to the channel and leaves the cache, the receiver,  *)
(* the callers and the clock alone keeps IInv.                             *)
LEMMA IInvAppend ==
    ASSUME IInv, TypeOK', NEW x \in Ids,
           queue' = Append(queue, x),
           UNCHANGED <<cache, rxAlive, caller, now>>
    PROVE  IInv'
<1> USE DEF IInv, TypeOK
<1>1. CallerNotAhead'
  BY DEF CallerNotAhead
<1>2. RefreshAheadPending'
  <2> SUFFICES ASSUME NEW c \in Callers, caller'[c].st = "fallback", rxAlive'
               PROVE  RefreshBufferedOrDone(c)'
    BY DEF RefreshAheadPending
  <2>1. caller[c].id \in Ids
    BY DEF CallerState
  <2>2. InQueue(caller[c].id) => InQueue(caller[c].id)'
    BY <2>1, AppendInQueue DEF InQueue
  <2>3. QED BY <2>2 DEF RefreshAheadPending, RefreshBufferedOrDone
<1>3. QED BY <1>1, <1>2

(* Every step keeps IInv.                                                  *)
LEMMA IInvStep == IInv /\ [Next]_vars => IInv'
<1> SUFFICES ASSUME IInv, [Next]_vars PROVE IInv'
  OBVIOUS
<1>0. TypeOK'
  BY TypeStep DEF IInv
<1>1. ASSUME NEW id \in Ids, NEW cfg \in SourceConfig, AddSource(id, cfg)
      PROVE  IInv'
  <2>1. UNCHANGED <<cache, rxAlive, caller, now>> /\ Send(id)
    BY <1>1, Zenon DEF AddSource
  <2>2. CASE rxAlive
    BY <1>0, <2>1, <2>2, SendType, IInvAppend DEF IInv, TypeOK
  <2>3. CASE ~rxAlive
    BY <1>0, <2>1, <2>3, SendType, IInvFrame DEF IInv, TypeOK
  <2>4. QED BY <2>2, <2>3
<1>2. ASSUME NEW id \in Ids, RemoveSource(id) PROVE IInv'
  <2>1. NoCallInProgress /\ UNCHANGED <<queue, rxAlive, caller, now>>
    BY <1>2, Zenon DEF RemoveSource
  <2>2. QED BY <1>0, <2>1 DEF IInv, CallerNotAhead, RefreshAheadPending, RefreshBufferedOrDone,
                             NoCallInProgress
<1>3. ASSUME NEW c0 \in Callers, NEW id \in Ids, GetDataCheck(c0, id)
      PROVE  IInv'
  <2>1. CASE HasFreshEntry(id)
    <3>1. UNCHANGED <<queue, cache, rxAlive, caller, now>>
      BY <1>3, <2>1, Zenon DEF GetDataCheck
    <3>2. QED BY <1>0, <3>1, IInvFrame
  <2>2. CASE ~HasFreshEntry(id)
    <3>1. /\ Send(id)
          /\ caller' = [caller EXCEPT ![c0] = [st |-> "fallback", id |-> id, at |-> now]]
          /\ UNCHANGED <<cache, rxAlive, now>>
      BY <1>3, <2>2, Zenon DEF GetDataCheck
    <3>2. CallerNotAhead'
      BY <3>1 DEF IInv, TypeOK, CallerNotAhead, CallerState, Time
    <3>3. RefreshAheadPending'
      <4> SUFFICES ASSUME NEW c \in Callers, caller'[c].st = "fallback", rxAlive'
                   PROVE  RefreshBufferedOrDone(c)'
        BY DEF RefreshAheadPending
      <4>1. rxAlive /\ queue' = Append(queue, id)
        BY <3>1, SendType DEF IInv, TypeOK
      <4>2. CASE c = c0
        BY <3>1, <4>1, <4>2, AppendInQueue DEF IInv, TypeOK, InQueue,
                                              RefreshBufferedOrDone
      <4>3. CASE c # c0
        <5>1. caller'[c] = caller[c] /\ caller[c].id \in Ids
          BY <3>1, <4>3 DEF IInv, TypeOK, CallerState
        <5>2. QED BY <3>1, <4>1, <5>1, AppendInQueue
                  DEF IInv, TypeOK, InQueue, RefreshAheadPending, RefreshBufferedOrDone
      <4>4. QED BY <4>2, <4>3
    <3>4. QED BY <1>0, <3>2, <3>3 DEF IInv
  <2>3. QED BY <2>1, <2>2
<1>4. ASSUME NEW c0 \in Callers, GetDataFallback(c0) PROVE IInv'
  <2>1. caller' = [caller EXCEPT ![c0].st = "idle"]
        /\ UNCHANGED <<queue, cache, rxAlive, now>>
    BY <1>4, Zenon DEF GetDataFallback
  <2>2. QED BY <1>0, <2>1 DEF IInv, TypeOK, CallerState, CallerNotAhead,
                             RefreshAheadPending, RefreshBufferedOrDone, InQueue
<1>5. CASE RefreshTask
  <2>1. /\ queue # <<>>
        /\ cache' = [cache EXCEPT ![Head(queue)] = [fetchedAt |-> now, ttl |-> RefreshTtl]]
        /\ queue' = Tail(queue)
        /\ UNCHANGED <<rxAlive, caller, now>>
    BY <1>5, Zenon DEF RefreshTask
  <2>2. CallerNotAhead'
    BY <2>1 DEF IInv, CallerNotAhead
  <2>3. RefreshAheadPending'
    <3> SUFFICES ASSUME NEW c \in Callers, caller'[c].st = "fallback", rxAlive'
                 PROVE  RefreshBufferedOrDone(c)'
      BY DEF RefreshAheadPending
    <3> DEFINE i == caller[c].id
    <3>1. i \in Ids /\ caller[c].at <= now /\ caller'[c] = caller[c]
      BY <2>1 DEF IInv, TypeOK, CallerState, CallerNotAhead
    <3>2. Head(queue) \in Ids
      BY <2>1 DEF IInv, TypeOK
    <3>3. CASE Head(queue) = i
      BY <2>1, <3>1, <3>3, ConstantsAssumption DEF IInv, TypeOK, Time,
                                             RefreshBufferedOrDone
    <3>4. CASE Head(queue) # i
      <4>1. cache'[i] = cache[i]
        BY <2>1, <3>1, <3>4 DEF IInv, TypeOK
      <4>2. RefreshBufferedOrDone(c)
        BY <2>1, <3>1 DEF IInv, RefreshAheadPending
      <4>3. InQueue(i) => InQueue(i)'
        BY <2>1, <3>1, <3>4, TailInQueue DEF IInv, TypeOK, InQueue
      <4>4. QED BY <3>1, <4>1, <4>2, <4>3 DEF RefreshBufferedOrDone
    <3>5. QED BY <3>3, <3>4
  <2>4. QED BY <1>0, <2>2, <2>3 DEF IInv
<1>6. CASE RefreshPanic
  <2>1. ~rxAlive' /\ UNCHANGED <<caller, now>>
    BY <1>6, Zenon DEF RefreshPanic
  <2>2. QED BY <1>0, <2>1 DEF IInv, CallerNotAhead, RefreshAheadPending, RefreshBufferedOrDone
<1>7. CASE RefreshExit
  <2>1. ~rxAlive' /\ UNCHANGED <<caller, now>>
    BY <1>7, Zenon DEF RefreshExit
  <2>2. QED BY <1>0, <2>1 DEF IInv, CallerNotAhead, RefreshAheadPending, RefreshBufferedOrDone
<1>8. CASE StartAutoRefresh
  <2>1. UNCHANGED <<queue, cache, rxAlive, caller, now>>
    BY <1>8, Zenon DEF StartAutoRefresh
  <2>2. QED BY <1>0, <2>1, IInvFrame
<1>9. ASSUME NEW id \in Ids, TickerTick(id) PROVE IInv'
  <2>1. CASE rxAlive
    <3>1. queue' = Append(queue, id) /\ UNCHANGED <<cache, rxAlive, caller, now>>
      BY <1>9, <2>1, Zenon DEF TickerTick
    <3>2. QED BY <1>0, <3>1, IInvAppend
  <2>2. CASE ~rxAlive
    <3>1. UNCHANGED <<queue, cache, rxAlive, caller, now>>
      BY <1>9, <2>2, Zenon DEF TickerTick
    <3>2. QED BY <1>0, <3>1, IInvFrame
  <2>3. QED BY <2>1, <2>2
<1>10. CASE DropManager
  <2>1. UNCHANGED <<queue, cache, rxAlive, caller, now>>
    BY <1>10, Zenon DEF DropManager
  <2>2. QED BY <1>0, <2>1, IInvFrame
<1>11. CASE Tick
  <2>1. now' = now + 1 /\ UNCHANGED <<queue, cache, rxAlive, caller>>
    BY <1>11, Zenon DEF Tick
  <2>2. QED BY <1>0, <2>1 DEF IInv, TypeOK, CallerState, Time, CallerNotAhead,
                             RefreshAheadPending, RefreshBufferedOrDone, InQueue
<1>12. CASE UNCHANGED vars
  BY <1>0, <1>12, IInvFrame DEF vars
<1>13. QED
  BY <1>1, <1>2, <1>3, <1>4, <1>5, <1>6, <1>7, <1>8, <1>9, <1>10, <1>11,
     <1>12 DEF Next

(* Refresh-ahead is never lost while the refresh task lives: a get_data    *)
(* call between its two reads always has its refresh buffered or done.     *)
THEOREM RefreshAheadInvariant == Spec => []RefreshAheadPending
<1>1. IInv => RefreshAheadPending
  BY DEF IInv
<1>2. QED BY IInvInit, IInvStep, <1>1, PTL DEF Spec

-----------------------------------------------------------------------------
(* The refinement of RefreshCache under the mapping PendingIds.            *)

(* The ids a sequence holds.                                               *)
Rng(s) == {s[k] : k \in 1..Len(s)}

(* Appending adds exactly the appended id to the ids held.                 *)
LEMMA RngAppend ==
    ASSUME NEW q \in Seq(Ids), NEW x \in Ids
    PROVE  Rng(Append(q, x)) = Rng(q) \cup {x}
<1>1. /\ Len(Append(q, x)) = Len(q) + 1
      /\ Append(q, x)[Len(q) + 1] = x
      /\ \A k \in 1..Len(q) : Append(q, x)[k] = q[k]
  OBVIOUS
<1>2. Rng(Append(q, x)) \subseteq Rng(q) \cup {x}
  BY <1>1 DEF Rng
<1>3. Rng(q) \cup {x} \subseteq Rng(Append(q, x))
  BY <1>1 DEF Rng
<1>4. QED BY <1>2, <1>3

(* Removing the head drops the head from the ids held, or nothing when the *)
(* head is held again further back.                                        *)
LEMMA RngTail ==
    ASSUME NEW q \in Seq(Ids), q # <<>>
    PROVE  Rng(Tail(q)) \in {Rng(q), Rng(q) \ {Head(q)}}
<1>1. /\ Len(Tail(q)) = Len(q) - 1
      /\ \A k \in 1..Len(Tail(q)) : Tail(q)[k] = q[k + 1]
      /\ Head(q) = q[1] /\ Len(q) >= 1
  OBVIOUS
<1>2. Rng(q) = Rng(Tail(q)) \cup {Head(q)}
  <2>1. Rng(Tail(q)) \cup {Head(q)} \subseteq Rng(q)
    BY <1>1 DEF Rng
  <2>2. Rng(q) \subseteq Rng(Tail(q)) \cup {Head(q)}
    <3> SUFFICES ASSUME NEW k \in 1..Len(q), k # 1
                 PROVE  q[k] \in Rng(Tail(q))
      BY <1>1 DEF Rng
    <3>1. k - 1 \in 1..Len(Tail(q)) /\ Tail(q)[k - 1] = q[k]
      BY <1>1
    <3>2. QED BY <3>1 DEF Rng
  <2>3. QED BY <2>1, <2>2
<1>3. CASE Head(q) \in Rng(Tail(q))
  BY <1>2, <1>3
<1>4. CASE Head(q) \notin Rng(Tail(q))
  BY <1>2, <1>4
<1>5. QED BY <1>3, <1>4

(* A step that leaves the channel, the cache, the receiver and the clock   *)
(* alone is a stutter of RefreshCache.                                     *)
LEMMA AbsStutter ==
    ASSUME UNCHANGED <<queue, cache, rxAlive, now>>
    PROVE  [Abs!Next]_Abs!avars
  BY DEF Abs!avars, PendingIds

(* A send that reaches the open channel is a request.                      *)
LEMMA AbsAppend ==
    ASSUME TypeOK, NEW id \in Ids, rxAlive,
           queue' = Append(queue, id), UNCHANGED <<cache, rxAlive, now>>
    PROVE  [Abs!Next]_Abs!avars
<1>1. PendingIds' = PendingIds \cup {id}
  BY RngAppend DEF TypeOK, PendingIds, Rng
<1>2. Abs!Request(id)
  BY <1>1 DEF Abs!Request
<1>3. QED BY <1>2 DEF Abs!Next

(* A send of get_data, add_source or a ticker is a request or a stutter.   *)
LEMMA AbsSend ==
    ASSUME TypeOK, NEW id \in Ids, Send(id), UNCHANGED <<cache, rxAlive, now>>
    PROVE  [Abs!Next]_Abs!avars
<1>1. CASE rxAlive
  BY <1>1, SendType, AbsAppend DEF TypeOK
<1>2. CASE ~rxAlive
  BY <1>2, SendType, AbsStutter DEF TypeOK
<1>3. QED BY <1>1, <1>2

(* Every step of ExternalData is a step of RefreshCache or a stutter.      *)
LEMMA RefineStep == TypeOK /\ [Next]_vars => [Abs!Next]_Abs!avars
<1> SUFFICES ASSUME TypeOK, [Next]_vars PROVE [Abs!Next]_Abs!avars
  OBVIOUS
<1>1. ASSUME NEW id \in Ids, NEW cfg \in SourceConfig, AddSource(id, cfg)
      PROVE  [Abs!Next]_Abs!avars
  <2>1. UNCHANGED <<cache, rxAlive, now>> /\ Send(id)
    BY <1>1, Zenon DEF AddSource
  <2>2. QED BY <2>1, AbsSend
<1>2. ASSUME NEW id \in Ids, RemoveSource(id) PROVE [Abs!Next]_Abs!avars
  <2>1. cache' = [cache EXCEPT ![id] = NoEntry] /\ UNCHANGED <<queue, rxAlive, now>>
    BY <1>2, Zenon DEF RemoveSource
  <2>2. Abs!Evict(id)
    BY <2>1 DEF Abs!Evict, PendingIds
  <2>3. QED BY <2>2 DEF Abs!Next
<1>3. ASSUME NEW c \in Callers, NEW id \in Ids, GetDataCheck(c, id)
      PROVE  [Abs!Next]_Abs!avars
  <2>1. CASE HasFreshEntry(id)
    <3>1. UNCHANGED <<queue, cache, rxAlive, now>>
      BY <1>3, <2>1, Zenon DEF GetDataCheck
    <3>2. QED BY <3>1, AbsStutter
  <2>2. CASE ~HasFreshEntry(id)
    <3>1. UNCHANGED <<cache, rxAlive, now>> /\ Send(id)
      BY <1>3, <2>2, Zenon DEF GetDataCheck
    <3>2. QED BY <3>1, AbsSend
  <2>3. QED BY <2>1, <2>2
<1>4. ASSUME NEW c \in Callers, GetDataFallback(c) PROVE [Abs!Next]_Abs!avars
  <2>1. UNCHANGED <<queue, cache, rxAlive, now>>
    BY <1>4, Zenon DEF GetDataFallback
  <2>2. QED BY <2>1, AbsStutter
<1>5. CASE RefreshTask
  <2>1. /\ rxAlive /\ queue # <<>>
        /\ cache' = [cache EXCEPT ![Head(queue)] = [fetchedAt |-> now, ttl |-> RefreshTtl]]
        /\ queue' = Tail(queue)
        /\ UNCHANGED <<rxAlive, now>>
    BY <1>5, Zenon DEF RefreshTask
  <2>2. Head(queue) \in Ids /\ Head(queue) \in PendingIds
    BY <2>1 DEF TypeOK, PendingIds
  <2>3. PendingIds' \in {PendingIds, PendingIds \ {Head(queue)}}
    BY <2>1, RngTail DEF TypeOK, PendingIds, Rng
  <2>4. Abs!Serve(Head(queue))
    BY <2>1, <2>2, <2>3 DEF Abs!Serve
  <2>5. QED BY <2>2, <2>4 DEF Abs!Next
<1>6. CASE RefreshPanic
  <2>1. /\ ClockBeforeEpoch /\ rxAlive /\ queue # <<>>
        /\ rxAlive' = FALSE /\ queue' = <<>>
        /\ UNCHANGED <<cache, now>>
    BY <1>6, Zenon DEF RefreshPanic
  <2>2. PendingIds # {} /\ PendingIds' = {}
    <3>1. 1 \in 1..Len(queue)
      BY <2>1 DEF TypeOK
    <3>2. queue[1] \in PendingIds
      BY <3>1 DEF PendingIds
    <3>3. PendingIds' = {}
      BY <2>1 DEF PendingIds
    <3>4. QED BY <3>2, <3>3
  <2>3. Abs!Crash
    BY <2>1, <2>2 DEF Abs!Crash
  <2>4. QED BY <2>3 DEF Abs!Next
<1>7. CASE RefreshExit
  <2>1. /\ rxAlive /\ queue = <<>> /\ rxAlive' = FALSE
        /\ UNCHANGED <<cache, queue, now>>
    BY <1>7, Zenon DEF RefreshExit
  <2>2. PendingIds = {} /\ PendingIds' = {}
    BY <2>1 DEF PendingIds
  <2>3. Abs!Exit
    BY <2>1, <2>2 DEF Abs!Exit
  <2>4. QED BY <2>3 DEF Abs!Next
<1>8. CASE StartAutoRefresh
  <2>1. UNCHANGED <<queue, cache, rxAlive, now>>
    BY <1>8, Zenon DEF StartAutoRefresh
  <2>2. QED BY <2>1, AbsStutter
<1>9. ASSUME NEW id \in Ids, TickerTick(id) PROVE [Abs!Next]_Abs!avars
  <2>1. CASE rxAlive
    <3>1. queue' = Append(queue, id) /\ UNCHANGED <<cache, rxAlive, now>>
      BY <1>9, <2>1, Zenon DEF TickerTick
    <3>2. QED BY <2>1, <3>1, AbsAppend
  <2>2. CASE ~rxAlive
    <3>1. UNCHANGED <<queue, cache, rxAlive, now>>
      BY <1>9, <2>2, Zenon DEF TickerTick
    <3>2. QED BY <3>1, AbsStutter
  <2>3. QED BY <2>1, <2>2
<1>10. CASE DropManager
  <2>1. UNCHANGED <<queue, cache, rxAlive, now>>
    BY <1>10, Zenon DEF DropManager
  <2>2. QED BY <2>1, AbsStutter
<1>11. CASE Tick
  <2>1. now < MaxTime /\ now' = now + 1 /\ UNCHANGED <<queue, cache, rxAlive>>
    BY <1>11, Zenon DEF Tick
  <2>2. Abs!Tick
    BY <2>1 DEF Abs!Tick, PendingIds
  <2>3. QED BY <2>2 DEF Abs!Next
<1>12. CASE UNCHANGED vars
  BY <1>12, AbsStutter DEF vars
<1>13. QED
  BY <1>1, <1>2, <1>3, <1>4, <1>5, <1>6, <1>7, <1>8, <1>9, <1>10, <1>11,
     <1>12 DEF Next

(* The manager, the refresh task and the tickers implement RefreshCache:   *)
(* the refinement the external_data_safety run checks, for every value    *)
(* of the constants.                                                       *)
THEOREM RefreshCacheRefinement == Spec => RefinesRefreshCache
<1>1. Init => Abs!Init
  BY DEF Init, Abs!Init, PendingIds
<1>2. QED BY <1>1, RefineStep, TypeCorrect, PTL DEF Spec, RefinesRefreshCache, Abs!Spec
=============================================================================
