--------------------------- MODULE FrontierProofs ---------------------------
(***************************************************************************)
(* Proofs about Frontier, for every value of its constants.                *)
(***************************************************************************)
EXTENDS Frontier, SequenceTheorems, FiniteSetTheorems, FunctionTheorems, TLAPS

\* The politeness operators keep the type of the scheduler's state.
LEMMA PolitenessTypes ==
  ASSUME domains \in P!DomainsType, NEW d \in Domains
  PROVE  /\ P!StartRequest(d) => domains' \in P!DomainsType
         /\ P!CompleteRequest(d) => domains' \in P!DomainsType
         /\ P!FailedRequest(d, FALSE) => domains' \in P!DomainsType
         /\ P!Elapse => domains' \in P!DomainsType
<1> USE SchedulerAssumption
    DEF P!DomainsType, P!DomainState, P!PolitenessAssumption, P!UntrackedAssumption
<1>1. P!StateOf(d) \in P!DomainState
  BY DEF P!StateOf, P!NewState, P!Tracked
<1>2. ASSUME P!StartRequest(d) PROVE domains' \in P!DomainsType
  <2>1. ASSUME NEW s \in P!DomainState
        PROVE  [s EXCEPT !.in_flight = @ + 1, !.since = 0] \in P!DomainState
    <3>1. [s EXCEPT !.in_flight = @ + 1] \in P!DomainState
      OBVIOUS
    <3>2. ASSUME NEW t \in P!DomainState PROVE [t EXCEPT !.since = 0] \in P!DomainState
      OBVIOUS
    <3> QED
      BY <3>1, <3>2
  <2> QED
    BY <1>1, <1>2, <2>1 DEF P!StartRequest
<1>3. ASSUME P!CompleteRequest(d) PROVE domains' \in P!DomainsType
  <2>1. CASE P!Tracked(d)
    <3>1. domains[d] \in P!DomainState
      BY <2>1 DEF P!Tracked
    <3>2. P!Released(domains[d].in_flight) \in Nat
      BY <3>1 DEF P!Released
    <3>3. P!Recovered(domains[d].delay) \in 0..MaxDelay
      BY <3>1 DEF P!Recovered
    <3> QED
      BY <1>3, <2>1, <3>1, <3>2, <3>3 DEF P!CompleteRequest
  <2>2. CASE ~P!Tracked(d)
    BY <1>3, <2>2 DEF P!CompleteRequest
  <2> QED BY <2>1, <2>2
<1>4. ASSUME P!FailedRequest(d, FALSE) PROVE domains' \in P!DomainsType
  <2>1. CASE P!Tracked(d)
    <3>1. domains[d] \in P!DomainState
      BY <2>1 DEF P!Tracked
    <3>2. P!Released(domains[d].in_flight) \in Nat
      BY <3>1 DEF P!Released
    <3>3. P!BackedOff(domains[d].delay) \in 0..MaxDelay
      BY <3>1 DEF P!BackedOff
    <3> QED
      BY <1>4, <2>1, <3>1, <3>2, <3>3 DEF P!FailedRequest
  <2>2. CASE ~P!Tracked(d)
    BY <1>4, <2>2 DEF P!FailedRequest
  <2> QED BY <2>1, <2>2
<1>5. ASSUME P!Elapse PROVE domains' \in P!DomainsType
  <2>1. ASSUME NEW x \in Domains, P!Tracked(x), domains[x].since < MaxDelay
        PROVE  [domains[x] EXCEPT !.since = @ + 1] \in P!DomainState
    BY <2>1 DEF P!Tracked
  <2> QED
    BY <1>5, <2>1 DEF P!Elapse
<1> QED BY <1>2, <1>3, <1>4, <1>5

\* What a push does to the queue and to the evictions: whichever victim it
\* picks, it was in the queue or is the new entry.
LEMMA PushLeavesOut ==
  ASSUME NEW j, NEW e, Push(j, e)
  PROVE  \E out \in SUBSET (queue[j] \cup {e}) :
           /\ queue' = [queue EXCEPT ![j] = (@ \cup {e}) \ out]
           /\ evicted' = evicted \cup out
<1>1. Victims(queue[j], e) \subseteq queue[j] \cup {e}
  BY DEF Victims, Lowest
<1>2. PICK out \in (IF Victims(queue[j], e) = {} THEN {{}}
                    ELSE {{v} : v \in Victims(queue[j], e)}) :
        /\ queue' = [queue EXCEPT ![j] = (@ \cup {e}) \ out]
        /\ evicted' = evicted \cup out
  BY DEF Push
<1>3. out \subseteq queue[j] \cup {e}
  BY <1>1, <1>2
<1> QED
  BY <1>2, <1>3

\* A message that is received becomes an entry, and leaves the type of the
\* limits and of the counter of received messages.
LEMMA ReceiveTypes ==
  ASSUME TypeOK, NEW m \in Messages, Receive(m)
  PROVE  /\ m \in Message
         /\ EntryOf(m) \in Entry
         /\ limits' \in [Jobs -> Limits \cup {NoFrontier}]
         /\ received' \in [Jobs -> Nat]
<1> USE FrontierAssumption DEF TypeOK, Receive
<1>1. m \in Message
  OBVIOUS
<1>2. m.job \in Jobs /\ m.key \in Keys /\ m.depth \in Nat /\ m.priority \in Int
      /\ m.limits \in Limits
  BY <1>1 DEF Message
<1>3. EntryOf(m) \in Entry
  BY <1>2 DEF EntryOf, Entry
<1>4. FrontierOf(m) \in Limits
  BY <1>2 DEF FrontierOf
<1> QED
  BY <1>1, <1>2, <1>3, <1>4

LEMMA InitTypes == Init => TypeOK
<1> SUFFICES ASSUME Init PROVE TypeOK
  OBVIOUS
<1>1. domains \in P!DomainsType
  BY DEF Init, P!PolitenessInit, P!DomainsType
<1>2. channel \in Seq(Entry) /\ ready \in {NoUrl} /\ dispatcherPc = "recv"
  BY DEF Init
<1> QED
  BY <1>1, <1>2 DEF Init, TypeOK

LEMMA NextTypes == TypeOK /\ [Next]_vars => TypeOK'
<1> SUFFICES ASSUME TypeOK, [Next]_vars PROVE TypeOK'
  OBVIOUS
<1> USE FrontierAssumption
    DEF jobVars, collectorVars, dispatcherVars, historyVars
<1>1. ASSUME NEW m \in Messages, Reject(m) PROVE TypeOK'
  <2>1. Receive(m) /\ m.job \in Jobs
    BY <1>1, ReceiveTypes DEF Reject, Message
  <2>2. deduplicated' \in [Jobs -> Nat]
    BY <1>1, <2>1 DEF TypeOK, Reject
  <2>3. limits' \in [Jobs -> Limits \cup {NoFrontier}] /\ received' \in [Jobs -> Nat]
    BY <2>1, ReceiveTypes
  <2> QED
    BY <1>1, <2>2, <2>3 DEF TypeOK, Reject, Receive
<1>2. ASSUME NEW m \in Messages, Accept(m) PROVE TypeOK'
  <2>1. Receive(m) /\ Push(m.job, EntryOf(m))
    BY <1>2 DEF Accept
  <2>2. m.job \in Jobs /\ m.key \in Keys
    BY <2>1, ReceiveTypes DEF Message
  <2>3. PICK out \in SUBSET (queue[m.job] \cup {EntryOf(m)}) :
          /\ queue' = [queue EXCEPT ![m.job] = (@ \cup {EntryOf(m)}) \ out]
          /\ evicted' = evicted \cup out
    BY <2>1, PushLeavesOut
  <2>4. queue' \in [Jobs -> SUBSET Entry] /\ evicted' \subseteq Entry
    BY <2>1, <2>2, <2>3, ReceiveTypes DEF TypeOK
  <2>5. seen' \in [Jobs -> SUBSET Keys]
    BY <1>2, <2>2 DEF Accept, TypeOK
  <2>6. limits' \in [Jobs -> Limits \cup {NoFrontier}] /\ received' \in [Jobs -> Nat]
    BY <2>1, ReceiveTypes
  <2> QED
    BY <1>2, <2>4, <2>5, <2>6 DEF TypeOK, Accept, Receive
<1>3. CASE CollectorTick
  BY <1>3 DEF TypeOK, CollectorTick
<1>4. ASSUME NEW j \in Jobs, CollectorPop(j) PROVE TypeOK'
  <2>1. PICK b \in Best(queue[j], Budget(j)) :
          batch' = b /\ queue' = [queue EXCEPT ![j] = @ \ b]
    BY <1>4 DEF CollectorPop
  <2>2. b \subseteq Entry
    BY <2>1 DEF TypeOK, Best
  <2> QED
    BY <1>4, <2>1, <2>2 DEF TypeOK, CollectorPop
<1>5. ASSUME NEW e \in batch, CollectorAdmit(e) PROVE TypeOK'
  <2>1. e \in Entry /\ DomainOf[e.key] \in Domains
    BY <1>5 DEF TypeOK, Entry
  <2>2. domains' \in P!DomainsType
    BY <1>5, <2>1, PolitenessTypes DEF TypeOK, CollectorAdmit
  <2> QED
    BY <1>5, <2>1, <2>2 DEF TypeOK, CollectorAdmit
<1>6. ASSUME NEW e \in batch, CollectorDelay(e) PROVE TypeOK'
  <2>1. e \in Entry /\ e.job \in Jobs
    BY <1>6 DEF TypeOK, Entry
  <2>2. PICK out \in SUBSET (queue[e.job] \cup {e}) :
          /\ queue' = [queue EXCEPT ![e.job] = (@ \cup {e}) \ out]
          /\ evicted' = evicted \cup out
    BY <1>6, PushLeavesOut DEF CollectorDelay
  <2>3. queue' \in [Jobs -> SUBSET Entry] /\ evicted' \subseteq Entry
    BY <2>1, <2>2 DEF TypeOK
  <2> QED
    BY <1>6, <2>1, <2>3 DEF TypeOK, CollectorDelay
<1>7. CASE CollectorSend
  BY <1>7 DEF TypeOK, CollectorSend
<1>8. CASE CollectorSendError
  BY <1>8 DEF TypeOK, CollectorSendError
<1>9. CASE CollectorLoop
  BY <1>9 DEF TypeOK, CollectorLoop
<1>10. CASE DispatcherRecv
  BY <1>10 DEF TypeOK, DispatcherRecv
<1>11. CASE DispatcherClosed
  BY <1>11 DEF TypeOK, DispatcherClosed
<1>12. CASE DispatcherPublish
  BY <1>12 DEF TypeOK, DispatcherPublish
<1>13. CASE DispatcherMark
  <2>1. ready.job \in Jobs
    BY <1>13 DEF TypeOK, DispatcherMark, Entry
  <2> QED
    BY <1>13, <2>1 DEF TypeOK, DispatcherMark
<1>14. CASE DispatcherComplete
  <2>1. ready \in Entry /\ DomainOf[ready.key] \in Domains
    BY <1>14 DEF TypeOK, DispatcherComplete, Entry
  <2>2. domains' \in P!DomainsType
    BY <1>14, <2>1, PolitenessTypes DEF TypeOK, DispatcherComplete
  <2>3. channel' \in Seq(Entry) /\ dispatcherPc' \in {"recv", "stopped"}
    <3>1. CASE shutdown
      BY <1>14, <3>1 DEF DispatcherComplete, DispatcherLoop
    <3>2. CASE ~shutdown
      BY <1>14, <3>2 DEF TypeOK, DispatcherComplete, DispatcherLoop
    <3> QED BY <3>1, <3>2
  <2>4. InChannel \subseteq Entry
    BY DEF TypeOK, InChannel
  <2> QED
    BY <1>14, <2>1, <2>2, <2>3, <2>4 DEF TypeOK, DispatcherComplete
<1>15. CASE DispatcherFail
  <2>1. ready \in Entry /\ DomainOf[ready.key] \in Domains
    BY <1>15 DEF TypeOK, DispatcherFail, Entry
  <2>2. domains' \in P!DomainsType
    BY <1>15, <2>1, PolitenessTypes DEF TypeOK, DispatcherFail
  <2>3. channel' \in Seq(Entry) /\ dispatcherPc' \in {"recv", "stopped"}
    <3>1. CASE shutdown
      BY <1>15, <3>1 DEF DispatcherFail, DispatcherLoop
    <3>2. CASE ~shutdown
      BY <1>15, <3>2 DEF TypeOK, DispatcherFail, DispatcherLoop
    <3> QED BY <3>1, <3>2
  <2>4. InChannel \subseteq Entry
    BY DEF TypeOK, InChannel
  <2> QED
    BY <1>15, <2>1, <2>2, <2>3, <2>4 DEF TypeOK, DispatcherFail
<1>16. CASE Elapse
  <2>1. \E d \in Domains : TRUE
    BY <1>16 DEF Elapse, P!Elapse
  <2>2. domains' \in P!DomainsType
    BY <1>16, <2>1, PolitenessTypes DEF TypeOK, Elapse
  <2> QED
    BY <1>16, <2>2 DEF TypeOK, Elapse
<1>17. CASE Shutdown
  BY <1>17 DEF TypeOK, Shutdown
<1>18. CASE UNCHANGED vars
  BY <1>18 DEF TypeOK, vars
<1> QED
  BY <1>1, <1>2, <1>3, <1>4, <1>5, <1>6, <1>7, <1>8, <1>9, <1>10, <1>11, <1>12,
     <1>13, <1>14, <1>15, <1>16, <1>17, <1>18
  DEF Next, Consumer, Collector, CollectorHandle, Dispatcher

\* Every variable keeps its type, whatever the constants.
THEOREM TypeCorrect == Spec => []TypeOK
BY InitTypes, NextTypes, PTL DEF Spec

-----------------------------------------------------------------------------
(* A URL is in one place at a time, once, and never nowhere.               *)

\* An entry waits in the queue of its own job.
QueuesAreJobs == \A j \in Jobs : \A e \in queue[j] : e.job = j

\* Every entry's key is in the Bloom filter of its job.
KnownAreSeen == \A e \in Known : e.key \in seen[e.job]

\* The inductive invariant.  OneCopyPerUrl alone is not inductive: a message is
\* accepted on the word of the Bloom filter, so the filter must know the keys of
\* all the entries there are, and the places must be told apart job by job.
IInv == TypeOK /\ OneCopyPerUrl /\ NoUrlVanishes /\ KnownAreSeen /\ QueuesAreJobs

\* Appending a new element to the channel adds it to the elements.
LEMMA ChannelAppend ==
  ASSUME TypeOK, NEW e \in Entry, channel' = Append(channel, e)
  PROVE  /\ InChannel' = InChannel \cup {e}
         /\ e \notin InChannel /\ (\A i, k \in 1..Len(channel) : channel[i] = channel[k] => i = k)
              => (\A i, k \in 1..Len(channel') : channel'[i] = channel'[k] => i = k)
<1>1. channel \in Seq(Entry)
  BY DEF TypeOK
<1>2. /\ Len(channel') = Len(channel) + 1
      /\ \A i \in 1..Len(channel) : channel'[i] = channel[i]
      /\ channel'[Len(channel) + 1] = e
      /\ Len(channel) \in Nat
  BY <1>1, AppendProperties, LenProperties
<1>3. InChannel' = InChannel \cup {e}
  <2>1. 1..Len(channel') = 1..Len(channel) \cup {Len(channel) + 1}
    BY <1>2
  <2> QED
    BY <1>2, <2>1 DEF InChannel
<1>4. ASSUME e \notin InChannel,
             \A i, k \in 1..Len(channel) : channel[i] = channel[k] => i = k,
             NEW i \in 1..Len(channel'), NEW k \in 1..Len(channel'),
             channel'[i] = channel'[k]
      PROVE  i = k
  <2>1. \A n \in 1..Len(channel) : channel[n] # e
    BY <1>4 DEF InChannel
  <2> QED
    BY <1>2, <1>4, <2>1
<1> QED
  BY <1>3, <1>4

\* Taking the head of the channel removes it from the elements.
LEMMA ChannelTail ==
  ASSUME TypeOK, channel # <<>>, channel' = Tail(channel),
         \A i, k \in 1..Len(channel) : channel[i] = channel[k] => i = k
  PROVE  /\ Head(channel) \in InChannel
         /\ InChannel' = InChannel \ {Head(channel)}
         /\ \A i, k \in 1..Len(channel') : channel'[i] = channel'[k] => i = k
<1>1. channel \in Seq(Entry)
  BY DEF TypeOK
<1>2. /\ Len(channel') = Len(channel) - 1
      /\ Len(channel) \in Nat \ {0}
      /\ \A i \in 1..Len(channel') : channel'[i] = channel[i + 1]
      /\ Head(channel) = channel[1]
  BY <1>1, HeadTailProperties, EmptySeq
<1>3. Head(channel) \in InChannel
  BY <1>2 DEF InChannel
<1>4. InChannel' \subseteq InChannel \ {Head(channel)}
  <2> SUFFICES ASSUME NEW i \in 1..Len(channel')
               PROVE  channel'[i] \in InChannel \ {Head(channel)}
    BY DEF InChannel
  <2>1. i + 1 \in 1..Len(channel) /\ 1 \in 1..Len(channel) /\ i + 1 # 1
    BY <1>2
  <2> QED
    BY <1>2, <2>1 DEF InChannel
<1>5. InChannel \ {Head(channel)} \subseteq InChannel'
  <2> SUFFICES ASSUME NEW i \in 1..Len(channel), channel[i] # Head(channel)
               PROVE  channel[i] \in InChannel'
    BY DEF InChannel
  <2>1. i - 1 \in 1..Len(channel') /\ channel'[i - 1] = channel[i]
    BY <1>2
  <2> QED
    BY <2>1 DEF InChannel
<1>6. ASSUME NEW i \in 1..Len(channel'), NEW k \in 1..Len(channel'),
             channel'[i] = channel'[k]
      PROVE  i = k
  BY <1>2, <1>6
<1> QED
  BY <1>3, <1>4, <1>5, <1>6

\* Pushing an entry that is in no other place back, or for the first time,
\* leaves it in its job's queue or among the evicted, with one possible victim.
LEMMA PushMoves ==
  ASSUME TypeOK, QueuesAreJobs, NEW e \in Entry, Push(e.job, e)
  PROVE  \E out \in SUBSET (Queued \cup {e}) :
           /\ Queued' = (Queued \cup {e}) \ out
           /\ evicted' = evicted \cup out
           /\ QueuesAreJobs'
<1>1. e.job \in Jobs
  BY DEF Entry
<1>2. PICK out \in SUBSET (queue[e.job] \cup {e}) :
        /\ queue' = [queue EXCEPT ![e.job] = (@ \cup {e}) \ out]
        /\ evicted' = evicted \cup out
  BY PushLeavesOut
<1>3. \A x \in out : x.job = e.job
  BY <1>1, <1>2 DEF QueuesAreJobs
<1>4. QueuesAreJobs'
  BY <1>1, <1>2 DEF QueuesAreJobs, TypeOK
<1>5. \A j \in Jobs : queue'[j] = IF j = e.job THEN (queue[j] \cup {e}) \ out ELSE queue[j]
  BY <1>1, <1>2 DEF TypeOK
<1>6. Queued' = (Queued \cup {e}) \ out
  <2>1. ASSUME NEW x \in Queued' PROVE x \in (Queued \cup {e}) \ out
    <3>1. PICK j \in Jobs : x \in queue'[j]
      BY <2>1 DEF Queued
    <3>2. CASE j = e.job
      BY <1>5, <3>1, <3>2 DEF Queued
    <3>3. CASE j # e.job
      BY <1>3, <1>5, <3>1, <3>3 DEF Queued, QueuesAreJobs
    <3> QED BY <3>2, <3>3
  <2>2. ASSUME NEW x \in (Queued \cup {e}) \ out PROVE x \in Queued'
    <3>1. CASE x = e
      BY <1>1, <1>5, <2>2, <3>1 DEF Queued
    <3>2. CASE x # e
      <4>1. PICK j \in Jobs : x \in queue[j]
        BY <2>2, <3>2 DEF Queued
      <4> QED BY <1>5, <2>2, <4>1 DEF Queued
    <3> QED BY <3>1, <3>2
  <2> QED BY <2>1, <2>2
<1>7. out \subseteq Queued \cup {e}
  BY <1>1, <1>2 DEF Queued
<1> QED
  BY <1>2, <1>4, <1>6, <1>7

\* The steps that move entries between places, all but the acceptance of a new
\* one, keep every entry in one place and lose none.
Moved == Known' = Known /\ InOnePlace' /\ QueuesAreJobs'

LEMMA PopMoves ==
  ASSUME IInv, NEW j \in Jobs, CollectorPop(j) PROVE Moved
<1>1. PICK b \in Best(queue[j], Budget(j)) :
        batch' = b /\ queue' = [queue EXCEPT ![j] = @ \ b]
  BY DEF CollectorPop
<1>2. b \subseteq queue[j]
  BY DEF Best
<1>3. \A k \in Jobs : queue'[k] = IF k = j THEN queue[k] \ b ELSE queue[k]
  BY <1>1 DEF IInv, TypeOK
<1>4. QueuesAreJobs' /\ b \subseteq Queued
  BY <1>2, <1>3 DEF IInv, QueuesAreJobs, Queued
<1>5. Queued' = Queued \ b
  <2>1. \A k \in Jobs : k # j => queue[k] \cap b = {}
    BY <1>2 DEF IInv, QueuesAreJobs
  <2>2. \A k \in Jobs : queue'[k] = queue[k] \ b
    BY <1>3, <2>1
  <2> QED
    BY <2>2 DEF Queued
<1>6. /\ batch = {} /\ batch' = b
      /\ Held' = Held /\ InChannel' = InChannel /\ Sending' = Sending
      /\ published' = published /\ evicted' = evicted /\ undelivered' = undelivered
      /\ channel' = channel
  BY <1>1 DEF CollectorPop, Held, InChannel, Sending, dispatcherVars, historyVars
<1>7. InOnePlace'
  BY <1>4, <1>5, <1>6 DEF IInv, OneCopyPerUrl, InOnePlace, Done
<1>8. Known' = Known
  BY <1>4, <1>5, <1>6 DEF Known, Done
<1> QED
  BY <1>4, <1>7, <1>8 DEF Moved

LEMMA AdmitMoves ==
  ASSUME IInv, NEW e \in batch, CollectorAdmit(e) PROVE Moved
<1>1. /\ batch' = batch \ {e} /\ Held = {} /\ Held' = {e}
      /\ queue' = queue /\ channel' = channel /\ Sending' = Sending
      /\ published' = published /\ evicted' = evicted /\ undelivered' = undelivered
  <2>1. e # NoUrl
    BY FrontierAssumption DEF IInv, TypeOK
  <2> QED
    BY <2>1 DEF CollectorAdmit, Held, Sending, jobVars, dispatcherVars, historyVars
<1>2. Queued' = Queued /\ InChannel' = InChannel /\ QueuesAreJobs'
  BY <1>1 DEF Queued, InChannel, QueuesAreJobs, IInv
<1>3. InOnePlace'
  BY <1>1, <1>2 DEF IInv, OneCopyPerUrl, InOnePlace, Done
<1>4. Known' = Known
  BY <1>1, <1>2 DEF Known, Done
<1> QED
  BY <1>2, <1>3, <1>4 DEF Moved

LEMMA DelayMoves ==
  ASSUME IInv, NEW e \in batch, CollectorDelay(e) PROVE Moved
<1>1. e \in Entry
  BY DEF IInv, TypeOK
<1>2. PICK out \in SUBSET (Queued \cup {e}) :
        /\ Queued' = (Queued \cup {e}) \ out
        /\ evicted' = evicted \cup out
        /\ QueuesAreJobs'
  BY <1>1, PushMoves DEF CollectorDelay, IInv
<1>3. /\ batch' = batch \ {e}
      /\ Held' = Held /\ InChannel' = InChannel /\ Sending' = Sending
      /\ published' = published /\ undelivered' = undelivered /\ channel' = channel
  BY DEF CollectorDelay, Held, InChannel, Sending, dispatcherVars
<1>4. InOnePlace'
  BY <1>2, <1>3 DEF IInv, OneCopyPerUrl, InOnePlace, Done
<1>5. Known' = Known
  BY <1>2, <1>3 DEF Known, Done
<1> QED
  BY <1>2, <1>4, <1>5 DEF Moved

LEMMA SendMoves ==
  ASSUME IInv, CollectorSend PROVE Moved
<1>1. /\ hand \in Entry /\ Held = {hand} /\ Held' = {}
      /\ channel' = Append(channel, hand)
      /\ queue' = queue /\ batch' = batch /\ Sending' = Sending
      /\ published' = published /\ evicted' = evicted /\ undelivered' = undelivered
  BY DEF CollectorSend, Held, Sending, IInv, TypeOK, jobVars, dispatcherVars, historyVars
<1>2. Queued' = Queued /\ QueuesAreJobs'
  BY <1>1 DEF Queued, QueuesAreJobs, IInv
<1>3. hand \notin InChannel
  BY <1>1 DEF IInv, OneCopyPerUrl, InOnePlace
<1>4. /\ InChannel' = InChannel \cup {hand}
      /\ \A i, k \in 1..Len(channel') : channel'[i] = channel'[k] => i = k
  BY <1>1, <1>3, ChannelAppend DEF IInv, OneCopyPerUrl, InOnePlace
<1>5. InOnePlace'
  BY <1>1, <1>2, <1>4 DEF IInv, OneCopyPerUrl, InOnePlace, Done
<1>6. Known' = Known
  BY <1>1, <1>2, <1>4 DEF Known, Done
<1> QED
  BY <1>2, <1>5, <1>6 DEF Moved

LEMMA SendErrorMoves ==
  ASSUME IInv, CollectorSendError PROVE Moved
<1>1. /\ Held = {hand} /\ Held' = {} /\ batch' = {}
      /\ undelivered' = undelivered \cup batch \cup Held
      /\ channel' = channel /\ queue' = queue /\ Sending' = Sending
      /\ published' = published /\ evicted' = evicted
  BY DEF CollectorSendError, Held, Sending, jobVars, dispatcherVars
<1>2. Queued' = Queued /\ InChannel' = InChannel /\ QueuesAreJobs'
  BY <1>1 DEF Queued, InChannel, QueuesAreJobs, IInv
<1>3. InOnePlace'
  BY <1>1, <1>2 DEF IInv, OneCopyPerUrl, InOnePlace, Done
<1>4. Known' = Known
  BY <1>1, <1>2 DEF Known, Done
<1> QED
  BY <1>2, <1>3, <1>4 DEF Moved

LEMMA RecvMoves ==
  ASSUME IInv, DispatcherRecv PROVE Moved
<1>1. /\ Sending = {} /\ Sending' = {Head(channel)}
      /\ channel # <<>> /\ channel' = Tail(channel)
      /\ queue' = queue /\ batch' = batch /\ Held' = Held
      /\ published' = published /\ evicted' = evicted /\ undelivered' = undelivered
  BY DEF DispatcherRecv, Held, Sending, jobVars, collectorVars, historyVars
<1>2. Queued' = Queued /\ QueuesAreJobs'
  BY <1>1 DEF Queued, QueuesAreJobs, IInv
<1>3. /\ Head(channel) \in InChannel
      /\ InChannel' = InChannel \ {Head(channel)}
      /\ \A i, k \in 1..Len(channel') : channel'[i] = channel'[k] => i = k
  BY <1>1, ChannelTail DEF IInv, OneCopyPerUrl, InOnePlace
<1>4. InOnePlace'
  BY <1>1, <1>2, <1>3 DEF IInv, OneCopyPerUrl, InOnePlace, Done
<1>5. Known' = Known
  BY <1>1, <1>2, <1>3 DEF Known, Done
<1> QED
  BY <1>2, <1>4, <1>5 DEF Moved

LEMMA PublishMoves ==
  ASSUME IInv, DispatcherPublish PROVE Moved
<1>1. /\ Sending = {ready} /\ Sending' = {}
      /\ published' = published \cup {ready}
      /\ channel' = channel /\ queue' = queue /\ batch' = batch /\ Held' = Held
      /\ evicted' = evicted /\ undelivered' = undelivered
  BY DEF DispatcherPublish, Held, Sending, jobVars, collectorVars
<1>2. Queued' = Queued /\ InChannel' = InChannel /\ QueuesAreJobs'
  BY <1>1 DEF Queued, InChannel, QueuesAreJobs, IInv
<1>3. InOnePlace'
  BY <1>1, <1>2 DEF IInv, OneCopyPerUrl, InOnePlace, Done
<1>4. Known' = Known
  BY <1>1, <1>2 DEF Known, Done
<1> QED
  BY <1>2, <1>3, <1>4 DEF Moved

\* What DispatcherLoop leaves of the channel, and what it gives up with it.
LEMMA LoopMoves ==
  ASSUME IInv, DispatcherLoop
  PROVE  /\ InChannel' = InChannel \ (IF shutdown THEN InChannel ELSE {})
         /\ \A i, k \in 1..Len(channel') : channel'[i] = channel'[k] => i = k
         /\ dispatcherPc' # "send"
<1>1. CASE shutdown
  BY <1>1 DEF DispatcherLoop, InChannel
<1>2. CASE ~shutdown
  BY <1>2 DEF DispatcherLoop, InChannel, IInv, OneCopyPerUrl, InOnePlace
<1> QED
  BY <1>1, <1>2

LEMMA CompleteMoves ==
  ASSUME IInv, DispatcherComplete PROVE Moved
<1> DEFINE gone == IF shutdown THEN InChannel ELSE {}
<1>1. /\ InChannel' = InChannel \ gone
      /\ \A i, k \in 1..Len(channel') : channel'[i] = channel'[k] => i = k
      /\ dispatcherPc' # "send"
  BY LoopMoves DEF DispatcherComplete
<1>2. /\ Sending = {} /\ Sending' = {}
      /\ undelivered' = undelivered \cup gone
      /\ queue' = queue /\ batch' = batch /\ Held' = Held
      /\ published' = published /\ evicted' = evicted
  BY <1>1 DEF DispatcherComplete, Held, Sending, jobVars, collectorVars
<1>3. gone \subseteq InChannel
  OBVIOUS
<1>4. Queued' = Queued /\ QueuesAreJobs'
  BY <1>2 DEF Queued, QueuesAreJobs, IInv
<1> HIDE DEF gone
<1>5. InOnePlace'
  BY <1>1, <1>2, <1>3, <1>4 DEF IInv, OneCopyPerUrl, InOnePlace, Done
<1>6. Known' = Known
  BY <1>1, <1>2, <1>3, <1>4 DEF Known, Done
<1> QED
  BY <1>4, <1>5, <1>6 DEF Moved

LEMMA FailMoves ==
  ASSUME IInv, DispatcherFail PROVE Moved
<1> DEFINE gone == IF shutdown THEN InChannel ELSE {}
<1>1. /\ InChannel' = InChannel \ gone
      /\ \A i, k \in 1..Len(channel') : channel'[i] = channel'[k] => i = k
      /\ dispatcherPc' # "send"
  BY LoopMoves DEF DispatcherFail
<1>2. /\ Sending = {ready} /\ Sending' = {}
      /\ undelivered' = undelivered \cup {ready} \cup gone
      /\ queue' = queue /\ batch' = batch /\ Held' = Held
      /\ published' = published /\ evicted' = evicted
  BY <1>1 DEF DispatcherFail, Held, Sending, jobVars, collectorVars
<1>3. gone \subseteq InChannel
  OBVIOUS
<1>4. Queued' = Queued /\ QueuesAreJobs'
  BY <1>2 DEF Queued, QueuesAreJobs, IInv
<1> HIDE DEF gone
<1>5. InOnePlace'
  BY <1>1, <1>2, <1>3, <1>4 DEF IInv, OneCopyPerUrl, InOnePlace, Done
<1>6. Known' = Known
  BY <1>1, <1>2, <1>3, <1>4 DEF Known, Done
<1> QED
  BY <1>4, <1>5, <1>6 DEF Moved

\* A step that touches no place.
LEMMA NoneMoves ==
  ASSUME IInv, UNCHANGED <<queue, batch, hand, channel, published, evicted, undelivered>>,
         Sending' = Sending
  PROVE  Moved
<1>1. Queued' = Queued /\ Held' = Held /\ InChannel' = InChannel
  BY DEF Queued, Held, InChannel
<1>2. InOnePlace'
  BY <1>1 DEF IInv, OneCopyPerUrl, InOnePlace, Done
<1>3. Known' = Known /\ QueuesAreJobs'
  BY <1>1 DEF Known, Done, QueuesAreJobs, IInv
<1> QED
  BY <1>2, <1>3 DEF Moved

\* Every step but an acceptance.
LEMMA OtherStepsMove ==
  ASSUME IInv, [Next]_vars, \A m \in Messages : ~Accept(m)
  PROVE  Moved /\ seen' = seen
<1> USE DEF jobVars, collectorVars, dispatcherVars, historyVars
<1>1. ASSUME NEW m \in Messages, Reject(m) PROVE Moved /\ seen' = seen
  BY <1>1, NoneMoves DEF Reject, Receive, Sending
<1>2. CASE CollectorTick
  BY <1>2, NoneMoves DEF CollectorTick, Sending
<1>3. ASSUME NEW j \in Jobs, CollectorPop(j) PROVE Moved /\ seen' = seen
  <2>1. seen' = seen
    BY <1>3 DEF CollectorPop
  <2> QED BY <1>3, <2>1, PopMoves
<1>4. ASSUME NEW e \in batch, CollectorAdmit(e) PROVE Moved /\ seen' = seen
  <2>1. seen' = seen
    BY <1>4 DEF CollectorAdmit
  <2> QED BY <1>4, <2>1, AdmitMoves
<1>5. ASSUME NEW e \in batch, CollectorDelay(e) PROVE Moved /\ seen' = seen
  <2>1. seen' = seen
    BY <1>5 DEF CollectorDelay
  <2> QED BY <1>5, <2>1, DelayMoves
<1>6. CASE CollectorSend
  <2>1. seen' = seen
    BY <1>6 DEF CollectorSend
  <2> QED BY <1>6, <2>1, SendMoves
<1>7. CASE CollectorSendError
  <2>1. seen' = seen
    BY <1>7 DEF CollectorSendError
  <2> QED BY <1>7, <2>1, SendErrorMoves
<1>8. CASE CollectorLoop
  BY <1>8, NoneMoves DEF CollectorLoop, Sending
<1>9. CASE DispatcherRecv
  <2>1. seen' = seen
    BY <1>9 DEF DispatcherRecv
  <2> QED BY <1>9, <2>1, RecvMoves
<1>10. CASE DispatcherClosed
  BY <1>10, NoneMoves DEF DispatcherClosed, Sending
<1>11. CASE DispatcherPublish
  <2>1. seen' = seen
    BY <1>11 DEF DispatcherPublish
  <2> QED BY <1>11, <2>1, PublishMoves
<1>12. CASE DispatcherMark
  BY <1>12, NoneMoves DEF DispatcherMark, Sending
<1>13. CASE DispatcherComplete
  <2>1. seen' = seen
    BY <1>13 DEF DispatcherComplete
  <2> QED BY <1>13, <2>1, CompleteMoves
<1>14. CASE DispatcherFail
  <2>1. seen' = seen
    BY <1>14 DEF DispatcherFail
  <2> QED BY <1>14, <2>1, FailMoves
<1>15. CASE Elapse
  BY <1>15, NoneMoves DEF Elapse, Sending
<1>16. CASE Shutdown
  BY <1>16, NoneMoves DEF Shutdown, Sending
<1>17. CASE UNCHANGED vars
  BY <1>17, NoneMoves DEF vars, Sending
<1> QED
  BY <1>1, <1>2, <1>3, <1>4, <1>5, <1>6, <1>7, <1>8, <1>9, <1>10, <1>11, <1>12,
     <1>13, <1>14, <1>15, <1>16, <1>17
  DEF Next, Consumer, Collector, CollectorHandle, Dispatcher

\* An acceptance puts one entry, with a key the filter had not seen, in its
\* queue or among the evicted.
LEMMA AcceptMoves ==
  ASSUME IInv, NEW m \in Messages, Accept(m)
  PROVE  /\ Known' = Known \cup {EntryOf(m)} /\ InOnePlace' /\ QueuesAreJobs'
         /\ EntryOf(m) \in Entry
         /\ EntryOf(m).job = m.job /\ EntryOf(m).key = m.key
         /\ m.key \notin seen[m.job]
         /\ seen' = [seen EXCEPT ![m.job] = @ \cup {m.key}]
<1> DEFINE new == EntryOf(m)
<1>1. Receive(m) /\ Push(m.job, new)
  BY DEF Accept
<1>2. new \in Entry /\ new.job = m.job /\ new.key = m.key
  BY <1>1, ReceiveTypes DEF IInv, EntryOf
<1>3. m.key \notin seen[m.job] /\ seen' = [seen EXCEPT ![m.job] = @ \cup {m.key}]
  BY DEF Accept, MayBeUnseen
<1>4. new \notin Known
  BY <1>2, <1>3 DEF IInv, KnownAreSeen
<1>5. PICK out \in SUBSET (Queued \cup {new}) :
        /\ Queued' = (Queued \cup {new}) \ out
        /\ evicted' = evicted \cup out
        /\ QueuesAreJobs'
  BY <1>1, <1>2, PushMoves DEF IInv
<1>6. /\ batch' = batch /\ Held' = Held /\ InChannel' = InChannel /\ Sending' = Sending
      /\ published' = published /\ undelivered' = undelivered /\ channel' = channel
  BY <1>1 DEF Receive, Held, InChannel, Sending, dispatcherVars, collectorVars
<1> HIDE DEF new
<1>7. InOnePlace'
  BY <1>4, <1>5, <1>6 DEF IInv, OneCopyPerUrl, InOnePlace, Done, Known
<1>8. Known' = Known \cup {new}
  BY <1>5, <1>6 DEF Known, Done
<1> QED
  BY <1>2, <1>3, <1>5, <1>7, <1>8 DEF new

LEMMA InitPlaces == Init => IInv
<1> SUFFICES ASSUME Init PROVE IInv
  OBVIOUS
<1>1. TypeOK
  BY InitTypes
<1>2. /\ Queued = {} /\ batch = {} /\ Held = {} /\ InChannel = {} /\ Sending = {}
      /\ published = {} /\ evicted = {} /\ undelivered = {} /\ Len(channel) = 0
  BY DEF Init, Queued, Held, InChannel, Sending
<1>3. Known = {}
  BY <1>2 DEF Known, Done
<1>4. OneCopyPerUrl
  BY <1>2, <1>3 DEF OneCopyPerUrl, InOnePlace, Done
<1>5. NoUrlVanishes /\ KnownAreSeen /\ QueuesAreJobs
  BY <1>3 DEF Init, NoUrlVanishes, KnownAreSeen, QueuesAreJobs
<1> QED
  BY <1>1, <1>4, <1>5 DEF IInv

LEMMA NextPlaces == IInv /\ [Next]_vars => IInv'
<1> SUFFICES ASSUME IInv, [Next]_vars PROVE IInv'
  OBVIOUS
<1>1. TypeOK'
  BY NextTypes DEF IInv
<1>2. Known \subseteq Entry
  BY DEF IInv, TypeOK, Known, Done, Queued, Held, InChannel, Sending
<1>3. CASE \E m \in Messages : Accept(m)
  <2>1. PICK m \in Messages : Accept(m)
    BY <1>3
  <2> DEFINE new == EntryOf(m)
  <2>2. /\ Known' = Known \cup {new} /\ InOnePlace' /\ QueuesAreJobs'
        /\ new \in Entry /\ new.job = m.job /\ new.key = m.key
        /\ m.key \notin seen[m.job]
        /\ seen' = [seen EXCEPT ![m.job] = @ \cup {m.key}]
    BY <2>1, AcceptMoves
  <2>3. m.job \in Jobs
    BY <2>2 DEF Entry
  <2>4. \A j \in Jobs : seen'[j] = IF j = m.job THEN seen[j] \cup {m.key} ELSE seen[j]
    BY <2>2, <2>3 DEF IInv, TypeOK
  <2> HIDE DEF new
  <2>5. \A e \in Known : e.job \in Jobs /\ e.key \in seen[e.job]
    BY <1>2 DEF IInv, KnownAreSeen, Entry
  <2>6. OneCopyPerUrl'
    <3>1. \A e \in Known : ~SameUrl(e, new) /\ ~SameUrl(new, e)
      BY <2>2, <2>5 DEF SameUrl
    <3>2. \A e, f \in Known' : SameUrl(e, f) => e = f
      BY <2>2, <3>1 DEF IInv, OneCopyPerUrl
    <3> QED
      BY <2>2, <3>2 DEF OneCopyPerUrl, SameUrl
  <2>7. NoUrlVanishes'
    BY <2>2, <2>4 DEF IInv, NoUrlVanishes
  <2>8. KnownAreSeen'
    BY <2>2, <2>3, <2>4, <2>5 DEF KnownAreSeen
  <2> QED
    BY <1>1, <2>2, <2>6, <2>7, <2>8 DEF IInv
<1>4. CASE \A m \in Messages : ~Accept(m)
  <2>1. Moved /\ seen' = seen
    BY <1>4, OtherStepsMove
  <2>2. Known' = Known /\ InOnePlace' /\ QueuesAreJobs'
    BY <2>1 DEF Moved
  <2>3. OneCopyPerUrl'
    BY <2>2 DEF IInv, OneCopyPerUrl, SameUrl
  <2>4. NoUrlVanishes' /\ KnownAreSeen'
    BY <2>1, <2>2 DEF IInv, NoUrlVanishes, KnownAreSeen
  <2> QED
    BY <1>1, <2>2, <2>3, <2>4 DEF IInv
<1> QED
  BY <1>3, <1>4

LEMMA PlacesInvariant == Spec => []IInv
BY InitPlaces, NextPlaces, PTL DEF Spec

\* A job's URL exists once, in one place: no URL is published twice, and none is
\* published after it was given up.
THEOREM EachUrlOnce == Spec => []OneCopyPerUrl
<1>1. IInv => OneCopyPerUrl
  BY DEF IInv
<1> QED
  BY <1>1, PlacesInvariant, PTL

\* Every URL the filter took in is accounted for.
THEOREM NoUrlLost == Spec => []NoUrlVanishes
<1>1. IInv => NoUrlVanishes
  BY DEF IInv
<1> QED
  BY <1>1, PlacesInvariant, PTL

-----------------------------------------------------------------------------
(* The service implements the ledger.                                      *)

Url(e) == <<e.job, e.key>>

Lost == evicted \cup undelivered

\* What the ledger sees of an entry that has not reached its end: an open URL.
LEMMA UnfinishedIsOpen ==
  ASSUME IInv, NEW e \in Known \ Done
  PROVE  Url(e) \in Ledger!Open /\ Url(e) \in Ledger!Urls
<1>1. Known \subseteq Entry
  BY DEF IInv, TypeOK, Known, Done, Queued, Held, InChannel, Sending
<1>2. e.job \in Jobs /\ e.key \in Keys /\ e.key \in seen[e.job]
  BY <1>1 DEF Entry, IInv, KnownAreSeen
<1>3. Done \subseteq Known
  BY DEF Known
<1>4. \A f \in Done : Url(f) # Url(e)
  BY <1>3 DEF IInv, OneCopyPerUrl, SameUrl, Url
<1>5. Url(e) \notin UrlsOf(published) /\ Url(e) \notin UrlsOf(evicted \cup undelivered)
  BY <1>4 DEF UrlsOf, Done, Url
<1>6. Url(e) \in {u \in Jobs \X Keys : u[2] \in seen[u[1]]}
  BY <1>2 DEF Url
<1> QED
  BY <1>5, <1>6 DEF Ledger!Open, Ledger!Urls

\* The history only grows, and only a publish adds to what was published.
LEMMA HistoryGrows ==
  ASSUME [Next]_vars
  PROVE  /\ evicted \subseteq evicted' /\ undelivered \subseteq undelivered'
         /\ published' = published \/ DispatcherPublish
<1> USE DEF jobVars, collectorVars, dispatcherVars, historyVars
<1>1. ASSUME NEW m \in Messages, Accept(m)
      PROVE  evicted \subseteq evicted' /\ UNCHANGED <<published, undelivered>>
  BY <1>1, PushLeavesOut DEF Accept, Receive
<1>2. ASSUME NEW e, CollectorDelay(e)
      PROVE  evicted \subseteq evicted' /\ UNCHANGED <<published, undelivered>>
  BY <1>2, PushLeavesOut DEF CollectorDelay
<1> QED
  BY <1>1, <1>2
  DEF Next, Consumer, Collector, CollectorHandle, Dispatcher, Reject, Receive,
      CollectorTick, CollectorPop, CollectorAdmit, CollectorSend, CollectorSendError,
      CollectorLoop, DispatcherRecv, DispatcherClosed, DispatcherPublish,
      DispatcherFail, DispatcherMark, DispatcherComplete, Elapse, Shutdown, vars

\* A step other than an acceptance or a publish drops what it adds to the lost.
LEMMA MoveIsDrop ==
  ASSUME IInv, Moved, seen' = seen, published' = published,
         evicted \subseteq evicted', undelivered \subseteq undelivered'
  PROVE  Ledger!Next
<1> DEFINE gone == Lost' \ Lost
<1>1. gone \subseteq Known \ Done
  BY DEF Moved, InOnePlace, Known, Done, Lost
<1>2. UrlsOf(gone) \subseteq Ledger!Open
  BY <1>1, UnfinishedIsOpen DEF UrlsOf, Url
<1>3. Lost' = Lost \cup gone
  BY DEF Lost
<1>4. UrlsOf(Lost') = UrlsOf(Lost) \cup UrlsOf(gone)
  BY <1>3 DEF UrlsOf
<1>5. UrlsOf(published)' = UrlsOf(published)
  BY DEF UrlsOf
<1> HIDE DEF gone
<1>6. Ledger!Drop(UrlsOf(gone))
  BY <1>2, <1>4, <1>5 DEF Ledger!Drop, Lost
<1> QED
  BY <1>2, <1>6 DEF Ledger!Next

LEMMA PublishIsHandOn ==
  ASSUME IInv, DispatcherPublish PROVE Ledger!Next
<1>1. /\ ready \in Sending /\ published' = published \cup {ready}
      /\ UNCHANGED <<seen, evicted, undelivered>>
  BY DEF DispatcherPublish, Sending, jobVars
<1>2. ready \in Known \ Done
  BY <1>1 DEF IInv, OneCopyPerUrl, InOnePlace, Known
<1>3. Url(ready) \in Ledger!Open /\ Url(ready) \in Ledger!Urls
  BY <1>2, UnfinishedIsOpen
<1>4. UrlsOf(published') = UrlsOf(published) \cup {Url(ready)}
  BY <1>1 DEF UrlsOf, Url
<1>5. Ledger!HandOn(Url(ready))
  BY <1>1, <1>3, <1>4 DEF Ledger!HandOn, UrlsOf
<1> QED
  BY <1>3, <1>5 DEF Ledger!Next

LEMMA AcceptIsAccept ==
  ASSUME IInv, NEW m \in Messages, Accept(m),
         published' = published, evicted \subseteq evicted', undelivered \subseteq undelivered'
  PROVE  Ledger!Next
<1> DEFINE new == EntryOf(m)
           gone == Lost' \ Lost
<1>1. /\ Known' = Known \cup {new} /\ InOnePlace'
      /\ new \in Entry /\ new.job = m.job /\ new.key = m.key
      /\ m.key \notin seen[m.job]
      /\ seen' = [seen EXCEPT ![m.job] = @ \cup {m.key}]
  BY AcceptMoves
<1>2. m.job \in Jobs /\ m.key \in Keys /\ Url(new) = <<m.job, m.key>>
  BY <1>1 DEF Entry, Url
<1> HIDE DEF new
<1>3. gone \subseteq (Known \ Done) \cup {new}
  BY <1>1 DEF InOnePlace, Known, Done, Lost
<1>4. UrlsOf(gone) \subseteq Ledger!Open \cup {Url(new)}
  BY <1>3, UnfinishedIsOpen DEF UrlsOf, Url
<1>5. UrlsOf(Lost') = UrlsOf(Lost) \cup UrlsOf(gone)
  BY DEF UrlsOf, Lost
<1>6. UrlsOf(published') = UrlsOf(published)
  BY DEF UrlsOf
<1>7. /\ Url(new) \notin {u \in Jobs \X Keys : u[2] \in seen[u[1]]}
      /\ {u \in Jobs \X Keys : u[2] \in seen'[u[1]]}
           = {u \in Jobs \X Keys : u[2] \in seen[u[1]]} \cup {Url(new)}
  BY <1>1, <1>2 DEF IInv, TypeOK
<1> HIDE DEF gone
<1>8. Ledger!Accept(Url(new), UrlsOf(gone))
  BY <1>4, <1>5, <1>6, <1>7 DEF Ledger!Accept, Lost, UrlsOf
<1>9. Url(new) \in Ledger!Urls
  BY <1>2 DEF Ledger!Urls
<1>10. \E out \in SUBSET (Ledger!Open \cup {Url(new)}) : Ledger!Accept(Url(new), out)
  <2>1. UrlsOf(gone) \in SUBSET (Ledger!Open \cup {Url(new)})
    BY <1>4
  <2> DEFINE Is(out) == Ledger!Accept(Url(new), out)
  <2>2. Is(UrlsOf(gone))
    BY <1>8
  <2> HIDE DEF Is
  <2>3. \E out \in SUBSET (Ledger!Open \cup {Url(new)}) : Is(out)
    BY <2>1, <2>2
  <2> QED
    BY <2>3 DEF Is
<1> QED
  BY <1>9, <1>10 DEF Ledger!Next

\* The frontier service implements the ledger: a job's URL is accepted once,
\* then handed on once or dropped, for every interleaving of its tasks.
THEOREM ImplementsLedger == Spec => KeepsLedger
<1>1. Init => Ledger!Init
  BY DEF Init, Ledger!Init, UrlsOf
<1>2. IInv /\ [Next]_vars => [Ledger!Next]_Ledger!vars
  <2> SUFFICES ASSUME IInv, [Next]_vars PROVE Ledger!Next
    OBVIOUS
  <2>1. /\ evicted \subseteq evicted' /\ undelivered \subseteq undelivered'
        /\ published' = published \/ DispatcherPublish
    BY HistoryGrows
  <2>2. CASE DispatcherPublish
    BY <2>2, PublishIsHandOn
  <2>3. CASE ~DispatcherPublish
    <3>1. CASE \E m \in Messages : Accept(m)
      BY <2>1, <2>3, <3>1, AcceptIsAccept
    <3>2. CASE \A m \in Messages : ~Accept(m)
      BY <2>1, <2>3, <3>2, OtherStepsMove, MoveIsDrop
    <3> QED BY <3>1, <3>2
  <2> QED BY <2>2, <2>3
<1> QED
  BY <1>1, <1>2, PlacesInvariant, PTL DEF Spec, KeepsLedger, Ledger!Spec

-----------------------------------------------------------------------------
(* How far a job can overshoot max_pages.                                  *)

\* A job's entries that were popped: published, or on the way to be.
Popped(j) == {e \in batch \cup Held \cup InChannel \cup Sending \cup published : e.job = j}

HasCap(j) == limits[j] # NoFrontier /\ limits[j].pages # NoLimit

\* The published entry of j that the dispatcher has not counted yet.
Uncounted(j) == IF dispatcherPc = "mark" /\ ready.job = j THEN 1 ELSE 0

\* The dispatched counter lags behind what was published by the entry the
\* dispatcher has published and not yet counted.
CountInv ==
  /\ dispatcherPc = "mark" => ready \in published
  /\ \A j \in Jobs : Cardinality(PublishedOf(j)) = dispatched[j] + Uncounted(j)

\* Popped entries are what the cap bounds: pop_ready leaves out of its budget
\* only those it cannot see, which are in the channel or with the dispatcher.
CapInv ==
  /\ IsFiniteSet(Known)
  /\ Len(channel) <= ChannelCap
  /\ \A j \in Jobs : limits[j] = NoFrontier => seen[j] = {}
  /\ CountInv
  /\ \A j \in Jobs : HasCap(j) => Cardinality(Popped(j)) <= limits[j].pages + ChannelCap + 1

\* The sets the invariant counts are finite.
LEMMA CountedAreFinite ==
  ASSUME IsFiniteSet(Known), NEW j
  PROVE  /\ IsFiniteSet(Popped(j)) /\ Cardinality(Popped(j)) \in Nat
         /\ IsFiniteSet(PublishedOf(j)) /\ Cardinality(PublishedOf(j)) \in Nat
         /\ Cardinality(PublishedOf(j)) <= Cardinality(Popped(j))
<1>1. Popped(j) \subseteq Known /\ PublishedOf(j) \subseteq Popped(j)
  BY DEF Popped, PublishedOf, Known, Done
<1> QED
  BY <1>1, FS_Subset, FS_CardinalityType

\* The channel holds no more entries than its length.
LEMMA ChannelHoldsFew ==
  ASSUME TypeOK
  PROVE  IsFiniteSet(InChannel) /\ Cardinality(InChannel) <= Len(channel)
<1>1. Len(channel) \in Nat /\ channel \in [1..Len(channel) -> InChannel]
  BY LenProperties DEF TypeOK, InChannel
<1>2. channel \in Surjection(1..Len(channel), InChannel)
  BY <1>1 DEF Surjection, InChannel
<1>3. ExistsSurjection(1..Len(channel), InChannel)
  BY <1>2 DEF ExistsSurjection
<1> QED
  BY <1>1, <1>3, FS_SurjCardinalityBound, FS_NatSurjection

\* A union has no more elements than its parts together.
LEMMA UnionBound ==
  ASSUME NEW S, NEW T, IsFiniteSet(S), IsFiniteSet(T)
  PROVE  /\ IsFiniteSet(S \cup T) /\ Cardinality(S \cup T) \in Nat
         /\ Cardinality(S \cup T) <= Cardinality(S) + Cardinality(T)
<1>1. /\ IsFiniteSet(S \cup T)
      /\ Cardinality(S \cup T) = Cardinality(S) + Cardinality(T) - Cardinality(S \cap T)
  BY FS_Union
<1>2. IsFiniteSet(S \cap T)
  BY FS_Intersection
<1>3. /\ Cardinality(S) \in Nat /\ Cardinality(T) \in Nat
      /\ Cardinality(S \cap T) \in Nat /\ Cardinality(S \cup T) \in Nat
  BY <1>1, <1>2, FS_CardinalityType
<1> QED
  BY <1>1, <1>3

\* Only a pop adds to the popped entries.
LEMMA PoppedShrinks ==
  ASSUME IInv, [Next]_vars, \A j \in Jobs : ~CollectorPop(j), NEW k
  PROVE  Popped(k)' \subseteq Popped(k)
<1> DEFINE All == batch \cup Held \cup InChannel \cup Sending \cup published
<1> USE DEF jobVars, collectorVars, dispatcherVars, historyVars
<1>1. CASE CollectorSend
  <2>1. hand \in Held /\ InChannel' = InChannel \cup {hand}
    BY <1>1, ChannelAppend DEF CollectorSend, Held, IInv, TypeOK
  <2>2. batch' = batch /\ Held' = {} /\ Sending' = Sending /\ published' = published
    BY <1>1 DEF CollectorSend, Held, Sending
  <2> QED BY <2>1, <2>2 DEF Popped
<1>2. CASE DispatcherRecv
  <2>1. Head(channel) \in InChannel /\ InChannel' = InChannel \ {Head(channel)}
    BY <1>2, ChannelTail DEF DispatcherRecv, IInv, OneCopyPerUrl, InOnePlace
  <2>2. batch' = batch /\ Held' = Held /\ Sending' = {Head(channel)} /\ published' = published
    BY <1>2 DEF DispatcherRecv, Held, Sending
  <2> QED BY <2>1, <2>2 DEF Popped
<1>3. CASE DispatcherPublish
  <2>1. Sending = {ready} /\ published' = published \cup {ready}
    BY <1>3 DEF DispatcherPublish, Sending
  <2>2. batch' = batch /\ Held' = Held /\ Sending' = {} /\ InChannel' = InChannel
    BY <1>3 DEF DispatcherPublish, Held, Sending, InChannel
  <2> QED BY <2>1, <2>2 DEF Popped
<1>4. CASE DispatcherComplete \/ DispatcherFail
  <2>1. InChannel' \subseteq InChannel /\ Sending' = {}
    BY <1>4, LoopMoves DEF DispatcherComplete, DispatcherFail, Sending
  <2>2. batch' = batch /\ Held' = Held /\ published' = published
    BY <1>4 DEF DispatcherComplete, DispatcherFail, Held
  <2> QED BY <2>1, <2>2 DEF Popped
<1>5. ASSUME NEW e \in batch, CollectorAdmit(e) PROVE Popped(k)' \subseteq Popped(k)
  <2>1. batch' = batch \ {e} /\ Held' \subseteq {e}
    BY <1>5 DEF CollectorAdmit, Held
  <2>2. InChannel' = InChannel /\ Sending' = Sending /\ published' = published
    BY <1>5 DEF CollectorAdmit, InChannel, Sending
  <2> QED BY <1>5, <2>1, <2>2 DEF Popped
<1>6. ASSUME NEW e \in batch, CollectorDelay(e) PROVE Popped(k)' \subseteq Popped(k)
  <2>1. batch' = batch \ {e} /\ Held' = Held
    BY <1>6 DEF CollectorDelay, Held
  <2>2. InChannel' = InChannel /\ Sending' = Sending /\ published' = published
    BY <1>6 DEF CollectorDelay, InChannel, Sending
  <2> QED BY <1>6, <2>1, <2>2 DEF Popped
<1>7. CASE CollectorSendError
  <2>1. batch' = {} /\ Held' = {}
    BY <1>7 DEF CollectorSendError, Held
  <2>2. InChannel' = InChannel /\ Sending' = Sending /\ published' = published
    BY <1>7 DEF CollectorSendError, InChannel, Sending
  <2> QED BY <2>1, <2>2 DEF Popped
<1>8. ASSUME UNCHANGED <<batch, hand, channel, published>>, Sending' = Sending
      PROVE  Popped(k)' \subseteq Popped(k)
  BY <1>8 DEF Popped, Held, InChannel
<1>9. ASSUME NEW m \in Messages, Reject(m) \/ Accept(m) PROVE Popped(k)' \subseteq Popped(k)
  BY <1>8, <1>9 DEF Reject, Accept, Receive, Sending
<1>10. CASE CollectorTick \/ CollectorLoop \/ DispatcherClosed \/ DispatcherMark
            \/ Elapse \/ Shutdown \/ UNCHANGED vars
  BY <1>8, <1>10 DEF CollectorTick, CollectorLoop, DispatcherClosed, DispatcherMark,
     Elapse, Shutdown, vars, Sending
<1> QED
  BY <1>1, <1>2, <1>3, <1>4, <1>5, <1>6, <1>7, <1>9, <1>10
  DEF Next, Consumer, Collector, CollectorHandle, Dispatcher

\* A pop stays within what the cap leaves, by the dispatches counted so far; it
\* cannot see the entries in the channel and the one with the dispatcher.
LEMMA PopOvershoots ==
  ASSUME IInv, CapInv, NEW j \in Jobs, CollectorPop(j), HasCap(j)
  PROVE  Cardinality(Popped(j)') <= limits[j].pages + ChannelCap + 1
<1>1. PICK b \in Best(queue[j], Budget(j)) :
        batch' = b /\ queue' = [queue EXCEPT ![j] = @ \ b]
  BY DEF CollectorPop
<1>2. limits[j].pages \in Nat /\ dispatched[j] \in Nat /\ ChannelCap \in Nat /\ BatchSize \in Nat
  BY FrontierAssumption DEF IInv, TypeOK, HasCap, Limits
<1>3. queue[j] \subseteq Known /\ IsFiniteSet(queue[j])
  <2>1. queue[j] \subseteq Known
    BY DEF Known, Queued
  <2> QED BY <2>1, FS_Subset DEF CapInv
<1>4. IsFiniteSet(b) /\ Cardinality(b) \in Nat /\ Cardinality(b) <= Budget(j)
  <2>1. b \subseteq queue[j]
    BY DEF Best
  <2>2. Cardinality(b) = (IF Budget(j) <= Cardinality(queue[j]) THEN Budget(j)
                          ELSE Cardinality(queue[j]))
    BY DEF Best
  <2>3. Budget(j) \in Nat
    BY <1>2 DEF Budget
  <2>4. Cardinality(queue[j]) \in Nat
    BY <1>3, FS_CardinalityType
  <2> QED BY <1>3, <2>1, <2>2, <2>3, <2>4, FS_Subset, FS_CardinalityType
<1>5. batch = {} /\ Held' = {} /\ InChannel' = InChannel /\ Sending' = Sending
      /\ published' = published
  BY DEF CollectorPop, Held, InChannel, Sending, dispatcherVars, historyVars
<1> DEFINE Rest == {e \in InChannel : e.job = j} \cup {e \in Sending : e.job = j}
<1>6. Popped(j)' \subseteq b \cup (PublishedOf(j) \cup Rest)
  BY <1>1, <1>5 DEF Popped, PublishedOf
<1>7. /\ IsFiniteSet(InChannel) /\ Cardinality(InChannel) \in Nat
      /\ Cardinality(InChannel) <= ChannelCap
  BY <1>2, ChannelHoldsFew, FS_CardinalityType, LenProperties DEF IInv, TypeOK, CapInv
<1>8. /\ IsFiniteSet(Rest) /\ Cardinality(Rest) \in Nat
      /\ Cardinality(Rest) <= ChannelCap + (IF dispatcherPc = "send" THEN 1 ELSE 0)
  <2>1. CASE dispatcherPc = "send"
    <3>1. Rest \subseteq InChannel \cup {ready}
      BY <2>1 DEF Sending
    <3>2. /\ IsFiniteSet(InChannel \cup {ready})
          /\ Cardinality(InChannel \cup {ready}) <= ChannelCap + 1
      <4>1. IsFiniteSet({ready}) /\ Cardinality({ready}) = 1
        BY FS_Singleton
      <4> QED BY <1>2, <1>7, <4>1, UnionBound
    <3>3. Cardinality(InChannel \cup {ready}) \in Nat
      BY <3>2, FS_CardinalityType
    <3> QED BY <1>2, <2>1, <3>1, <3>2, <3>3, FS_Subset, FS_CardinalityType
  <2>2. CASE dispatcherPc # "send"
    <3>1. Rest \subseteq InChannel
      BY <2>2 DEF Sending
    <3> QED BY <1>2, <1>7, <2>2, <3>1, FS_Subset, FS_CardinalityType
  <2> QED BY <2>1, <2>2
<1>9. /\ IsFiniteSet(PublishedOf(j)) /\ Cardinality(PublishedOf(j)) \in Nat
      /\ Cardinality(PublishedOf(j)) = dispatched[j] + Uncounted(j)
  BY CountedAreFinite DEF CapInv, CountInv
<1>10. CASE Budget(j) = 0
  <2>1. Popped(j)' \subseteq Popped(j)
    <3>1. b = {}
      BY <1>4, <1>10, FS_EmptySet
    <3> QED BY <1>1, <1>5, <3>1 DEF Popped
  <2> QED
    BY <1>2, <2>1, CountedAreFinite, FS_Subset, FS_CardinalityType DEF CapInv
<1>11. CASE Budget(j) # 0
  <2>1. dispatched[j] < limits[j].pages /\ Budget(j) <= limits[j].pages - dispatched[j]
    BY <1>2, <1>11 DEF Budget, HasCap
  <2> HIDE DEF Rest
  <2>2. /\ IsFiniteSet(PublishedOf(j) \cup Rest)
        /\ Cardinality(PublishedOf(j) \cup Rest) \in Nat
        /\ Cardinality(PublishedOf(j) \cup Rest)
             <= Cardinality(PublishedOf(j)) + Cardinality(Rest)
    BY <1>8, <1>9, UnionBound
  <2>3. /\ IsFiniteSet(b \cup (PublishedOf(j) \cup Rest))
        /\ Cardinality(b \cup (PublishedOf(j) \cup Rest)) \in Nat
        /\ Cardinality(b \cup (PublishedOf(j) \cup Rest))
             <= Cardinality(b) + Cardinality(PublishedOf(j) \cup Rest)
    BY <1>4, <2>2, UnionBound
  <2>4. /\ Cardinality(Popped(j)') \in Nat
        /\ Cardinality(Popped(j)') <= Cardinality(b \cup (PublishedOf(j) \cup Rest))
    BY <1>6, <2>3, FS_Subset, FS_CardinalityType
  <2> DEFINE unseen == IF dispatcherPc = "send" THEN 1 ELSE 0
  <2>5. /\ Uncounted(j) \in Nat /\ unseen \in Nat /\ Uncounted(j) + unseen <= 1
        /\ Cardinality(Rest) <= ChannelCap + unseen
    BY <1>8 DEF Uncounted
  <2> HIDE DEF unseen
  <2>6. Budget(j) \in Int
    BY <1>2 DEF Budget, HasCap
  <2>7. Cardinality(Popped(j)')
          <= Cardinality(b) + (Cardinality(PublishedOf(j)) + Cardinality(Rest))
    BY <1>4, <1>8, <1>9, <2>2, <2>3, <2>4
  <2>8. Cardinality(b) + Cardinality(PublishedOf(j)) <= limits[j].pages + Uncounted(j)
    BY <1>2, <1>4, <1>9, <2>1, <2>5, <2>6
  <2> QED
    BY <1>2, <1>4, <1>8, <1>9, <2>4, <2>5, <2>7, <2>8
<1> QED
  BY <1>10, <1>11

\* What a step does to the limits of a job: they are set once, by a message.
LEMMA LimitsStay ==
  ASSUME IInv, [Next]_vars, NEW j \in Jobs
  PROVE  /\ limits[j] # NoFrontier => limits'[j] = limits[j]
         /\ limits'[j] = NoFrontier => limits[j] = NoFrontier /\ seen'[j] = seen[j]
         /\ limits'[j] # limits[j] => \E m \in Messages : Reject(m) \/ Accept(m)
<1>1. ASSUME NEW m \in Messages, Reject(m) \/ Accept(m)
      PROVE  /\ limits[j] # NoFrontier => limits'[j] = limits[j]
             /\ limits'[j] = NoFrontier => limits[j] = NoFrontier /\ seen'[j] = seen[j]
  <2>1. Receive(m)
    BY <1>1 DEF Reject, Accept
  <2>2. m.job \in Jobs /\ m.limits \in Limits
    BY <2>1, FrontierAssumption DEF Message
  <2>3. FrontierOf(m) # NoFrontier
        /\ (limits[m.job] # NoFrontier => FrontierOf(m) = limits[m.job])
    BY <2>2, FrontierAssumption DEF FrontierOf
  <2>4. limits'[j] = IF j = m.job THEN FrontierOf(m) ELSE limits[j]
    BY <2>1, <2>2 DEF Receive, IInv, TypeOK
  <2>5. j # m.job => seen'[j] = seen[j]
    BY <1>1, <2>2 DEF Reject, Accept, IInv, TypeOK
  <2> QED BY <2>3, <2>4, <2>5
<1>2. CASE \A m \in Messages : ~Reject(m) /\ ~Accept(m)
  <2>1. limits' = limits /\ seen' = seen
    BY <1>2
    DEF Next, Consumer, Collector, CollectorHandle, Dispatcher, CollectorTick,
        CollectorPop, CollectorAdmit, CollectorDelay, CollectorSend,
        CollectorSendError, CollectorLoop, DispatcherRecv, DispatcherClosed,
        DispatcherPublish, DispatcherFail, DispatcherMark, DispatcherComplete,
        Elapse, Shutdown, vars, jobVars
  <2> QED BY <2>1
<1> QED
  BY <1>1, <1>2

\* The channel stays within its capacity.
LEMMA ChannelStaysBounded ==
  ASSUME IInv, [Next]_vars, Len(channel) <= ChannelCap
  PROVE  Len(channel') <= ChannelCap
<1>1. channel \in Seq(Entry) /\ Len(channel) \in Nat /\ ChannelCap \in Nat
  BY LenProperties, FrontierAssumption DEF IInv, TypeOK
<1>2. CASE CollectorSend
  <2>1. hand \in Entry
    BY <1>2 DEF CollectorSend, IInv, TypeOK
  <2>2. Len(channel') = Len(channel) + 1
    BY <1>1, <1>2, <2>1, AppendProperties DEF CollectorSend
  <2> QED BY <1>1, <1>2, <2>2 DEF CollectorSend
<1>3. CASE DispatcherRecv
  <2>1. Len(channel') = Len(channel) - 1
    BY <1>1, <1>3, HeadTailProperties DEF DispatcherRecv
  <2> QED BY <1>1, <2>1
<1>4. CASE DispatcherComplete \/ DispatcherFail
  <2>1. channel' = channel \/ channel' = <<>>
    BY <1>4 DEF DispatcherComplete, DispatcherFail, DispatcherLoop
  <2> QED BY <1>1, <2>1
<1>5. CASE ~(CollectorSend \/ DispatcherRecv \/ DispatcherComplete \/ DispatcherFail)
  <2>1. channel' = channel
    BY <1>5
    DEF Next, Consumer, Collector, CollectorHandle, Dispatcher, Reject, Accept,
        Receive, CollectorTick, CollectorPop, CollectorAdmit, CollectorDelay,
        CollectorSendError, CollectorLoop, DispatcherClosed, DispatcherPublish,
        DispatcherMark, Elapse, Shutdown, vars
  <2> QED BY <2>1
<1> QED
  BY <1>2, <1>3, <1>4, <1>5

LEMMA CountStays ==
  ASSUME IInv, [Next]_vars, IsFiniteSet(Known), CountInv
  PROVE  CountInv'
<1> USE DEF jobVars, collectorVars, dispatcherVars, historyVars
<1>1. \A j \in Jobs : dispatched[j] \in Nat /\ Cardinality(PublishedOf(j)) \in Nat
  BY CountedAreFinite DEF IInv, TypeOK
<1>2. CASE DispatcherPublish
  <2>1. /\ ready \in Entry /\ ready \notin published /\ ready' = ready
        /\ dispatcherPc = "send" /\ dispatcherPc' = "mark"
        /\ published' = published \cup {ready} /\ dispatched' = dispatched
    BY <1>2 DEF DispatcherPublish, Sending, Done, IInv, TypeOK, OneCopyPerUrl, InOnePlace
  <2>2. ASSUME NEW j \in Jobs
        PROVE  Cardinality(PublishedOf(j))' = dispatched'[j] + Uncounted(j)'
    <3>1. Uncounted(j) = 0
      BY <2>1 DEF Uncounted
    <3>2. CASE ready.job = j
      <4>1. PublishedOf(j)' = PublishedOf(j) \cup {ready} /\ ready \notin PublishedOf(j)
        BY <2>1, <3>2 DEF PublishedOf
      <4>2. Cardinality(PublishedOf(j)') = Cardinality(PublishedOf(j)) + 1
        BY <4>1, CountedAreFinite, FS_AddElement
      <4> QED BY <1>1, <2>1, <3>1, <3>2, <4>2 DEF Uncounted, CountInv
    <3>3. CASE ready.job # j
      <4>1. PublishedOf(j)' = PublishedOf(j)
        BY <2>1, <3>3 DEF PublishedOf
      <4> QED BY <1>1, <2>1, <3>1, <3>3, <4>1 DEF Uncounted, CountInv
    <3> QED BY <3>2, <3>3
  <2> QED BY <2>1, <2>2 DEF CountInv
<1>3. CASE DispatcherMark
  <2>1. /\ dispatcherPc = "mark" /\ dispatcherPc' = "complete" /\ ready.job \in Jobs
        /\ dispatched' = [dispatched EXCEPT ![ready.job] = @ + 1]
        /\ published' = published
    BY <1>3 DEF DispatcherMark, IInv, TypeOK, Entry
  <2>2. ASSUME NEW j \in Jobs
        PROVE  Cardinality(PublishedOf(j))' = dispatched'[j] + Uncounted(j)'
    <3>1. dispatched'[j] = IF j = ready.job THEN dispatched[j] + 1 ELSE dispatched[j]
      BY <2>1 DEF IInv, TypeOK
    <3>2. PublishedOf(j)' = PublishedOf(j)
      BY <2>1 DEF PublishedOf
    <3>3. Uncounted(j) = (IF j = ready.job THEN 1 ELSE 0) /\ Uncounted(j)' = 0
      BY <2>1 DEF Uncounted
    <3> QED BY <1>1, <3>1, <3>2, <3>3 DEF CountInv
  <2> QED BY <2>1, <2>2 DEF CountInv
<1>4. CASE ~(DispatcherPublish \/ DispatcherMark)
  <2>1. published' = published /\ dispatched' = dispatched
    BY <1>4
    DEF Next, Consumer, Collector, CollectorHandle, Dispatcher, Reject, Accept,
        Receive, CollectorTick, CollectorPop, CollectorAdmit, CollectorDelay,
        CollectorSend, CollectorSendError, CollectorLoop, DispatcherRecv,
        DispatcherClosed, DispatcherComplete, DispatcherFail, Elapse, Shutdown, vars
  <2>2. \/ dispatcherPc' = dispatcherPc /\ ready' = ready
        \/ dispatcherPc # "mark" /\ dispatcherPc' # "mark"
    BY <1>4
    DEF Next, Consumer, Collector, CollectorHandle, Dispatcher, Reject, Accept,
        Receive, CollectorTick, CollectorPop, CollectorAdmit, CollectorDelay,
        CollectorSend, CollectorSendError, CollectorLoop, DispatcherRecv,
        DispatcherClosed, DispatcherComplete, DispatcherFail, DispatcherLoop,
        Elapse, Shutdown, vars
  <2>3. \A j \in Jobs : Uncounted(j)' = Uncounted(j) /\ PublishedOf(j)' = PublishedOf(j)
    BY <2>1, <2>2 DEF Uncounted, PublishedOf
  <2> QED BY <2>1, <2>2, <2>3 DEF CountInv
<1> QED
  BY <1>2, <1>3, <1>4

LEMMA InitCap == Init => CapInv
<1> SUFFICES ASSUME Init PROVE CapInv
  OBVIOUS
<1>1. /\ queue = [j \in Jobs |-> {}] /\ channel = <<>> /\ Len(channel) = 0
      /\ batch = {} /\ hand = NoUrl /\ dispatcherPc = "recv"
      /\ published = {} /\ evicted = {} /\ undelivered = {}
  BY DEF Init
<1>2. Known = {}
  BY <1>1 DEF Known, Queued, Held, InChannel, Sending, Done
<1>3. \A j \in Jobs : PublishedOf(j) = {} /\ Uncounted(j) = 0
  BY <1>1 DEF PublishedOf, Uncounted
<1>4. CountInv
  <2>1. \A j \in Jobs : dispatched[j] = 0
    BY DEF Init
  <2>2. Cardinality({}) = 0
    BY FS_EmptySet
  <2>3. ASSUME NEW j \in Jobs PROVE Cardinality(PublishedOf(j)) = dispatched[j] + Uncounted(j)
    <3>1. PublishedOf(j) = {} /\ Uncounted(j) = 0 /\ dispatched[j] = 0
      BY <1>3, <2>1
    <3> QED BY <2>2, <3>1
  <2>4. dispatcherPc # "mark"
    BY <1>1
  <2> QED
    BY <2>3, <2>4 DEF CountInv
<1>5. \A j \in Jobs : limits[j] = NoFrontier /\ seen[j] = {}
  BY DEF Init
<1> QED
  BY <1>1, <1>2, <1>4, <1>5, FS_EmptySet, FrontierAssumption DEF CapInv, HasCap

LEMMA NextCap == IInv /\ CapInv /\ [Next]_vars => CapInv'
<1> SUFFICES ASSUME IInv, CapInv, [Next]_vars PROVE CapInv'
  OBVIOUS
<1>1. IsFiniteSet(Known)'
  <2>1. CASE \E m \in Messages : Accept(m)
    <3>1. PICK m \in Messages : Known' = Known \cup {EntryOf(m)}
      BY <2>1, AcceptMoves
    <3>2. IsFiniteSet(Known \cup {EntryOf(m)})
      BY FS_AddElement DEF CapInv
    <3> QED BY <3>1, <3>2
  <2>2. CASE \A m \in Messages : ~Accept(m)
    <3>1. Known' = Known
      BY <2>2, OtherStepsMove DEF Moved
    <3> QED BY <3>1 DEF CapInv
  <2> QED BY <2>1, <2>2
<1>2. Len(channel') <= ChannelCap
  BY ChannelStaysBounded DEF CapInv
<1>3. \A j \in Jobs : limits'[j] = NoFrontier => seen'[j] = {}
  BY LimitsStay DEF CapInv
<1>4. CountInv'
  BY CountStays DEF CapInv
<1>5. ASSUME NEW k \in Jobs, HasCap(k)'
      PROVE  Cardinality(Popped(k)') <= limits'[k].pages + ChannelCap + 1
  <2>1. limits'[k].pages \in Nat /\ ChannelCap \in Nat
    BY <1>5, NextTypes, FrontierAssumption DEF HasCap, Limits, IInv, TypeOK
  <2>2. CASE limits[k] = NoFrontier
    <3>1. Popped(k) = {}
      <4>1. Popped(k) \subseteq Known /\ \A e \in Popped(k) : e.job = k
        BY DEF Popped, Known, Done
      <4> QED BY <2>2, <4>1 DEF CapInv, IInv, KnownAreSeen
    <3>2. \E m \in Messages : Reject(m) \/ Accept(m)
      BY <1>5, <2>2, LimitsStay DEF HasCap
    <3>3. UNCHANGED <<batch, hand, channel, published>> /\ Sending' = Sending
      BY <3>2 DEF Reject, Accept, Receive, Sending, collectorVars, dispatcherVars
    <3>4. Popped(k)' = {}
      BY <3>1, <3>3 DEF Popped, Held, InChannel
    <3> QED BY <2>1, <3>4, FS_EmptySet
  <2>3. CASE limits[k] # NoFrontier
    <3>1. limits'[k] = limits[k] /\ HasCap(k)
      BY <1>5, <2>3, LimitsStay DEF HasCap
    <3>2. CASE CollectorPop(k)
      BY <3>1, <3>2, PopOvershoots
    <3>3. CASE ~CollectorPop(k)
      <4>1. Popped(k)' \subseteq Popped(k)
        <5>1. CASE \A j \in Jobs : ~CollectorPop(j)
          BY <5>1, PoppedShrinks
        <5>2. ASSUME NEW j \in Jobs, CollectorPop(j) PROVE Popped(k)' \subseteq Popped(k)
          <6>1. \A e \in batch' : e.job = j
            BY <5>2 DEF CollectorPop, Best, IInv, QueuesAreJobs
          <6>2. /\ Held' = Held /\ InChannel' = InChannel /\ Sending' = Sending
                /\ published' = published
            BY <5>2 DEF CollectorPop, Held, InChannel, Sending, dispatcherVars, historyVars
          <6> QED BY <3>3, <5>2, <6>1, <6>2 DEF Popped
        <5> QED BY <5>1, <5>2
      <4>2. IsFiniteSet(Popped(k)) /\ Cardinality(Popped(k)) \in Nat
        BY CountedAreFinite DEF CapInv
      <4>3. IsFiniteSet(Popped(k)') /\ Cardinality(Popped(k)') <= Cardinality(Popped(k))
        BY <4>1, <4>2, FS_Subset
      <4>4. Cardinality(Popped(k)') \in Nat
        BY <4>3, FS_CardinalityType
      <4>5. Cardinality(Popped(k)) <= limits[k].pages + ChannelCap + 1
        BY <3>1 DEF CapInv
      <4> QED BY <2>1, <3>1, <4>2, <4>3, <4>4, <4>5
    <3> QED BY <3>2, <3>3
  <2> QED BY <2>2, <2>3
<1> QED
  BY <1>1, <1>2, <1>3, <1>4, <1>5 DEF CapInv

\* A job publishes at most max_pages URLs, and as many more as fit in the
\* dispatch channel and the dispatcher's hands.
THEOREM OvershootIsBounded == Spec => []PageCapOvershootIsBounded
<1>1. IInv /\ CapInv => PageCapOvershootIsBounded
  <2> SUFFICES ASSUME IInv, CapInv, NEW j \in Jobs, HasCap(j)
               PROVE  Cardinality(PublishedOf(j)) <= limits[j].pages + ChannelCap + 1
    BY DEF PageCapOvershootIsBounded, HasCap
  <2>1. limits[j].pages \in Nat /\ ChannelCap \in Nat
    BY FrontierAssumption DEF IInv, TypeOK, HasCap, Limits
  <2>2. Cardinality(Popped(j)) <= limits[j].pages + ChannelCap + 1
    BY DEF CapInv
  <2> QED
    BY <2>1, <2>2, CountedAreFinite DEF CapInv
<1>2. Init => CapInv /\ IInv
  BY InitCap, InitPlaces
<1>3. IInv /\ CapInv /\ [Next]_vars => IInv' /\ CapInv'
  BY NextPlaces, NextCap
<1> QED
  BY <1>1, <1>2, <1>3, PTL DEF Spec

-----------------------------------------------------------------------------
(* Depth and counters.                                                     *)

\* No entry anywhere is deeper than its job allows.
DepthInv ==
  \A e \in Known : /\ limits[e.job] # NoFrontier
                   /\ limits[e.job].depth # NoLimit => e.depth <= limits[e.job].depth

LEMMA NextDepth == IInv /\ DepthInv /\ [Next]_vars => DepthInv'
<1> SUFFICES ASSUME IInv, DepthInv, [Next]_vars PROVE DepthInv'
  OBVIOUS
<1>1. \A e \in Known : e.job \in Jobs
  <2>1. Known \subseteq Entry
    BY DEF IInv, TypeOK, Known, Done, Queued, Held, InChannel, Sending
  <2> QED BY <2>1 DEF Entry
<1>2. \A e \in Known : limits'[e.job] = limits[e.job]
  BY <1>1, LimitsStay DEF DepthInv
<1>3. CASE \E m \in Messages : Accept(m)
  <2>1. PICK m \in Messages : Accept(m)
    BY <1>3
  <2>2. Known' = Known \cup {EntryOf(m)}
    BY <2>1, AcceptMoves
  <2>3. Receive(m) /\ ~TooDeep(m) /\ m.job \in Jobs /\ m.limits \in Limits /\ m.depth \in Nat
    BY <2>1, FrontierAssumption DEF Accept, Message
  <2>4. limits'[m.job] = FrontierOf(m) /\ FrontierOf(m) \in Limits
    BY <2>3 DEF Receive, FrontierOf, IInv, TypeOK
  <2>5. EntryOf(m).job = m.job /\ EntryOf(m).depth = m.depth
    BY DEF EntryOf
  <2>6. FrontierOf(m).depth # NoLimit => m.depth <= FrontierOf(m).depth
    BY <2>3, <2>4 DEF TooDeep, Limits
  <2> QED
    BY <1>2, <2>2, <2>4, <2>5, <2>6, FrontierAssumption DEF DepthInv
<1>4. CASE \A m \in Messages : ~Accept(m)
  <2>1. Known' = Known
    BY <1>4, OtherStepsMove DEF Moved
  <2> QED BY <1>2, <2>1 DEF DepthInv
<1> QED
  BY <1>3, <1>4

\* No URL beyond its job's depth limit is published.
THEOREM DepthIsLimited == Spec => []DepthLimitHolds
<1>1. Init => DepthInv /\ IInv
  <2>1. Init => Known = {}
    BY DEF Init, Known, Queued, Held, InChannel, Sending, Done
  <2> QED BY <2>1, InitPlaces DEF DepthInv
<1>2. IInv /\ DepthInv /\ [Next]_vars => IInv' /\ DepthInv'
  BY NextPlaces, NextDepth
<1>3. DepthInv => DepthLimitHolds
  BY DEF DepthInv, DepthLimitHolds, Known, Done
<1> QED
  BY <1>1, <1>2, <1>3, PTL DEF Spec

\* The filter holds as many keys as it accepted, whichever way it errs.
CounterInv == (\A j \in Jobs : IsFiniteSet(seen[j])) /\ CountersAddUp

LEMMA NextCounters == TypeOK /\ CounterInv /\ [Next]_vars => CounterInv'
<1> SUFFICES ASSUME TypeOK, CounterInv, [Next]_vars, NEW j \in Jobs
             PROVE  /\ IsFiniteSet(seen'[j])
                    /\ received'[j] = deduplicated'[j] + Cardinality(seen'[j])
  BY DEF CounterInv, CountersAddUp
<1>1. /\ IsFiniteSet(seen[j]) /\ Cardinality(seen[j]) \in Nat
      /\ received[j] \in Nat /\ deduplicated[j] \in Nat
      /\ received[j] = deduplicated[j] + Cardinality(seen[j])
  BY FS_CardinalityType DEF CounterInv, CountersAddUp, TypeOK
<1>2. ASSUME NEW m \in Messages, Reject(m)
      PROVE  /\ IsFiniteSet(seen'[j])
             /\ received'[j] = deduplicated'[j] + Cardinality(seen'[j])
  <2>1. m.job \in Jobs /\ seen' = seen
        /\ received' = [received EXCEPT ![m.job] = @ + 1]
        /\ deduplicated' = [deduplicated EXCEPT ![m.job] = @ + 1]
    BY <1>2, FrontierAssumption DEF Reject, Receive, Message
  <2>2. CASE j = m.job
    <3>1. received'[j] = received[j] + 1 /\ deduplicated'[j] = deduplicated[j] + 1
      BY <2>1, <2>2 DEF TypeOK
    <3> QED BY <1>1, <2>1, <3>1
  <2>3. CASE j # m.job
    <3>1. received'[j] = received[j] /\ deduplicated'[j] = deduplicated[j]
      BY <2>1, <2>3 DEF TypeOK
    <3> QED BY <1>1, <2>1, <3>1
  <2> QED BY <2>2, <2>3
<1>3. ASSUME NEW m \in Messages, Accept(m)
      PROVE  /\ IsFiniteSet(seen'[j])
             /\ received'[j] = deduplicated'[j] + Cardinality(seen'[j])
  <2>1. m.job \in Jobs /\ m.key \notin seen[m.job]
        /\ received' = [received EXCEPT ![m.job] = @ + 1]
        /\ seen' = [seen EXCEPT ![m.job] = @ \cup {m.key}]
        /\ deduplicated' = deduplicated
    BY <1>3, FrontierAssumption DEF Accept, Receive, MayBeUnseen, Message
  <2>2. CASE j = m.job
    <3>1. received'[j] = received[j] + 1 /\ seen'[j] = seen[j] \cup {m.key}
      BY <2>1, <2>2 DEF TypeOK
    <3>2. m.key \notin seen[j]
      BY <2>1, <2>2
    <3>3. /\ IsFiniteSet(seen[j] \cup {m.key})
          /\ Cardinality(seen[j] \cup {m.key}) = Cardinality(seen[j]) + 1
      BY <1>1, <3>2, FS_AddElement
    <3>4. IsFiniteSet(seen'[j]) /\ Cardinality(seen'[j]) = Cardinality(seen[j]) + 1
      BY <3>1, <3>3
    <3>5. deduplicated'[j] = deduplicated[j]
      BY <2>1
    <3> QED BY <1>1, <3>1, <3>4, <3>5
  <2>3. CASE j # m.job
    <3>1. received'[j] = received[j] /\ seen'[j] = seen[j]
      BY <2>1, <2>3 DEF TypeOK
    <3> QED BY <1>1, <2>1, <3>1
  <2> QED BY <2>2, <2>3
<1>4. CASE \A m \in Messages : ~Reject(m) /\ ~Accept(m)
  <2>1. seen' = seen /\ received' = received /\ deduplicated' = deduplicated
    BY <1>4
    DEF Next, Consumer, Collector, CollectorHandle, Dispatcher, CollectorTick,
        CollectorPop, CollectorAdmit, CollectorDelay, CollectorSend,
        CollectorSendError, CollectorLoop, DispatcherRecv, DispatcherClosed,
        DispatcherPublish, DispatcherFail, DispatcherMark, DispatcherComplete,
        Elapse, Shutdown, vars, jobVars
  <2> QED BY <1>1, <2>1
<1> QED
  BY <1>2, <1>3, <1>4

\* Every message received is counted as a duplicate or has its URL in the filter.
THEOREM CountersAgree == Spec => []CountersAddUp
<1>1. Init => TypeOK /\ CounterInv
  <2>1. ASSUME Init, NEW j \in Jobs
        PROVE  IsFiniteSet(seen[j]) /\ received[j] = deduplicated[j] + Cardinality(seen[j])
    <3>1. seen[j] = {} /\ received[j] = 0 /\ deduplicated[j] = 0
      BY <2>1 DEF Init
    <3>2. IsFiniteSet({}) /\ Cardinality({}) = 0
      BY FS_EmptySet
    <3> QED BY <3>1, <3>2
  <2> QED BY <2>1, InitTypes DEF CounterInv, CountersAddUp
<1>2. TypeOK /\ CounterInv /\ [Next]_vars => TypeOK' /\ CounterInv'
  BY NextTypes, NextCounters
<1>3. CounterInv => CountersAddUp
  BY DEF CounterInv
<1> QED
  BY <1>1, <1>2, <1>3, PTL DEF Spec

\* The slots, counted: the messages of the channel about a domain, and what
\* the collector and the dispatcher hold.
Count(c, d)  == Cardinality({i \in 1..Len(c) : DomainOf[c[i].key] = d})
One(x, d)    == IF x # NoUrl /\ DomainOf[x.key] = d THEN 1 ELSE 0
InFlight(s)  == IF s = Untracked THEN 0 ELSE s.in_flight
NotStopped   == "stopped" \notin {collectorPc, dispatcherPc}

LEMMA OneCounted ==
  ASSUME NEW x, NEW d
  PROVE  Cardinality({e \in {x} : e # NoUrl /\ DomainOf[e.key] = d}) = One(x, d)
<1>1. CASE x # NoUrl /\ DomainOf[x.key] = d
  <2>1. {e \in {x} : e # NoUrl /\ DomainOf[e.key] = d} = {x}
    BY <1>1
  <2> QED BY <1>1, <2>1, FS_Singleton DEF One
<1>2. CASE ~(x # NoUrl /\ DomainOf[x.key] = d)
  <2>1. {e \in {x} : e # NoUrl /\ DomainOf[e.key] = d} = {}
    BY <1>2
  <2> QED BY <1>2, <2>1, FS_EmptySet DEF One
<1> QED BY <1>1, <1>2

LEMMA OnTheWayCounted ==
  ASSUME NEW d
  PROVE  /\ OnTheWay(d) = Count(channel, d) + One(hand, d) + One(ready, d)
         /\ OnTheWay(d)' = Count(channel', d) + One(hand', d) + One(ready', d)
<1>1. /\ {e \in Held : DomainOf[e.key] = d} = {e \in {hand} : e # NoUrl /\ DomainOf[e.key] = d}
      /\ {e \in Held' : DomainOf[e.key] = d} = {e \in {hand'} : e # NoUrl /\ DomainOf[e.key] = d}
  BY DEF Held
<1>2. /\ Cardinality({e \in Held : DomainOf[e.key] = d}) = One(hand, d)
      /\ Cardinality({e \in Held' : DomainOf[e.key] = d}) = One(hand', d)
  BY <1>1, OneCounted, Zenon
<1>3. /\ Cardinality({e \in {ready} : e # NoUrl /\ DomainOf[e.key] = d}) = One(ready, d)
      /\ Cardinality({e \in {ready'} : e # NoUrl /\ DomainOf[e.key] = d}) = One(ready', d)
  BY OneCounted, Zenon
<1> QED
  BY <1>2, <1>3, Zenon DEF OnTheWay, Count

LEMMA CountIsNat ==
  ASSUME NEW c \in Seq(Entry), NEW d
  PROVE  /\ IsFiniteSet({i \in 1..Len(c) : DomainOf[c[i].key] = d})
         /\ Count(c, d) \in Nat
<1>1. IsFiniteSet(1..Len(c))
  BY LenProperties, FS_Interval
<1>2. {i \in 1..Len(c) : DomainOf[c[i].key] = d} \subseteq 1..Len(c)
  OBVIOUS
<1> QED
  BY <1>1, <1>2, FS_Subset, FS_CardinalityType DEF Count

\* A message sent is counted in its domain.
LEMMA AppendCounts ==
  ASSUME NEW c \in Seq(Entry), NEW e \in Entry, NEW d, NoUrl \notin Entry
  PROVE  Count(Append(c, e), d) = Count(c, d) + One(e, d)
<1> DEFINE n == Len(c) + 1
           c2 == Append(c, e)
           S == {i \in 1..Len(c) : DomainOf[c[i].key] = d}
           T == {i \in 1..Len(c2) : DomainOf[c2[i].key] = d}
<1>1. /\ Len(c) \in Nat /\ Len(c2) = n
      /\ \A i \in 1..Len(c) : c2[i] = c[i]
      /\ c2[n] = e
  BY AppendProperties, LenProperties
<1> HIDE DEF c2
<1>2. /\ IsFiniteSet(S) /\ Cardinality(S) \in Nat
      /\ Count(c, d) = Cardinality(S) /\ Count(c2, d) = Cardinality(T)
  BY CountIsNat DEF Count
<1>3. CASE DomainOf[e.key] = d
  <2>1. T = S \cup {n} /\ n \notin S
    BY <1>1, <1>3
  <2>2. Cardinality(S \cup {n}) = Cardinality(S) + 1
    BY <1>2, <2>1, FS_AddElement
  <2>3. One(e, d) = 1
    BY <1>3 DEF One
  <2> HIDE DEF S, T
  <2> QED BY <1>2, <2>1, <2>2, <2>3 DEF c2
<1>4. CASE DomainOf[e.key] # d
  <2>1. T = S
    BY <1>1, <1>4
  <2>2. One(e, d) = 0
    BY <1>4 DEF One
  <2> HIDE DEF S, T
  <2> QED BY <1>2, <2>1, <2>2 DEF c2
<1> QED BY <1>3, <1>4

\* A message received is not counted any more.
LEMMA TailCounts ==
  ASSUME NEW c \in Seq(Entry), c # <<>>, NEW d, NoUrl \notin Entry
  PROVE  Count(c, d) = Count(Tail(c), d) + One(Head(c), d)
<1> DEFINE t == Tail(c)
           S == {i \in 1..Len(t) : DomainOf[t[i].key] = d}
           R == {i \in 2..Len(c) : DomainOf[c[i].key] = d}
           T == {i \in 1..Len(c) : DomainOf[c[i].key] = d}
           f == [i \in S |-> i + 1]
<1>1. /\ t \in Seq(Entry) /\ Len(t) = Len(c) - 1
      /\ Len(c) \in Nat \ {0}
      /\ \A i \in 1..Len(t) : t[i] = c[i + 1]
      /\ Head(c) = c[1] /\ Head(c) \in Entry
  BY HeadTailProperties, EmptySeq
<1> HIDE DEF t
<1>2. /\ IsFiniteSet(S) /\ Cardinality(S) \in Nat
      /\ Count(t, d) = Cardinality(S) /\ Count(c, d) = Cardinality(T)
  BY <1>1, CountIsNat DEF Count
<1>3. f \in Bijection(S, R)
  <2>1. ASSUME NEW i \in S PROVE f[i] \in R
    BY <1>1
  <2>2. ASSUME NEW i \in S, NEW k \in S, f[i] = f[k] PROVE i = k
    BY <2>2
  <2>3. ASSUME NEW k \in R PROVE \E i \in S : f[i] = k
    <3>1. k - 1 \in 1..Len(t) /\ t[k - 1] = c[k]
      BY <1>1
    <3>2. k - 1 \in S
      BY <3>1
    <3> QED BY <3>2
  <2>4. f \in [S -> R]
    BY <2>1
  <2>5. f \in Injection(S, R)
    BY <2>2, <2>4, Fun_IsInj
  <2>6. f \in Surjection(S, R)
    BY <2>3, <2>4, Fun_IsSurj
  <2> QED BY <2>5, <2>6 DEF Bijection
<1>4. IsFiniteSet(R) /\ Cardinality(R) = Cardinality(S)
  <2>1. ExistsBijection(S, R)
    BY <1>3 DEF ExistsBijection
  <2> QED BY <1>2, <2>1, FS_Bijection
<1>5. CASE DomainOf[Head(c).key] = d
  <2>1. T = R \cup {1} /\ 1 \notin R
    BY <1>1, <1>5
  <2>2. Cardinality(R \cup {1}) = Cardinality(R) + 1
    BY <1>4, <2>1, FS_AddElement
  <2>3. One(Head(c), d) = 1
    BY <1>1, <1>5 DEF One
  <2> HIDE DEF R, S, T
  <2> QED BY <1>2, <1>4, <2>1, <2>2, <2>3 DEF t
<1>6. CASE DomainOf[Head(c).key] # d
  <2>1. T = R
    BY <1>1, <1>6
  <2>2. One(Head(c), d) = 0
    BY <1>6 DEF One
  <2> HIDE DEF R, S, T
  <2> QED BY <1>2, <1>4, <2>1, <2>2 DEF t
<1> QED BY <1>5, <1>6

\* The operators of the scheduler, as far as a domain's slots are concerned.
LEMMA SlotTaken ==
  ASSUME domains \in P!DomainsType, NEW d \in Domains, NEW x \in Domains,
         P!CanFetch(x), P!StartRequest(x)
  PROVE  /\ InFlight(domains[d]) \in Nat
         /\ InFlight(domains'[d]) = InFlight(domains[d]) + (IF d = x THEN 1 ELSE 0)
         /\ InFlight(domains[x]) < Concurrent
<1> USE SchedulerAssumption
    DEF P!DomainsType, P!DomainState, P!PolitenessAssumption, P!UntrackedAssumption
<1>1. /\ P!StateOf(x) \in P!DomainState
      /\ P!StateOf(x).in_flight = InFlight(domains[x])
  BY DEF P!StateOf, P!NewState, P!Tracked, InFlight
<1>2. ASSUME NEW s \in P!DomainState
      PROVE  /\ [s EXCEPT !.in_flight = @ + 1, !.since = 0] \in P!DomainState
             /\ [s EXCEPT !.in_flight = @ + 1, !.since = 0].in_flight = s.in_flight + 1
  <2>1. /\ [s EXCEPT !.in_flight = @ + 1] \in P!DomainState
        /\ [s EXCEPT !.in_flight = @ + 1].in_flight = s.in_flight + 1
    OBVIOUS
  <2>2. ASSUME NEW t \in P!DomainState
        PROVE  /\ [t EXCEPT !.since = 0] \in P!DomainState
               /\ [t EXCEPT !.since = 0].in_flight = t.in_flight
    OBVIOUS
  <2> QED BY <2>1, <2>2
<1>3. InFlight(domains[x]) < Concurrent
  BY DEF P!CanFetch, P!Tracked, InFlight
<1>4. InFlight(domains[d]) \in Nat
  BY DEF InFlight
<1>5. CASE d = x
  <2>1. domains'[x] = [P!StateOf(x) EXCEPT !.in_flight = @ + 1, !.since = 0]
    BY DEF P!StartRequest
  <2>2. domains'[x] \in P!DomainState /\ domains'[x].in_flight = InFlight(domains[x]) + 1
    BY <1>1, <1>2, <2>1
  <2> QED BY <1>3, <1>4, <1>5, <2>2 DEF InFlight
<1>6. CASE d # x
  BY <1>3, <1>4, <1>6 DEF P!StartRequest
<1> QED BY <1>5, <1>6

LEMMA SlotReleased ==
  ASSUME domains \in P!DomainsType, NEW d \in Domains, NEW x \in Domains,
         P!CompleteRequest(x) \/ P!FailedRequest(x, FALSE), InFlight(domains[x]) > 0
  PROVE  /\ InFlight(domains[d]) \in Nat
         /\ InFlight(domains'[d]) = InFlight(domains[d]) - (IF d = x THEN 1 ELSE 0)
<1> USE SchedulerAssumption
    DEF P!DomainsType, P!DomainState, P!PolitenessAssumption, P!UntrackedAssumption
<1>1. P!Tracked(x) /\ domains[x] \in P!DomainState /\ domains[x].in_flight > 0
  BY DEF P!Tracked, InFlight
<1>2. InFlight(domains[d]) \in Nat
  BY DEF InFlight
<1>3. domains' \in P!DomainsType
  BY PolitenessTypes
<1>4. P!Released(domains[x].in_flight) = domains[x].in_flight - 1
  BY <1>1 DEF P!Released
<1>5. CASE d = x
  <2>1. domains'[x].in_flight = P!Released(domains[x].in_flight)
    <3>1. CASE P!CompleteRequest(x)
      BY <1>1, <3>1 DEF P!CompleteRequest
    <3>2. CASE P!FailedRequest(x, FALSE)
      BY <1>1, <3>2 DEF P!FailedRequest
    <3> QED BY <3>1, <3>2
  <2>2. domains'[x] # Untracked
    <3>1. P!Released(domains[x].in_flight) \in Nat /\ P!Recovered(domains[x].delay) \in 0..MaxDelay
      BY <1>1, <1>4 DEF P!Recovered
    <3>2. CASE P!CompleteRequest(x)
      BY <1>1, <3>1, <3>2 DEF P!CompleteRequest
    <3>3. CASE P!FailedRequest(x, FALSE)
      BY <1>1, <3>1, <3>3 DEF P!FailedRequest
    <3> QED BY <3>2, <3>3
  <2> QED BY <1>1, <1>2, <1>4, <1>5, <2>1, <2>2 DEF InFlight
<1>6. CASE d # x
  BY <1>1, <1>2, <1>6 DEF P!CompleteRequest, P!FailedRequest
<1> QED BY <1>5, <1>6

LEMMA SlotsKept ==
  ASSUME domains \in P!DomainsType, NEW d \in Domains, P!Elapse
  PROVE  InFlight(domains'[d]) = InFlight(domains[d])
<1> USE SchedulerAssumption
    DEF P!DomainsType, P!DomainState, P!PolitenessAssumption, P!UntrackedAssumption
<1>1. CASE P!Tracked(d) /\ domains[d].since < MaxDelay
  <2>1. domains'[d] = [domains[d] EXCEPT !.since = @ + 1]
    BY <1>1 DEF P!Elapse
  <2>2. domains[d] \in P!DomainState
    BY <1>1 DEF P!Tracked
  <2>3. domains'[d] \in P!DomainState /\ domains'[d].in_flight = domains[d].in_flight
    BY <1>1, <2>1, <2>2
  <2> QED BY <1>1, <2>2, <2>3 DEF P!Tracked, InFlight
<1>2. CASE ~(P!Tracked(d) /\ domains[d].since < MaxDelay)
  BY <1>2 DEF P!Elapse
<1> QED BY <1>1, <1>2

\* While both tasks run, each domain's slots are its requests on their way.
SlotsHold(d) == /\ OnTheWay(d) = InFlight(domains[d])
                /\ OnTheWay(d) <= Concurrent

LEMMA SlotsRestated ==
  SlotsMatchRequests <=> (NotStopped => \A d \in Domains : SlotsHold(d))
BY DEF SlotsMatchRequests, NotStopped, SlotsHold, InFlight

\* No step starts a stopped task again.
LEMMA StoppedStays == [Next]_vars /\ NotStopped' => NotStopped
BY DEF NotStopped, Next, Consumer, Reject, Accept, Receive, Collector, CollectorHandle,
       Dispatcher, CollectorTick, CollectorPop, CollectorAdmit, CollectorDelay,
       CollectorSend, CollectorSendError, CollectorLoop, DispatcherRecv, DispatcherClosed,
       DispatcherPublish, DispatcherFail, DispatcherMark, DispatcherComplete,
       DispatcherLoop, Elapse, Shutdown, vars, collectorVars, dispatcherVars

LEMMA NextSlots == TypeOK /\ SlotsMatchRequests /\ [Next]_vars => SlotsMatchRequests'
<1> SUFFICES ASSUME TypeOK, NotStopped, NotStopped', [Next]_vars,
                    \A x \in Domains : SlotsHold(x),
                    NEW d \in Domains
             PROVE  /\ OnTheWay(d)' = InFlight(domains'[d])
                    /\ OnTheWay(d)' <= Concurrent
  BY SlotsRestated, StoppedStays DEF SlotsMatchRequests, NotStopped, InFlight
<1> USE SchedulerAssumption DEF P!PolitenessAssumption
<1>1. /\ OnTheWay(d) = Count(channel, d) + One(hand, d) + One(ready, d)
      /\ OnTheWay(d)' = Count(channel', d) + One(hand', d) + One(ready', d)
      /\ OnTheWay(d) = InFlight(domains[d]) /\ OnTheWay(d) <= Concurrent
      /\ Count(channel, d) \in Nat
      /\ \A x : One(x, d) \in {0, 1}
  BY OnTheWayCounted, CountIsNat DEF SlotsHold, TypeOK, One
<1>2. \A e \in Entry : DomainOf[e.key] \in Domains /\ e # NoUrl
  BY FrontierAssumption DEF Entry
<1>3. One(NoUrl, d) = 0
  BY DEF One
<1>4. \A e \in Entry : One(e, d) = (IF DomainOf[e.key] = d THEN 1 ELSE 0)
  BY <1>2 DEF One
<1>5. ASSUME NEW e \in batch, CollectorAdmit(e)
      PROVE  OnTheWay(d)' = InFlight(domains'[d]) /\ OnTheWay(d)' <= Concurrent
  <2>1. e \in Entry /\ hand = NoUrl /\ hand' = e /\ channel' = channel /\ ready' = ready
    BY <1>5 DEF CollectorAdmit, TypeOK, dispatcherVars
  <2>2. P!CanFetch(DomainOf[e.key]) /\ P!StartRequest(DomainOf[e.key])
    BY <1>5 DEF CollectorAdmit
  <2>3. /\ InFlight(domains[d]) \in Nat
        /\ InFlight(domains'[d]) = InFlight(domains[d]) + One(e, d)
        /\ DomainOf[e.key] = d => InFlight(domains[d]) < Concurrent
    BY <1>2, <1>4, <2>1, <2>2, SlotTaken DEF TypeOK
  <2> QED
    BY <1>1, <1>3, <1>4, <2>1, <2>3
<1>6. ASSUME CollectorSend
      PROVE  OnTheWay(d)' = InFlight(domains'[d]) /\ OnTheWay(d)' <= Concurrent
  <2>1. /\ hand \in Entry /\ hand' = NoUrl /\ channel' = Append(channel, hand)
        /\ ready' = ready /\ domains' = domains
    BY <1>6 DEF CollectorSend, TypeOK, dispatcherVars
  <2>2. Count(channel', d) = Count(channel, d) + One(hand, d)
    BY <2>1, AppendCounts, FrontierAssumption DEF TypeOK
  <2> QED
    BY <1>1, <1>3, <2>1, <2>2
<1>7. ASSUME DispatcherRecv
      PROVE  OnTheWay(d)' = InFlight(domains'[d]) /\ OnTheWay(d)' <= Concurrent
  <2>1. /\ channel # <<>> /\ ready = NoUrl /\ ready' = Head(channel)
        /\ channel' = Tail(channel) /\ hand' = hand /\ domains' = domains
    BY <1>7 DEF DispatcherRecv, TypeOK, collectorVars
  <2>2. Count(channel, d) = Count(channel', d) + One(ready', d)
    BY <2>1, TailCounts, FrontierAssumption DEF TypeOK
  <2>3. Count(channel', d) \in Nat
    BY <2>1, CountIsNat, HeadTailProperties DEF TypeOK
  <2> QED
    BY <1>1, <1>3, <2>1, <2>2, <2>3
<1>8. ASSUME DispatcherComplete \/ DispatcherFail
      PROVE  OnTheWay(d)' = InFlight(domains'[d]) /\ OnTheWay(d)' <= Concurrent
  <2>1. /\ ready \in Entry /\ ready' = NoUrl /\ hand' = hand
        /\ P!CompleteRequest(DomainOf[ready.key]) \/ P!FailedRequest(DomainOf[ready.key], FALSE)
    BY <1>8 DEF DispatcherComplete, DispatcherFail, TypeOK, collectorVars
  <2>2. channel' = channel
    BY <1>8 DEF DispatcherComplete, DispatcherFail, DispatcherLoop, NotStopped
  <2>3. InFlight(domains[DomainOf[ready.key]]) > 0
    <3> DEFINE x == DomainOf[ready.key]
    <3>1. x \in Domains /\ SlotsHold(x)
      BY <1>2, <2>1
    <3>2. OnTheWay(x) = Count(channel, x) + One(hand, x) + One(ready, x)
      BY <3>1, OnTheWayCounted
    <3>3. Count(channel, x) \in Nat /\ One(hand, x) \in {0, 1} /\ One(ready, x) = 1
      BY <1>2, <2>1, CountIsNat DEF TypeOK, One
    <3> QED BY <3>1, <3>2, <3>3 DEF SlotsHold
  <2>4. /\ InFlight(domains[d]) \in Nat
        /\ InFlight(domains'[d]) = InFlight(domains[d]) - One(ready, d)
    BY <1>2, <1>4, <2>1, <2>3, SlotReleased DEF TypeOK
  <2> QED
    BY <1>1, <1>3, <1>4, <2>1, <2>2, <2>4
<1>9. ASSUME Elapse
      PROVE  OnTheWay(d)' = InFlight(domains'[d]) /\ OnTheWay(d)' <= Concurrent
  <2>1. channel' = channel /\ hand' = hand /\ ready' = ready
    BY <1>9 DEF Elapse, collectorVars, dispatcherVars
  <2>2. InFlight(domains'[d]) = InFlight(domains[d])
    BY <1>9, SlotsKept DEF Elapse, TypeOK
  <2> QED
    BY <1>1, <2>1, <2>2
<1>10. CASE channel' = channel /\ hand' = hand /\ ready' = ready /\ domains' = domains
  BY <1>1, <1>10
<1>11. ASSUME \A e \in batch : ~CollectorAdmit(e),
              ~CollectorSend, ~DispatcherRecv, ~(DispatcherComplete \/ DispatcherFail), ~Elapse
       PROVE  channel' = channel /\ hand' = hand /\ ready' = ready /\ domains' = domains
  BY <1>11
  DEF NotStopped, Next, Consumer, Reject, Accept, Receive, Collector, CollectorHandle,
      Dispatcher, CollectorTick, CollectorPop, CollectorDelay, CollectorSendError,
      CollectorLoop, DispatcherClosed, DispatcherPublish, DispatcherMark, Shutdown,
      vars, collectorVars, dispatcherVars
<1> QED
  BY <1>5, <1>6, <1>7, <1>8, <1>9, <1>10, <1>11

\* In every reachable state of a running service, whatever the number of domains
\* and however start_request, the channel and the answers of the publishes
\* interleave, the scheduler counts a domain's requests exactly.
THEOREM SlotsAreExact == Spec => []SlotsMatchRequests
<1>1. Init => TypeOK /\ SlotsMatchRequests
  <2> SUFFICES ASSUME Init, NEW d \in Domains
               PROVE  SlotsHold(d)
    BY InitTypes, SlotsRestated
  <2>1. channel = <<>> /\ hand = NoUrl /\ ready = NoUrl /\ domains[d] = Untracked
    BY DEF Init, P!PolitenessInit
  <2>2. {i \in 1..Len(channel) : DomainOf[channel[i].key] = d} = {}
    BY <2>1
  <2>3. Count(channel, d) = 0 /\ One(hand, d) = 0 /\ One(ready, d) = 0
    BY <2>1, <2>2, FS_EmptySet DEF Count, One
  <2> QED
    BY <2>1, <2>3, OnTheWayCounted, SchedulerAssumption
    DEF SlotsHold, InFlight, P!PolitenessAssumption
<1>2. TypeOK /\ SlotsMatchRequests /\ [Next]_vars => TypeOK' /\ SlotsMatchRequests'
  BY NextTypes, NextSlots
<1> QED
  BY <1>1, <1>2, PTL DEF Spec

=============================================================================
