------------------------- MODULE ContentWorkerProofs ------------------------
(***************************************************************************)
(* Theorems about ContentWorker, for any pages, accounts, batch size and   *)
(* number of failures and crashes.  One inductive invariant, IInv, has a   *)
(* part for each concern: the stages of the handler, its commits, where    *)
(* the documents in memory belong, that each added document is accounted   *)
(* for, and the last flush.  Each part is kept by a lemma of its own; that *)
(* no step loses track of a document (StaysAccounted) is the heart of the  *)
(* fourth.  A second one, LossInv, bounds what memory can hold and with it *)
(* what a failed request or a crash can lose.                              *)
(***************************************************************************)
EXTENDS ContentWorker, FiniteSetTheorems, TLAPS

\* The handler holds a page.
Busy == pc \in {"configure", "store", "add", "send", "announce"}

\* The stages of the handler: it holds a page, a document still to add, a
\* request, a storage, exactly when the next steps rely on it.
HandlerOK ==
  /\ Busy => position >= 1
  /\ pc \in {"add", "send"} => left >= 1
  /\ pc = "announce" => left = 0
  /\ pc = "send" <=> sending # None
  /\ pc \in {"add", "send"} => storages[Current.engine] # None

\* The offset of which everything is handled.
Done == IF Busy THEN position - 1 ELSE position

CommitOK == stored <= Done /\ 1..Done \subseteq handled \cup refused

Belongs(doc, engine, index) ==
  Pages[doc[1]].engine = engine /\ Pages[doc[1]].index = index

\* The documents in memory belong to the storage or the request they are in.
OwnDocs ==
  /\ \A e \in Engines : \A d \in pending[e] :
       storages[e] # None /\ Belongs(d, e, storages[e])
  /\ \A r \in {sending, flushing} : r # None => \A d \in r.docs : Belongs(d, r.engine, r.index)

\* Where a document that was added can be.
Accounted == InMemory \cup lost \cup {x.doc : x \in indexed}

\* The documents of announced pages, and those of the page in hand that were
\* already added, are accounted for.
AccountOK ==
  /\ \A k \in acked : \A n \in 1..Pages[k].docs : <<k, n>> \in Accounted
  /\ pc \in {"add", "send", "announce"} =>
       \A n \in (left + 1)..Current.docs : <<position, n>> \in Accounted
  /\ pc = "send" => <<position, left>> \in Accounted

\* The last flush: it runs when the flusher has stopped, and what is still to
\* be sent is in a storage it has yet to visit.
ClosingOK ==
  /\ pc = "flushing" <=> flushPc = "final"
  /\ flushPc \in {"sleep", "stopped"} => flushing = None
  /\ pc = "flushing" => \A e \in Engines : pending[e] # {} => e \in flushTodo
  /\ pc = "exited" => flushPc = "stopped" /\ \A e \in Engines : pending[e] = {}

IInv == TypeOK /\ HandlerOK /\ CommitOK /\ OwnDocs /\ OwnIndex /\ AccountOK /\ ClosingOK

-----------------------------------------------------------------------------
LEMMA Lengths == Len(Pages) \in Nat
  BY ContentWorkerAssumption

LEMMA PageFields ==
  ASSUME NEW k \in Offsets
  PROVE  /\ Pages[k].engine \in Engines /\ Pages[k].index \in Indexes
         /\ Pages[k].docs \in Nat /\ Pages[k].near \in BOOLEAN
<1>1. Pages[k] \in Page
  BY ContentWorkerAssumption DEF Offsets
<1>. QED
  BY <1>1 DEF Page

LEMMA CurrentPage ==
  ASSUME TypeOK, position >= 1
  PROVE  /\ position \in Offsets
         /\ Current.engine \in Engines /\ Current.index \in Indexes
         /\ Current.docs \in Nat
<1>1. position \in Offsets
  BY Lengths DEF TypeOK, Offsets
<1>. QED
  BY <1>1, PageFields DEF Current

LEMMA SomeRequest == None \notin Request
  BY ContentWorkerAssumption

LEMMA InitIsTyped == Init => TypeOK
<1>. SUFFICES ASSUME Init PROVE TypeOK
  OBVIOUS
<1>1. storages \in [Engines -> Indexes \cup {None}] /\ pending \in [Engines -> SUBSET Doc]
  BY DEF Init
<1>2. /\ sending \in Request \cup {None} /\ flushing \in Request \cup {None}
      /\ configured \subseteq Indexes /\ flushTodo \subseteq Engines
      /\ indexed \subseteq Entry /\ lost \subseteq Doc
      /\ acked \subseteq Offsets /\ handled \subseteq Offsets /\ refused \subseteq Offsets
  BY DEF Init
<1>3. /\ produced \in 0..Len(Pages) /\ position \in 0..produced
      /\ stored \in 0..position /\ committed \in 0..stored /\ left \in Nat
      /\ failures \in 0..MaxFailures /\ crashes \in 0..MaxCrashes
  BY Lengths, ContentWorkerAssumption DEF Init
<1>4. /\ pc = "poll" /\ flushPc = "sleep" /\ anyIndexed \in BOOLEAN /\ shutdown \in BOOLEAN
  BY DEF Init
<1>. QED
  BY <1>1, <1>2, <1>3, <1>4 DEF TypeOK

LEMMA GetStorageStep ==
  ASSUME TypeOK, HandlerOK, Busy, GetStorage
  PROVE  /\ storages' \in [Engines -> Indexes \cup {None}]
         /\ failures' \in 0..MaxFailures
  BY CurrentPage, ContentWorkerAssumption DEF TypeOK, HandlerOK, GetStorage, Fail

\* What the handler does with the offsets when it returns.
LEMMA ReturnStep ==
  ASSUME TypeOK, HandlerOK, Busy, Return
  PROVE  /\ stored' \in 0..position /\ committed <= stored'
         /\ handled' \subseteq Offsets /\ left' \in Nat
         /\ pc' = "poll" /\ anyIndexed' \in BOOLEAN /\ sending' = None
<1>1. position \in Offsets
  BY CurrentPage DEF HandlerOK
<1>2. stored' \in 0..position /\ committed <= stored'
  BY DEF TypeOK, Return
<1>3. handled' \subseteq Offsets
  BY <1>1 DEF TypeOK, Return
<1>. QED
  BY <1>2, <1>3 DEF Return

LEMMA NextDocumentStep ==
  ASSUME TypeOK, HandlerOK, pc \in {"add", "send"}, NextDocument
  PROVE  left' \in Nat /\ pc' \in {"add", "announce"}
  BY DEF TypeOK, HandlerOK, NextDocument

\* A document goes to the buffer, or into a request on its own or with the
\* buffer.
LEMMA AddStep ==
  ASSUME TypeOK, HandlerOK, Add
  PROVE  /\ pending' \in [Engines -> SUBSET Doc] /\ anyIndexed' \in BOOLEAN
         /\ left' \in Nat /\ sending' \in Request \cup {None}
         /\ \/ sending' \in Request /\ pc' = "send" /\ left' = left
            \/ sending' = sending /\ NextDocument /\ pc' \in {"add", "announce"}
<1>1. /\ Current.engine \in Engines /\ Current.index \in Indexes
      /\ <<position, left>> \in Doc /\ storages[Current.engine] \in Indexes
  BY CurrentPage DEF Add, HandlerOK, Busy, TypeOK, Doc
<1>2. pending[Current.engine] \cup {<<position, left>>} \subseteq Doc
  BY <1>1 DEF TypeOK
<1>3. pending' \in [Engines -> SUBSET Doc]
  BY <1>2 DEF Add, TypeOK
<1>4. anyIndexed' \in BOOLEAN
  BY DEF Add, TypeOK
<1>5. \/ sending' \in Request /\ pc' = "send" /\ left' = left
      \/ sending' = sending /\ NextDocument
  BY <1>1, <1>2 DEF Add, Request
<1>6. NextDocument => left' \in Nat /\ pc' \in {"add", "announce"}
  BY NextDocumentStep DEF Add
<1>. QED
  BY <1>3, <1>4, <1>5, <1>6 DEF TypeOK

LEMMA AcceptedStep ==
  ASSUME NEW r \in Request
  PROVE  Accepted(r) \subseteq Entry /\ r.docs \subseteq Doc
  BY DEF Accepted, Request, Entry

LEMMA InMemoryStep ==
  ASSUME TypeOK
  PROVE  InMemory \subseteq Doc
<1>1. UNION {pending[e] : e \in Engines} \subseteq Doc
  BY DEF TypeOK
<1>2. ASSUME NEW r \in Request \cup {None} PROVE InFlight(r) \subseteq Doc
  BY DEF InFlight, Request
<1>3. InFlight(sending) \subseteq Doc /\ InFlight(flushing) \subseteq Doc
  BY <1>2 DEF TypeOK
<1>. QED
  BY <1>1, <1>3 DEF InMemory

-----------------------------------------------------------------------------
LEMMA HandlerIsTyped ==
  ASSUME TypeOK, HandlerOK, Handle
  PROVE  TypeOK'
<1>1. CASE Take
  BY <1>1 DEF Take, TypeOK, kafkaVars, handlerVars, flusherVars, faultVars, resultVars
<1>2. CASE Refuse
  BY <1>2, Lengths DEF Refuse, TypeOK, Offsets, handlerVars, flusherVars, faultVars, resultVars
<1>3. CASE Skip
  BY <1>3, ReturnStep DEF Skip, TypeOK, Busy, handlerVars, flusherVars, faultVars, resultVars
<1>4. CASE Configure
  <2>1. /\ storages' \in [Engines -> Indexes \cup {None}] /\ failures' \in 0..MaxFailures
        /\ configured' \subseteq Indexes
    BY <1>4, GetStorageStep, CurrentPage DEF Configure, Busy, TypeOK, HandlerOK
  <2>. QED
    BY <1>4, <2>1 DEF Configure, TypeOK, kafkaVars, flusherVars, resultVars
<1>5. CASE Store
  <2>1. storages' \in [Engines -> Indexes \cup {None}] /\ failures' \in 0..MaxFailures
    BY <1>5, GetStorageStep DEF Store, Busy
  <2>2. /\ stored' \in 0..position /\ committed <= stored' /\ handled' \subseteq Offsets
        /\ left' \in Nat /\ pc' \in {"add", "poll"} /\ anyIndexed' \in BOOLEAN
        /\ sending' \in Request \cup {None}
    BY <1>5, ReturnStep, CurrentPage DEF Store, Busy, TypeOK, HandlerOK
  <2>. QED
    BY <1>5, <2>1, <2>2 DEF Store, TypeOK, flusherVars
<1>6. CASE Add
  BY <1>6, AddStep DEF Add, TypeOK, kafkaVars, flusherVars, faultVars, resultVars
<1>7. CASE Send
  BY <1>7, NextDocumentStep, AcceptedStep
  DEF Send, TypeOK, HandlerOK, kafkaVars, flusherVars, faultVars
<1>8. CASE SendFails
  BY <1>8, NextDocumentStep, AcceptedStep, ContentWorkerAssumption
  DEF SendFails, Fail, TypeOK, HandlerOK, kafkaVars, flusherVars
<1>9. CASE Announce
  <2>1. acked' \subseteq Offsets /\ failures' \in 0..MaxFailures
    BY <1>9, CurrentPage, ContentWorkerAssumption DEF Announce, Fail, TypeOK, HandlerOK, Busy
  <2>. QED
    BY <1>9, <2>1, ReturnStep DEF Announce, TypeOK, Busy, flusherVars
<1>. QED
  BY <1>1, <1>2, <1>3, <1>4, <1>5, <1>6, <1>7, <1>8, <1>9 DEF Handle

LEMMA FlusherIsTyped ==
  ASSUME TypeOK, OwnDocs, Flush
  PROVE  TypeOK'
<1>1. CASE FlushTick
  BY <1>1 DEF FlushTick, Due, Buffered, TypeOK, kafkaVars, handlerVars, faultVars, resultVars
<1>2. ASSUME NEW e \in Engines, FlushTake(e) PROVE TypeOK'
  <2>1. flushing' \in Request \cup {None}
    <3>1. CASE pending[e] = {}
      BY <1>2, <3>1 DEF FlushTake
    <3>2. CASE pending[e] # {}
      <4>1. storages[e] \in Indexes
        BY <3>2 DEF OwnDocs, TypeOK
      <4>. QED
        BY <1>2, <3>2, <4>1 DEF FlushTake, TypeOK, Request
    <3>. QED
      BY <3>1, <3>2
  <2>2. pending' \in [Engines -> SUBSET Doc] /\ flushTodo' \subseteq Engines
    BY <1>2 DEF FlushTake, TypeOK
  <2>. QED
    BY <1>2, <2>1, <2>2 DEF FlushTake, TypeOK, kafkaVars, handlerVars, faultVars, resultVars
<1>3. CASE FlushSend
  BY <1>3, AcceptedStep DEF FlushSend, TypeOK, kafkaVars, handlerVars, faultVars
<1>4. CASE FlushFails
  BY <1>4, AcceptedStep, ContentWorkerAssumption
  DEF FlushFails, Fail, TypeOK, kafkaVars, handlerVars
<1>5. CASE FlushEnd
  BY <1>5 DEF FlushEnd, TypeOK, kafkaVars, handlerVars, faultVars, resultVars
<1>. QED
  BY <1>1, <1>2, <1>3, <1>4, <1>5 DEF Flush

LEMMA StepIsTyped ==
  ASSUME TypeOK, HandlerOK, OwnDocs, [Next]_vars
  PROVE  TypeOK'
<1>1. CASE Produce
  BY <1>1, Lengths DEF Produce, TypeOK, handlerVars, flusherVars, faultVars, resultVars
<1>2. CASE CommitArrives
  BY <1>2 DEF CommitArrives, TypeOK, handlerVars, flusherVars, faultVars, resultVars
<1>3. CASE Shutdown
  BY <1>3 DEF Shutdown, TypeOK, kafkaVars, handlerVars, flusherVars, resultVars
<1>4. CASE StreamEnd
  BY <1>4 DEF StreamEnd, TypeOK, kafkaVars, flusherVars, resultVars
<1>5. CASE FinalFlush
  BY <1>5 DEF FinalFlush, Buffered, TypeOK, kafkaVars, faultVars, resultVars
<1>6. CASE Exit
  BY <1>6 DEF Exit, TypeOK, kafkaVars, faultVars, resultVars
<1>7. CASE Crash
  <2>1. storages' \in [Engines -> Indexes \cup {None}] /\ pending' \in [Engines -> SUBSET Doc]
    BY <1>7 DEF Crash
  <2>2. lost' \subseteq Doc
    BY <1>7, InMemoryStep DEF Crash, TypeOK
  <2>3. position' \in 0..produced' /\ stored' \in 0..position' /\ committed' \in 0..stored'
    BY <1>7, Lengths DEF Crash, Resume, TypeOK
  <2>4. crashes' \in 0..MaxCrashes
    BY <1>7, ContentWorkerAssumption DEF Crash, TypeOK
  <2>. QED
    BY <1>7, <2>1, <2>2, <2>3, <2>4 DEF Crash, TypeOK
<1>8. CASE UNCHANGED vars
  BY <1>8 DEF vars, TypeOK, kafkaVars, handlerVars, flusherVars, faultVars, resultVars
<1>. QED
  BY <1>1, <1>2, <1>3, <1>4, <1>5, <1>6, <1>7, <1>8, HandlerIsTyped, FlusherIsTyped DEF Next

-----------------------------------------------------------------------------
(* The handler and its commits.                                            *)

\* Whatever is not the handler's leaves it alone, crashes and the end aside.
LEMMA HandlerStep ==
  ASSUME TypeOK, HandlerOK, [Next]_vars
  PROVE  HandlerOK'
<1>. USE DEF HandlerOK, Busy
<1>1. CASE Take
  BY <1>1 DEF Take, TypeOK
<1>2. CASE Refuse
  BY <1>2 DEF Refuse, TypeOK, handlerVars
<1>3. CASE Skip \/ Announce
  BY <1>3 DEF Skip, Announce, Return
<1>4. CASE Configure
  BY <1>4 DEF Configure, kafkaVars
<1>5. CASE Store
  <2>1. position' = position
    BY <1>5 DEF Store
  <2>2. CASE Return
    BY <2>2 DEF Return
  <2>3. CASE ~Return
    <3>1. storages'[Current.engine] # None /\ pc' = "add" /\ left' = Current.docs /\ sending' = None
      BY <1>5, <2>3 DEF Store
    <3>. QED
      BY <1>5, <2>1, <3>1, CurrentPage DEF Store, Current
  <2>. QED
    BY <2>2, <2>3
<1>6. CASE Add
  <2>1. position' = position /\ storages' = storages /\ pc = "add"
    BY <1>6 DEF Add, kafkaVars
  <2>2. CASE sending' \in Request /\ pc' = "send" /\ left' = left
    BY <2>1, <2>2, SomeRequest DEF Current
  <2>3. CASE sending' = sending /\ NextDocument
    BY <2>1, <2>3 DEF NextDocument, TypeOK, Current
  <2>. QED
    BY <1>6, <2>2, <2>3, AddStep
<1>7. CASE Send \/ SendFails
  <2>1. position' = position /\ storages' = storages /\ sending' = None /\ NextDocument /\ pc = "send"
    BY <1>7 DEF Send, SendFails, kafkaVars
  <2>2. pc' \in {"add", "announce"} /\ (pc' = "add" => left' >= 1) /\ (pc' = "announce" => left' = 0)
    BY <2>1 DEF NextDocument, TypeOK
  <2>3. storages[Current.engine] # None
    BY <2>1
  <2>. QED
    BY <2>1, <2>2, <2>3 DEF Current
<1>8. CASE Flush \/ Produce \/ CommitArrives \/ Shutdown \/ UNCHANGED vars
  <2>1. position' = position /\ storages' = storages /\ UNCHANGED handlerVars
    BY <1>8 DEF Flush, FlushTick, FlushTake, FlushSend, FlushFails, FlushEnd, Produce,
         CommitArrives, Shutdown, vars, kafkaVars
  <2>. QED
    BY <2>1 DEF handlerVars, Current
<1>9. CASE StreamEnd \/ FinalFlush \/ Crash
  BY <1>9 DEF StreamEnd, FinalFlush, Crash
<1>10. CASE Exit
  BY <1>10 DEF Exit
<1>. QED
  BY <1>1, <1>2, <1>3, <1>4, <1>5, <1>6, <1>7, <1>8, <1>9, <1>10 DEF Next, Handle

LEMMA CommitStep ==
  ASSUME TypeOK, HandlerOK, CommitOK, [Next]_vars
  PROVE  CommitOK'
<1>. USE DEF CommitOK, Done, Busy
<1>1. CASE Take
  BY <1>1 DEF Take, TypeOK, resultVars
<1>2. CASE Refuse
  <2>1. 1..position' \subseteq handled' \cup refused'
    BY <1>2 DEF Refuse, TypeOK
  <2>. QED
    BY <1>2, <2>1 DEF Refuse, TypeOK, handlerVars
<1>3. CASE Busy /\ Return /\ UNCHANGED <<position, refused>>
  <2>1. 1..position \subseteq handled' \cup refused'
    BY <1>3 DEF Return, TypeOK, HandlerOK
  <2>. QED
    BY <1>3, <2>1 DEF Return, TypeOK
<1>4. CASE Busy /\ Busy' /\ UNCHANGED <<position, stored, handled, refused>>
  BY <1>4
<1>5. CASE ~Busy /\ ~Busy' /\ UNCHANGED <<position, stored, handled, refused>>
  BY <1>5
<1>6. CASE Crash
  <2>1. position' = committed /\ stored' = committed /\ pc' = "poll" /\ UNCHANGED <<handled, refused>>
    BY <1>6 DEF Crash, Resume
  <2>2. committed <= Done
    BY DEF TypeOK
  <2>. QED
    BY <2>1, <2>2 DEF TypeOK
<1>7. CASE Skip \/ Announce
  BY <1>3, <1>7 DEF Skip, Announce
<1>8. CASE Configure \/ Send \/ SendFails
  BY <1>4, <1>8 DEF Configure, Send, SendFails, NextDocument, kafkaVars, resultVars
<1>9. CASE Add
  BY <1>4, <1>9, AddStep DEF Add, kafkaVars, resultVars
<1>10. CASE Store
  BY <1>3, <1>4, <1>10 DEF Store
<1>11. CASE Flush \/ Produce \/ CommitArrives \/ Shutdown \/ UNCHANGED vars
  <2>1. pc' = pc /\ UNCHANGED <<position, stored, handled, refused>>
    BY <1>11 DEF Flush, FlushTick, FlushTake, FlushSend, FlushFails, FlushEnd, Produce,
         CommitArrives, Shutdown, vars, kafkaVars, handlerVars, resultVars
  <2>. QED
    BY <2>1
<1>12. CASE StreamEnd \/ FinalFlush \/ Exit
  BY <1>5, <1>12 DEF StreamEnd, FinalFlush, Exit, kafkaVars, resultVars
<1>. QED
  BY <1>1, <1>2, <1>6, <1>7, <1>8, <1>9, <1>10, <1>11, <1>12 DEF Next, Handle

-----------------------------------------------------------------------------
(* Documents and their indexes.                                            *)

\* A request accepted by Meilisearch is recorded with its own engine and index.
LEMMA AcceptedOwn ==
  ASSUME NEW r \in Request, \A d \in r.docs : Belongs(d, r.engine, r.index)
  PROVE  \A x \in Accepted(r) : Belongs(x.doc, x.engine, x.index)
  BY DEF Accepted, Request

LEMMA OwnStep ==
  ASSUME TypeOK, HandlerOK, OwnDocs, OwnIndex, [Next]_vars
  PROVE  OwnDocs' /\ OwnIndex'
<1>1. CASE UNCHANGED <<pending, storages, sending, flushing, indexed>>
  BY <1>1 DEF OwnDocs, OwnIndex, Belongs
<1>2. CASE Configure \/ Store
  <2>1. \A e \in Engines : storages[e] # None => storages'[e] = storages[e]
    BY <1>2, CurrentPage DEF Configure, Store, GetStorage, TypeOK
  <2>2. UNCHANGED <<pending, flushing, indexed>> /\ sending' \in {sending, None}
    BY <1>2 DEF Configure, Store, Return, flusherVars, resultVars
  <2>. QED
    BY <2>1, <2>2 DEF OwnDocs, OwnIndex, Belongs
<1>3. CASE Add
  <2>. DEFINE e == Current.engine
              doc == <<position, left>>
              docs == pending[e] \cup {doc}
  <2>1. e \in Engines /\ storages[e] # None /\ Belongs(doc, e, Current.index)
    BY <1>3, CurrentPage DEF Add, HandlerOK, Busy, Belongs, Current
  <2>2. UNCHANGED <<storages, flushing, indexed>>
    BY <1>3 DEF Add, flusherVars, resultVars
  <2>3. ~IsDirect => \A d \in docs : Belongs(d, e, storages[e])
    BY <2>1 DEF IsDirect, OwnDocs
  <2>4. \/ pending' = pending
        \/ pending' = [pending EXCEPT ![e] = {}]
        \/ ~IsDirect /\ pending' = [pending EXCEPT ![e] = docs]
    BY <1>3 DEF Add
  <2>5. \/ sending' = sending
        \/ sending' = [engine |-> e, index |-> Current.index, docs |-> {doc}]
        \/ ~IsDirect /\ sending' = [engine |-> e, index |-> storages[e], docs |-> docs]
    BY <1>3 DEF Add
  <2>6. \A f \in Engines : \A d \in pending'[f] : storages[f] # None /\ Belongs(d, f, storages[f])
    <3>1. CASE pending' = pending
      BY <3>1 DEF OwnDocs
    <3>2. CASE pending' = [pending EXCEPT ![e] = {}]
      BY <3>2 DEF OwnDocs, TypeOK
    <3>3. CASE ~IsDirect /\ pending' = [pending EXCEPT ![e] = docs]
      BY <2>1, <2>3, <3>3 DEF OwnDocs, TypeOK
    <3>. QED
      BY <2>4, <3>1, <3>2, <3>3
  <2>7. sending' # None => \A d \in sending'.docs : Belongs(d, sending'.engine, sending'.index)
    BY <2>1, <2>3, <2>5 DEF OwnDocs
  <2>. QED
    BY <2>2, <2>6, <2>7 DEF OwnDocs, OwnIndex, Belongs
<1>4. CASE Send
  <2>1. sending \in Request /\ \A d \in sending.docs : Belongs(d, sending.engine, sending.index)
    BY <1>4 DEF Send, HandlerOK, TypeOK, OwnDocs
  <2>2. \A x \in Accepted(sending) : Belongs(x.doc, x.engine, x.index)
    BY <2>1, AcceptedOwn
  <2>. QED
    BY <1>4, <2>2 DEF Send, OwnDocs, OwnIndex, Belongs, flusherVars
<1>5. CASE FlushSend
  <2>1. flushing \in Request /\ \A d \in flushing.docs : Belongs(d, flushing.engine, flushing.index)
    BY <1>5 DEF FlushSend, TypeOK, OwnDocs
  <2>2. \A x \in Accepted(flushing) : Belongs(x.doc, x.engine, x.index)
    BY <2>1, AcceptedOwn
  <2>. QED
    BY <1>5, <2>2 DEF FlushSend, OwnDocs, OwnIndex, Belongs, handlerVars
<1>6. CASE SendFails \/ FlushFails \/ Skip \/ Announce
  <2>1. /\ UNCHANGED <<pending, storages, indexed>>
        /\ sending' \in {sending, None} /\ flushing' \in {flushing, None}
    BY <1>6 DEF SendFails, FlushFails, Skip, Announce, Return, flusherVars, handlerVars
  <2>. QED
    BY <2>1 DEF OwnDocs, OwnIndex, Belongs
<1>7. ASSUME NEW e \in Engines, FlushTake(e) PROVE OwnDocs' /\ OwnIndex'
  <2>1. \A f \in Engines : pending'[f] \subseteq pending[f]
    BY <1>7 DEF FlushTake, TypeOK
  <2>2. flushing' # None => \A d \in flushing'.docs : Belongs(d, flushing'.engine, flushing'.index)
    BY <1>7 DEF FlushTake, OwnDocs
  <2>3. UNCHANGED <<storages, sending, indexed>>
    BY <1>7 DEF FlushTake, handlerVars, resultVars
  <2>. QED
    BY <2>1, <2>2, <2>3 DEF OwnDocs, OwnIndex, Belongs
<1>8. CASE Crash
  BY <1>8 DEF Crash, OwnDocs, OwnIndex, Belongs
<1>9. CASE \/ Produce \/ CommitArrives \/ Shutdown \/ StreamEnd \/ FinalFlush \/ Exit
           \/ Take \/ Refuse \/ FlushTick \/ FlushEnd \/ UNCHANGED vars
  BY <1>1, <1>9 DEF Produce, CommitArrives, Shutdown, StreamEnd, FinalFlush, Exit, Take, Refuse,
     FlushTick, FlushEnd, vars, kafkaVars, handlerVars, flusherVars, resultVars
<1>. QED
  BY <1>2, <1>3, <1>4, <1>5, <1>6, <1>7, <1>8, <1>9 DEF Next, Handle, Flush

-----------------------------------------------------------------------------
(* No document is dropped.                                                 *)

LEMMA AcceptedDocs ==
  ASSUME NEW r, NEW d \in r.docs
  PROVE  \E x \in Accepted(r) : x.doc = d
<1>1. [engine |-> r.engine, index |-> r.index, doc |-> d] \in Accepted(r)
  BY DEF Accepted
<1>. QED
  BY <1>1

\* What a step makes of a document that was added.
LEMMA StaysAccounted ==
  ASSUME TypeOK, HandlerOK, OwnDocs, [Next]_vars, NEW d \in Accounted
  PROVE  d \in Accounted'
<1>0. lost \subseteq lost' /\ indexed \subseteq indexed'
  BY DEF Next, Produce, CommitArrives, Handle, Take, Refuse, Skip, Configure, Store, Add, Send,
     SendFails, Announce, Flush, FlushTick, FlushTake, FlushSend, FlushFails, FlushEnd, Shutdown,
     StreamEnd, FinalFlush, Exit, Crash, vars, resultVars
<1>1. CASE d \in lost \/ \E x \in indexed : x.doc = d
  BY <1>0, <1>1 DEF Accounted
<1>2. CASE d \in InMemory
  <2>1. CASE UNCHANGED <<pending, sending, flushing>>
    BY <1>2, <2>1 DEF Accounted, InMemory, InFlight
  <2>2. CASE Crash
    BY <1>2, <2>2 DEF Crash, Accounted
  <2>3. CASE \E x \in indexed' : x.doc = d
    BY <2>3 DEF Accounted
  <2>4. CASE d \in lost'
    BY <2>4 DEF Accounted
  <2>5. CASE d \in InMemory'
    BY <2>5 DEF Accounted
  <2>6. CASE Send \/ SendFails
    <3>1. UNCHANGED <<pending, flushing>> /\ sending # None
      BY <2>6 DEF Send, SendFails, HandlerOK, flusherVars
    <3>2. CASE d \in sending.docs
      BY <2>3, <2>4, <2>6, <3>1, <3>2, AcceptedDocs DEF Send, SendFails
    <3>3. CASE d \notin sending.docs
      BY <1>2, <2>5, <3>1, <3>3 DEF InMemory, InFlight
    <3>. QED
      BY <3>2, <3>3
  <2>7. CASE FlushSend \/ FlushFails
    <3>1. UNCHANGED <<pending, sending>> /\ flushing # None
      BY <2>7 DEF FlushSend, FlushFails, handlerVars
    <3>2. CASE d \in flushing.docs
      BY <2>3, <2>4, <2>7, <3>1, <3>2, AcceptedDocs DEF FlushSend, FlushFails
    <3>3. CASE d \notin flushing.docs
      BY <1>2, <2>5, <3>1, <3>3 DEF InMemory, InFlight
    <3>. QED
      BY <3>2, <3>3
  <2>8. CASE Add
    <3>. DEFINE e == Current.engine
                docs == pending[e] \cup {<<position, left>>}
    <3>1. e \in Engines /\ sending = None /\ UNCHANGED flushing
      BY <2>8, CurrentPage DEF Add, HandlerOK, Busy, flusherVars
    <3>2. \/ pending' = pending
          \/ pending' = [pending EXCEPT ![e] = docs] /\ sending' = sending
          \/ /\ pending' = [pending EXCEPT ![e] = {}]
             /\ sending' = [engine |-> e, index |-> storages[e], docs |-> docs]
      BY <2>8 DEF Add
    <3>3. CASE pending' = pending
      BY <1>2, <2>5, <3>1, <3>3 DEF InMemory, InFlight
    <3>4. CASE pending' = [pending EXCEPT ![e] = docs] /\ sending' = sending
      <4>1. \A f \in Engines : pending[f] \subseteq pending'[f]
        BY <3>4 DEF TypeOK
      <4>. QED
        BY <1>2, <2>5, <3>1, <3>4, <4>1 DEF InMemory, InFlight
    <3>5. CASE /\ pending' = [pending EXCEPT ![e] = {}]
               /\ sending' = [engine |-> e, index |-> storages[e], docs |-> docs]
      <4>0. storages[e] \in Indexes /\ docs \subseteq Doc
        BY <2>8, <3>1, CurrentPage DEF Add, HandlerOK, Busy, TypeOK, Doc
      <4>1. sending' # None
        BY <3>1, <3>5, <4>0, SomeRequest DEF Request
      <4>2. \A f \in Engines : f # e => pending'[f] = pending[f]
        BY <3>5 DEF TypeOK
      <4>3. InFlight(sending)' = docs
        BY <3>5, <4>1 DEF InFlight
      <4>. QED
        BY <1>2, <2>5, <3>1, <4>2, <4>3 DEF InMemory, InFlight
    <3>. QED
      BY <3>2, <3>3, <3>4, <3>5
  <2>9. ASSUME NEW e \in Engines, FlushTake(e) PROVE d \in Accounted'
    <3>1. flushing = None /\ UNCHANGED sending
      BY <2>9 DEF FlushTake, handlerVars
    <3>2. \A f \in Engines : f # e => pending'[f] = pending[f]
      BY <2>9 DEF FlushTake, TypeOK
    <3>3. CASE d \in pending[e]
      <4>1. flushing' = [engine |-> e, index |-> storages[e], docs |-> pending[e]]
        BY <2>9, <3>3 DEF FlushTake
      <4>2. storages[e] \in Indexes
        BY <3>3 DEF OwnDocs, TypeOK
      <4>3. flushing' # None
        BY <4>1, <4>2, SomeRequest DEF Request, TypeOK
      <4>. QED
        BY <2>5, <3>3, <4>1, <4>3 DEF InMemory, InFlight
    <3>4. CASE d \notin pending[e]
      BY <1>2, <2>5, <3>1, <3>2, <3>4 DEF InMemory, InFlight
    <3>. QED
      BY <3>3, <3>4
  <2>10. CASE Skip \/ Store \/ Announce
    <3>1. sending = None /\ sending' = None /\ UNCHANGED <<pending, flushing>>
      BY <2>10 DEF Skip, Store, Announce, Return, HandlerOK, flusherVars
    <3>. QED
      BY <2>1, <3>1
  <2>11. CASE \/ Produce \/ CommitArrives \/ Shutdown \/ StreamEnd \/ FinalFlush \/ Exit
              \/ Take \/ Refuse \/ Configure \/ FlushTick \/ FlushEnd \/ UNCHANGED vars
    BY <2>1, <2>11 DEF Produce, CommitArrives, Shutdown, StreamEnd, FinalFlush, Exit, Take, Refuse,
       Configure, FlushTick, FlushEnd, vars, kafkaVars, handlerVars, flusherVars, resultVars
  <2>. QED
    BY <2>2, <2>6, <2>7, <2>8, <2>9, <2>10, <2>11 DEF Next, Handle, Flush
<1>. QED
  BY <1>1, <1>2 DEF Accounted

LEMMA AccountStep ==
  ASSUME TypeOK, HandlerOK, OwnDocs, AccountOK, [Next]_vars
  PROVE  AccountOK'
<1>. DEFINE PageDone == \A n \in 1..Current.docs : <<position, n>> \in Accounted
<1>0. \A d \in Accounted : d \in Accounted'
  BY StaysAccounted
<1>1. pc = "announce" => PageDone
  BY DEF AccountOK, HandlerOK
<1>2. (acked' \subseteq acked) \/ (PageDone /\ acked' \subseteq acked \cup {position})
  BY <1>1 DEF Next, Produce, CommitArrives, Handle, Take, Refuse, Skip, Configure, Store, Add, Send,
     SendFails, Announce, Flush, FlushTick, FlushTake, FlushSend, FlushFails, FlushEnd, Shutdown,
     StreamEnd, FinalFlush, Exit, Crash, vars, resultVars
<1>3. \A k \in acked' : \A n \in 1..Pages[k].docs : <<k, n>> \in Accounted'
  BY <1>0, <1>2 DEF AccountOK, Current
<1>4. CASE pc' \notin {"add", "send", "announce"}
  BY <1>3, <1>4 DEF AccountOK
<1>5. CASE UNCHANGED <<pc, left, position>>
  BY <1>0, <1>3, <1>5 DEF AccountOK, Current
<1>6. CASE Store /\ pc' = "add"
  <2>1. left' = Current.docs /\ position' = position
    BY <1>6 DEF Store, Return
  <2>2. Current' = Current /\ Current.docs \in Nat
    BY <1>6, <2>1, CurrentPage DEF Store, Current, HandlerOK, Busy
  <2>3. (left' + 1)..Current'.docs = {}
    BY <2>1, <2>2
  <2>. QED
    BY <1>3, <1>6, <2>3 DEF AccountOK
<1>7. CASE Add
  <2>. DEFINE e == Current.engine
              docs == pending[e] \cup {<<position, left>>}
  <2>1. position' = position /\ pc = "add" /\ e \in Engines
    BY <1>7, CurrentPage DEF Add, kafkaVars, HandlerOK, Busy
  <2>2. <<position, left>> \in InMemory'
    <3>1. CASE pending' = [pending EXCEPT ![e] = docs]
      BY <2>1, <3>1 DEF InMemory, TypeOK
    <3>2. CASE sending' \in Request /\ <<position, left>> \in sending'.docs
      BY <3>2, SomeRequest DEF InMemory, InFlight
    <3>3. (pending' = [pending EXCEPT ![e] = docs]) \/ (<<position, left>> \in sending'.docs /\ ~NextDocument)
      BY <1>7, <2>1 DEF Add, NextDocument
    <3>. QED
      BY <1>7, <3>1, <3>2, <3>3, AddStep
  <2>3. <<position, left>> \in Accounted'
    BY <2>2 DEF Accounted
  <2>4. CASE pc' = "send" /\ left' = left
    BY <1>0, <1>3, <2>1, <2>3, <2>4 DEF AccountOK, Current
  <2>5. CASE NextDocument
    BY <1>0, <1>3, <2>1, <2>3, <2>5 DEF AccountOK, Current, NextDocument, TypeOK
  <2>. QED
    BY <1>7, <2>4, <2>5, AddStep
<1>8. CASE Send \/ SendFails
  <2>1. position' = position /\ pc = "send" /\ NextDocument
    BY <1>8 DEF Send, SendFails, kafkaVars
  <2>. QED
    BY <1>0, <1>3, <2>1 DEF AccountOK, Current, NextDocument, TypeOK
<1>9. CASE Flush \/ Produce \/ CommitArrives \/ Shutdown \/ Refuse \/ UNCHANGED vars
  <2>1. UNCHANGED <<pc, left, position>> \/ pc' = "poll"
    BY <1>9 DEF Flush, FlushTick, FlushTake, FlushSend, FlushFails, FlushEnd, Produce,
       CommitArrives, Shutdown, vars, kafkaVars, handlerVars, Refuse
  <2>. QED
    BY <1>4, <1>5, <2>1
<1>10. CASE Take \/ Skip \/ Configure \/ Announce \/ StreamEnd \/ FinalFlush \/ Exit \/ Crash
  BY <1>4, <1>10 DEF Take, Skip, Configure, Announce, Return, StreamEnd, FinalFlush, Exit, Crash
<1>11. CASE Store /\ pc' # "add"
  BY <1>4, <1>11 DEF Store, Return
<1>. QED
  BY <1>6, <1>7, <1>8, <1>9, <1>10, <1>11 DEF Next, Handle

-----------------------------------------------------------------------------
(* The end of the process, and the theorems.                               *)

LEMMA ClosingStep ==
  ASSUME TypeOK, HandlerOK, OwnDocs, ClosingOK, [Next]_vars
  PROVE  ClosingOK'
<1>. USE DEF ClosingOK
<1>1. CASE Handle
  <2>1. pc \notin {"flushing", "exited"} /\ pc' \notin {"flushing", "exited"}
    BY <1>1, NextDocumentStep DEF Handle, Take, Refuse, Skip, Configure, Store, Add, Send, SendFails,
       Announce, Return, NextDocument, handlerVars
  <2>2. UNCHANGED flusherVars
    BY <1>1 DEF Handle, Take, Refuse, Skip, Configure, Store, Add, Send, SendFails, Announce
  <2>. QED
    BY <2>1, <2>2 DEF flusherVars
<1>2. CASE FlushTick \/ FlushSend \/ FlushFails \/ FlushEnd
  BY <1>2 DEF FlushTick, FlushSend, FlushFails, FlushEnd, handlerVars
<1>3. ASSUME NEW e \in Engines, FlushTake(e) PROVE ClosingOK'
  <2>1. pending'[e] = {} /\ \A f \in Engines : pending'[f] \subseteq pending[f]
    BY <1>3 DEF FlushTake, TypeOK
  <2>2. flushPc' = flushPc /\ pc' = pc /\ flushTodo' = flushTodo \ {e} /\ flushPc \in {"flush", "final"}
    BY <1>3 DEF FlushTake, handlerVars
  <2>. QED
    BY <2>1, <2>2
<1>4. CASE Produce \/ CommitArrives \/ Shutdown \/ StreamEnd \/ UNCHANGED vars
  BY <1>4 DEF Produce, CommitArrives, Shutdown, StreamEnd, vars, handlerVars, flusherVars
<1>5. CASE FinalFlush
  <2>1. \A e \in Engines : pending[e] # {} => e \in Buffered
    BY DEF OwnDocs, Buffered
  <2>. QED
    BY <1>5, <2>1 DEF FinalFlush
<1>6. CASE Exit
  BY <1>6 DEF Exit
<1>7. CASE Crash
  BY <1>7 DEF Crash
<1>. QED
  BY <1>1, <1>2, <1>3, <1>4, <1>5, <1>6, <1>7 DEF Next, Flush

-----------------------------------------------------------------------------
(* How much a failure and a crash can lose.                                *)

AtMost(S, k) == IsFiniteSet(S) /\ Cardinality(S) <= k

\* How full the buffers and the requests are.
SizesOK ==
  /\ \A e \in Engines : AtMost(pending[e], BatchSize - 1)
  /\ sending # None => AtMost(sending.docs, BatchSize)
  /\ flushing # None => flushing.engine \in Engines /\ AtMost(flushing.docs, BatchSize - 1)

\* Only the page in hand refills the buffer that is being flushed, since the
\* flusher holds the lock that the next page would wait for; and while it
\* does, nothing of it is under way.
RefillOK ==
  flushing # None /\ pending[flushing.engine] # {} /\ pc \in {"add", "send"} =>
    pc = "add" /\ Current.engine = flushing.engine /\ ~IsDirect

\* What a crash loses.
CrashLoss == BatchSize + Cardinality(Engines) * (BatchSize - 1)

LossInv ==
  /\ SizesOK /\ RefillOK
  /\ IsFiniteSet(lost) /\ Cardinality(lost) <= failures * BatchSize + crashes * CrashLoss

LEMMA EmptyIsSmall ==
  ASSUME NEW k \in Nat
  PROVE  AtMost({}, k)
  BY FS_EmptySet DEF AtMost

LEMMA SubsetIsSmall ==
  ASSUME NEW S, NEW T, NEW k \in Nat, AtMost(S, k), T \subseteq S
  PROVE  AtMost(T, k)
<1>1. IsFiniteSet(T) /\ Cardinality(T) <= Cardinality(S)
  BY FS_Subset DEF AtMost
<1>2. Cardinality(T) \in Nat /\ Cardinality(S) \in Nat /\ Cardinality(S) <= k
  BY <1>1, FS_CardinalityType DEF AtMost
<1>. QED
  BY <1>1, <1>2 DEF AtMost

LEMMA UnionIsSmall ==
  ASSUME NEW S, NEW T, NEW k \in Nat, NEW n \in Nat, AtMost(S, k), AtMost(T, n)
  PROVE  AtMost(S \cup T, k + n)
<1>1. /\ IsFiniteSet(S \cup T)
      /\ Cardinality(S \cup T) = Cardinality(S) + Cardinality(T) - Cardinality(S \cap T)
  BY FS_Union DEF AtMost
<1>2. IsFiniteSet(S \cap T)
  BY FS_Subset DEF AtMost
<1>3. /\ Cardinality(S) \in Nat /\ Cardinality(T) \in Nat /\ Cardinality(S \cap T) \in Nat
      /\ Cardinality(S) <= k /\ Cardinality(T) <= n
  BY <1>2, FS_CardinalityType DEF AtMost
<1>. QED
  BY <1>1, <1>3 DEF AtMost

\* A family of small sets has a small union: numbers and indexes cover it.
LEMMA FamilyIsSmall ==
  ASSUME NEW S, IsFiniteSet(S), NEW k \in Nat, NEW g, \A e \in S : AtMost(g[e], k)
  PROVE  AtMost(UNION {g[e] : e \in S}, Cardinality(S) * k)
<1>. DEFINE U == UNION {g[e] : e \in S}
            Numbers(e) == 1..Cardinality(g[e])
            count == [e \in S |-> CHOOSE f : f \in Bijection(Numbers(e), g[e])]
            P == {p \in S \X (1..k) : p[2] \in Numbers(p[1])}
            cover == [p \in P |-> count[p[1]][p[2]]]
<1>1. ASSUME NEW e \in S
      PROVE  count[e] \in [Numbers(e) -> g[e]] /\ \A d \in g[e] : \E i \in Numbers(e) : count[e][i] = d
  <2>1. Bijection(Numbers(e), g[e]) # {}
    BY <1>1, FS_CardinalityType DEF ExistsBijection, AtMost
  <2>2. count[e] \in Bijection(Numbers(e), g[e])
    BY <2>1
  <2>. QED
    BY <2>2 DEF Bijection, Surjection
<1>2. /\ IsFiniteSet(1..k) /\ Cardinality(1..k) = k
      /\ IsFiniteSet(S \X (1..k)) /\ Cardinality(S \X (1..k)) = Cardinality(S) * Cardinality(1..k)
  <2>1. IsFiniteSet(1..k) /\ Cardinality(1..k) = k
    BY FS_Interval
  <2>. QED
    BY <2>1, FS_Product
<1>3. cover \in [P -> U]
  <2>1. ASSUME NEW p \in P PROVE count[p[1]][p[2]] \in U
    <3>1. p[1] \in S /\ p[2] \in Numbers(p[1])
      OBVIOUS
    <3>2. count[p[1]][p[2]] \in g[p[1]]
      <4>1. count[p[1]] \in [Numbers(p[1]) -> g[p[1]]]
        BY <1>1, <3>1
      <4>. HIDE DEF count
      <4>. QED
        BY <3>1, <4>1
    <3>. HIDE DEF count
    <3>. QED
      BY <3>1, <3>2
  <2>. QED
    BY <2>1
<1>4. \A d \in U : \E p \in P : cover[p] = d
  <2>. SUFFICES ASSUME NEW d \in U PROVE \E p \in P : cover[p] = d
    OBVIOUS
  <2>1. PICK e \in S : d \in g[e]
    OBVIOUS
  <2>2. PICK i \in Numbers(e) : count[e][i] = d
    BY <1>1, <2>1
  <2>3. Cardinality(g[e]) \in Nat /\ Cardinality(g[e]) <= k
    BY FS_CardinalityType DEF AtMost
  <2>4. <<e, i>> \in P
    BY <2>2, <2>3
  <2>5. cover[<<e, i>>] = d
    BY <2>2, <2>4
  <2>. QED
    BY <2>4, <2>5
<1>5. cover \in Surjection(P, U)
  BY <1>3, <1>4 DEF Surjection
<1>6. IsFiniteSet(P) /\ Cardinality(P) <= Cardinality(S \X (1..k))
  BY <1>2, FS_Subset
<1>7. IsFiniteSet(U) /\ Cardinality(U) <= Cardinality(P)
  BY <1>5, <1>6, FS_Surjection
<1>8. /\ Cardinality(U) \in Nat /\ Cardinality(P) \in Nat /\ Cardinality(S) \in Nat
      /\ Cardinality(S \X (1..k)) \in Nat
  BY <1>2, <1>6, <1>7, FS_CardinalityType
<1>9. Cardinality(U) <= Cardinality(S) * k
  <2>. HIDE DEF U, P
  <2>1. Cardinality(S \X (1..k)) = Cardinality(S) * k
    BY <1>2
  <2>. QED
    BY <1>6, <1>7, <1>8, <2>1
<1>. QED
  BY <1>7, <1>9 DEF AtMost

\* A crash loses at most a batch on its way and an incomplete one for every
\* engine, whether that is still in its buffer or being flushed.
LEMMA MemoryIsSmall ==
  ASSUME TypeOK, HandlerOK, SizesOK, RefillOK
  PROVE  AtMost(InMemory, CrashLoss)
<1>. DEFINE Share(e) == IF flushing # None /\ flushing.engine = e /\ pending[e] = {}
                        THEN flushing.docs ELSE pending[e]
            share == [e \in Engines |-> Share(e)]
            Shares == UNION {share[e] : e \in Engines}
            Rest == IF sending # None THEN sending.docs ELSE InFlight(flushing)
<1>1. BatchSize \in Nat /\ BatchSize - 1 \in Nat /\ IsFiniteSet(Engines) /\ Cardinality(Engines) \in Nat
  BY ContentWorkerAssumption, FS_CardinalityType
<1>2. \A e \in Engines : AtMost(share[e], BatchSize - 1)
  BY DEF SizesOK
<1>3. AtMost(Shares, Cardinality(Engines) * (BatchSize - 1))
  <2>. HIDE DEF share
  <2>. QED
    BY <1>1, <1>2, FamilyIsSmall
<1>4. AtMost(Rest, BatchSize)
  <2>1. CASE sending # None
    BY <2>1 DEF SizesOK
  <2>2. CASE sending = None /\ flushing # None
    <3>1. IsFiniteSet(flushing.docs) /\ Cardinality(flushing.docs) <= BatchSize - 1
      BY <2>2 DEF SizesOK, AtMost
    <3>2. Cardinality(flushing.docs) \in Nat
      BY <3>1, FS_CardinalityType
    <3>. QED
      BY <1>1, <2>2, <3>1, <3>2 DEF AtMost, InFlight
  <2>3. CASE sending = None /\ flushing = None
    BY <1>1, <2>3, EmptyIsSmall DEF InFlight
  <2>. QED
    BY <2>1, <2>2, <2>3
<1>5. InMemory \subseteq Rest \cup Shares
  <2>. SUFFICES ASSUME NEW d \in InMemory PROVE d \in Rest \/ d \in Shares
    OBVIOUS
  <2>1. CASE \E e \in Engines : d \in pending[e]
    BY <2>1
  <2>2. CASE d \in InFlight(sending)
    BY <2>2 DEF InFlight
  <2>3. CASE d \in InFlight(flushing)
    <3>1. flushing # None /\ flushing.engine \in Engines /\ d \in flushing.docs
      BY <2>3 DEF InFlight, SizesOK
    <3>2. CASE sending = None
      BY <2>3, <3>2
    <3>3. CASE sending # None
      <4>1. pending[flushing.engine] = {}
        BY <3>1, <3>3 DEF RefillOK, HandlerOK
      <4>. QED
        BY <3>1, <4>1
    <3>. QED
      BY <3>2, <3>3
  <2>. QED
    BY <2>1, <2>2, <2>3 DEF InMemory
<1>6. Cardinality(Engines) * (BatchSize - 1) \in Nat
  BY <1>1
<1>7. AtMost(Rest \cup Shares, CrashLoss)
  <2>. HIDE DEF Rest, Shares
  <2>. QED
    BY <1>1, <1>3, <1>4, <1>6, UnionIsSmall DEF CrashLoss
<1>8. CrashLoss \in Nat
  BY <1>1, <1>6 DEF CrashLoss
<1>. QED
  BY <1>5, <1>7, <1>8, SubsetIsSmall

LEMMA InitIsSmall == Init => LossInv
<1>. SUFFICES ASSUME Init PROVE LossInv
  OBVIOUS
<1>1. BatchSize - 1 \in Nat /\ BatchSize \in Nat /\ CrashLoss \in Nat
  <2>1. BatchSize \in Nat /\ BatchSize - 1 \in Nat /\ Cardinality(Engines) \in Nat
    BY ContentWorkerAssumption, FS_CardinalityType
  <2>. QED
    BY <2>1 DEF CrashLoss
<1>2. \A e \in Engines : AtMost(pending[e], BatchSize - 1)
  BY <1>1, EmptyIsSmall DEF Init
<1>3. IsFiniteSet(lost) /\ Cardinality(lost) = 0
  BY FS_EmptySet DEF Init
<1>4. failures * BatchSize + crashes * CrashLoss = 0
  <2>1. failures = 0 /\ crashes = 0
    BY DEF Init
  <2>. QED
    BY <1>1, <2>1
<1>. QED
  BY <1>2, <1>3, <1>4 DEF Init, LossInv, SizesOK, RefillOK

\* Without the lock, no page reaches its storage: the page that adds documents
\* during a flush was there before.
LEMMA RoomStep ==
  ASSUME TypeOK, HandlerOK, OwnDocs, ClosingOK, SizesOK, RefillOK, [Next]_vars
  PROVE  SizesOK' /\ RefillOK'
<1>0. BatchSize \in Nat /\ BatchSize - 1 \in Nat /\ BatchSize >= 1
  BY ContentWorkerAssumption
<1>1. CASE Add
  <2>. DEFINE e == Current.engine
              docs == pending[e] \cup {<<position, left>>}
  <2>1. /\ e \in Engines /\ pc = "add" /\ sending = None /\ UNCHANGED <<flushing, position, storages>>
        /\ Current' = Current
    BY <1>1, CurrentPage DEF Add, HandlerOK, Busy, flusherVars, kafkaVars, Current
  <2>2. IsFiniteSet(docs) /\ Cardinality(docs) \in Nat /\ Cardinality(docs) <= BatchSize
    <3>1. AtMost(pending[e], BatchSize - 1)
      BY <2>1 DEF SizesOK
    <3>2. AtMost({<<position, left>>}, 1)
      <4>1. IsFiniteSet({<<position, left>>}) /\ Cardinality({<<position, left>>}) = 1
        BY FS_Singleton
      <4>. QED
        BY <4>1 DEF AtMost
    <3>3. AtMost(docs, BatchSize - 1 + 1)
      BY <1>0, <3>1, <3>2, UnionIsSmall
    <3>. QED
      BY <1>0, <3>3, FS_CardinalityType DEF AtMost
  <2>3. CASE IsDirect /\ sending' = [engine |-> e, index |-> Current.index, docs |-> {<<position, left>>}]
                      /\ pc' = "send" /\ UNCHANGED pending
    <3>0. sending'.docs = {<<position, left>>}
      BY <2>3
    <3>1. AtMost(sending'.docs, BatchSize)
      <4>1. IsFiniteSet({<<position, left>>}) /\ Cardinality({<<position, left>>}) = 1
        BY FS_Singleton
      <4>. QED
        BY <1>0, <3>0, <4>1 DEF AtMost
    <3>2. SizesOK'
      BY <2>1, <2>3, <3>1 DEF SizesOK
    <3>3. flushing # None => pending[flushing.engine] = {}
      BY <2>1, <2>3 DEF RefillOK
    <3>. QED
      BY <2>1, <2>3, <3>2, <3>3 DEF RefillOK
  <2>4. CASE ~IsDirect /\ sending' = [engine |-> e, index |-> storages[e], docs |-> docs]
                       /\ pc' = "send" /\ pending' = [pending EXCEPT ![e] = {}]
    <3>1. AtMost(sending'.docs, BatchSize)
      BY <2>2, <2>4 DEF AtMost
    <3>2. \A f \in Engines : AtMost(pending'[f], BatchSize - 1)
      BY <1>0, <2>1, <2>4, EmptyIsSmall DEF SizesOK, TypeOK
    <3>3. flushing # None => pending'[flushing.engine] = {}
      BY <2>1, <2>4 DEF RefillOK, SizesOK, TypeOK
    <3>. QED
      BY <2>1, <3>1, <3>2, <3>3 DEF SizesOK, RefillOK
  <2>5. CASE ~IsDirect /\ ~FullBatch(docs) /\ pending' = [pending EXCEPT ![e] = docs]
                       /\ NextDocument /\ UNCHANGED sending
    <3>1. AtMost(docs, BatchSize - 1)
      BY <1>0, <2>2, <2>5 DEF FullBatch, AtMost
    <3>2. \A f \in Engines : AtMost(pending'[f], BatchSize - 1)
      BY <2>1, <2>5, <3>1 DEF SizesOK, TypeOK
    <3>3. SizesOK'
      BY <2>1, <2>5, <3>2 DEF SizesOK
    <3>4. IsDirect' = IsDirect
      BY <2>1 DEF IsDirect
    <3>5. pc' \in {"add", "announce"}
      BY <2>5 DEF NextDocument
    <3>6. flushing # None /\ pending'[flushing.engine] # {} => e = flushing.engine
      BY <2>1, <2>5 DEF RefillOK, SizesOK, TypeOK
    <3>. QED
      BY <2>1, <2>5, <3>3, <3>4, <3>5, <3>6 DEF RefillOK
  <2>. QED
    BY <1>1, <2>3, <2>4, <2>5 DEF Add
<1>2. CASE Send \/ SendFails
  <2>1. /\ UNCHANGED <<pending, flushing>> /\ sending' = None /\ pc = "send"
    BY <1>2 DEF Send, SendFails, flusherVars
  <2>2. flushing # None => pending[flushing.engine] = {}
    BY <2>1 DEF RefillOK
  <2>. QED
    BY <2>1, <2>2 DEF SizesOK, RefillOK
<1>3. CASE Store
  <2>1. UNCHANGED <<pending, flushing>> /\ sending' \in {sending, None}
    BY <1>3 DEF Store, Return, flusherVars
  <2>2. flushing = None
    BY <1>3 DEF Store, GetStorage, ClosingOK, TypeOK
  <2>. QED
    BY <2>1, <2>2 DEF SizesOK, RefillOK
<1>4. ASSUME NEW e \in Engines, FlushTake(e) PROVE SizesOK' /\ RefillOK'
  <2>1. pending' = [pending EXCEPT ![e] = {}] /\ UNCHANGED handlerVars
    BY <1>4 DEF FlushTake
  <2>2. \A f \in Engines : AtMost(pending'[f], BatchSize - 1)
    BY <1>0, <2>1, EmptyIsSmall DEF SizesOK, TypeOK
  <2>3. flushing' # None => flushing'.engine = e /\ flushing'.docs = pending[e]
    BY <1>4 DEF FlushTake
  <2>4. pending'[e] = {}
    BY <2>1 DEF TypeOK
  <2>. QED
    BY <2>1, <2>2, <2>3, <2>4 DEF SizesOK, RefillOK, handlerVars
<1>5. CASE FlushSend \/ FlushFails
  <2>1. UNCHANGED <<pending, sending>> /\ flushing' = None
    BY <1>5 DEF FlushSend, FlushFails, handlerVars
  <2>. QED
    BY <2>1 DEF SizesOK, RefillOK
<1>6. CASE Crash
  <2>1. pending' = [f \in Engines |-> {}] /\ sending' = None /\ flushing' = None
    BY <1>6 DEF Crash
  <2>2. \A f \in Engines : AtMost(pending'[f], BatchSize - 1)
    BY <1>0, <2>1, EmptyIsSmall
  <2>. QED
    BY <2>1, <2>2 DEF SizesOK, RefillOK
<1>7. CASE /\ UNCHANGED <<pending, flushing>> /\ sending' \in {sending, None}
           /\ pc' \notin {"add", "send"}
  BY <1>7 DEF SizesOK, RefillOK
<1>8. CASE UNCHANGED <<pending, flushing, sending, pc, position, storages>>
  <2>1. IsDirect' = IsDirect /\ Current' = Current
    BY <1>8 DEF IsDirect, Current
  <2>. QED
    BY <1>8, <2>1 DEF SizesOK, RefillOK
<1>9. CASE \/ Take \/ Skip \/ Configure \/ Announce \/ StreamEnd \/ FinalFlush \/ Exit
  BY <1>7, <1>9 DEF Take, Skip, Configure, Announce, Return, StreamEnd, FinalFlush, Exit, flusherVars
<1>10. CASE Refuse
  BY <1>7, <1>10 DEF Refuse, handlerVars, flusherVars
<1>11. CASE Produce \/ CommitArrives \/ Shutdown \/ FlushTick \/ FlushEnd \/ UNCHANGED vars
  BY <1>8, <1>11 DEF Produce, CommitArrives, Shutdown, FlushTick, FlushEnd, vars, kafkaVars,
     handlerVars, flusherVars
<1>. QED
  BY <1>1, <1>2, <1>3, <1>4, <1>5, <1>6, <1>9, <1>10, <1>11 DEF Next, Handle, Flush

\* A failure adds at most a batch to what is lost, a crash what was in memory.
LEMMA LossStep ==
  ASSUME TypeOK, HandlerOK, OwnDocs, ClosingOK, LossInv, [Next]_vars
  PROVE  LossInv'
<1>0. /\ BatchSize \in Nat /\ BatchSize - 1 \in Nat /\ CrashLoss \in Nat
      /\ failures \in Nat /\ crashes \in Nat
  <2>1. BatchSize \in Nat /\ BatchSize - 1 \in Nat /\ Cardinality(Engines) \in Nat
    BY ContentWorkerAssumption, FS_CardinalityType
  <2>. QED
    BY <2>1, ContentWorkerAssumption DEF CrashLoss, TypeOK
<1>1. SizesOK' /\ RefillOK'
  BY RoomStep DEF LossInv
<1>. DEFINE Bound(f, c) == f * BatchSize + c * CrashLoss
<1>2. \A f, c \in Nat : /\ Bound(f, c) \in Nat /\ Bound(f + 1, c) = Bound(f, c) + BatchSize
                        /\ Bound(f, c + 1) = Bound(f, c) + CrashLoss
  <2>. HIDE DEF CrashLoss
  <2>1. \A a, b \in Nat : a * b \in Nat /\ (a + 1) * b = a * b + b
    OBVIOUS
  <2>. QED
    BY <1>0, <2>1
<1>3. AtMost(lost, Bound(failures, crashes))
  BY DEF LossInv, AtMost
<1>. HIDE DEF Bound
<1>4. AtMost(lost', Bound(failures', crashes'))
  <2>1. CASE lost' = lost /\ failures' \in {failures, failures + 1} /\ crashes' = crashes
    <3>1. Cardinality(lost) \in Nat
      BY <1>3, FS_CardinalityType DEF AtMost
    <3>. QED
      <4>0. failures' \in Nat /\ crashes' \in Nat
        BY <1>0, <2>1
      <4>1. Bound(failures, crashes) \in Nat /\ Bound(failures', crashes') \in Nat
        BY <1>0, <1>2, <4>0
      <4>2. Bound(failures, crashes) <= Bound(failures', crashes')
        <5>1. CASE failures' = failures
          BY <2>1, <4>1, <5>1
        <5>2. CASE failures' = failures + 1
          BY <1>0, <1>2, <2>1, <4>1, <5>2
        <5>. QED
          BY <2>1, <5>1, <5>2
      <4>. QED
        BY <1>3, <2>1, <3>1, <4>1, <4>2 DEF AtMost
  <2>2. ASSUME NEW docs, AtMost(docs, BatchSize), lost' = lost \cup docs,
               failures' = failures + 1, crashes' = crashes
        PROVE  AtMost(lost', Bound(failures', crashes'))
    BY <1>0, <1>2, <1>3, <2>2, UnionIsSmall
  <2>3. CASE SendFails
    <3>1. AtMost(sending.docs, BatchSize)
      BY <2>3 DEF SendFails, HandlerOK, LossInv, SizesOK
    <3>. QED
      BY <2>2, <2>3, <3>1 DEF SendFails, Fail
  <2>4. CASE FlushFails
    <3>1. AtMost(flushing.docs, BatchSize - 1)
      BY <2>4 DEF FlushFails, LossInv, SizesOK
    <3>2. Cardinality(flushing.docs) \in Nat
      BY <3>1, FS_CardinalityType DEF AtMost
    <3>3. AtMost(flushing.docs, BatchSize)
      BY <1>0, <3>1, <3>2 DEF AtMost
    <3>. QED
      BY <2>2, <2>4, <3>3 DEF FlushFails, Fail
  <2>5. CASE Crash
    <3>1. AtMost(InMemory, CrashLoss)
      BY MemoryIsSmall DEF LossInv
    <3>2. lost' = lost \cup InMemory /\ failures' = failures /\ crashes' = crashes + 1
      BY <2>5 DEF Crash
    <3>. QED
      BY <1>0, <1>2, <1>3, <3>1, <3>2, UnionIsSmall
  <2>6. CASE Configure \/ Store \/ Announce
    BY <2>1, <2>6 DEF Configure, Store, Announce, GetStorage, Fail, resultVars
  <2>7. CASE \/ Produce \/ CommitArrives \/ Take \/ Refuse \/ Skip \/ Add \/ Send
             \/ (Flush /\ ~FlushFails)
             \/ Shutdown \/ StreamEnd \/ FinalFlush \/ Exit \/ UNCHANGED vars
    <3>1. lost' = lost /\ failures' = failures /\ crashes' = crashes
      BY <2>7 DEF Produce, CommitArrives, Take, Refuse, Skip, Add, Send, Flush, FlushTick, FlushTake,
         FlushSend, FlushEnd, Shutdown, StreamEnd, FinalFlush, Exit, vars, faultVars, resultVars
    <3>. QED
      BY <2>1, <3>1
  <2>. QED
    BY <2>3, <2>4, <2>5, <2>6, <2>7 DEF Next, Handle, Flush
<1>5. CrashLoss' = CrashLoss
  BY DEF CrashLoss
<1>. QED
  BY <1>1, <1>4, <1>5 DEF LossInv, AtMost, Bound

LEMMA InitEstablishes == Init => IInv
<1>. SUFFICES ASSUME Init PROVE IInv
  OBVIOUS
<1>1. TypeOK
  BY InitIsTyped
<1>2. HandlerOK /\ CommitOK
  BY DEF Init, HandlerOK, CommitOK, Done, Busy
<1>3. OwnDocs /\ OwnIndex
  BY DEF Init, OwnDocs, OwnIndex
<1>4. AccountOK /\ ClosingOK
  BY DEF Init, AccountOK, ClosingOK
<1>. QED
  BY <1>1, <1>2, <1>3, <1>4 DEF IInv

\* The invariant of the worker: it is inductive.
THEOREM Invariance == Spec => []IInv
<1>1. Init => IInv
  BY InitEstablishes
<1>2. IInv /\ [Next]_vars => IInv'
  BY StepIsTyped, HandlerStep, CommitStep, OwnStep, AccountStep, ClosingStep DEF IInv
<1>. QED
  BY <1>1, <1>2, PTL DEF Spec

\* Every variable of the content worker keeps its type, and commits never run
\* ahead of deliveries.
THEOREM TypeCorrect == Spec => []TypeOK
<1>1. IInv => TypeOK
  BY DEF IInv
<1>. QED
  BY <1>1, Invariance, PTL

\* Whatever jobs share a storage, a document reaches the engine and the index
\* of its own page.
THEOREM ReachesOwnIndex == Spec => []OwnIndex
<1>1. IInv => OwnIndex
  BY DEF IInv
<1>. QED
  BY <1>1, Invariance, PTL

\* Nothing is committed before its handler returned.
THEOREM CommitsFollowHandling == Spec => []CommittedIsHandled
<1>1. IInv => CommittedIsHandled
  <2>. SUFFICES ASSUME IInv PROVE CommittedIsHandled
    OBVIOUS
  <2>1. committed <= stored /\ committed \in Nat /\ stored \in Nat /\ Done \in Int
    BY DEF IInv, TypeOK, Done
  <2>2. stored <= Done /\ 1..Done \subseteq handled \cup refused
    BY DEF IInv, CommitOK
  <2>3. 1..committed \subseteq 1..Done
    BY <2>1, <2>2
  <2>. QED
    BY <2>2, <2>3 DEF CommittedIsHandled
<1>. QED
  BY <1>1, Invariance, PTL

\* No interleaving of handler, flusher, failures and crashes forgets a document
\* of an announced page.
THEOREM ForgetsNothing == Spec => []NothingForgotten
<1>1. IInv => NothingForgotten
  <2>. SUFFICES ASSUME IInv, NEW k \in acked, NEW n \in 1..Pages[k].docs
                PROVE  <<k, n>> \in InMemory \cup lost \/ \E x \in indexed : x.doc = <<k, n>>
    BY DEF NothingForgotten
  <2>. QED
    BY DEF IInv, AccountOK, Accounted
<1>. QED
  BY <1>1, Invariance, PTL

\* A worker that exits has nothing left in memory.
THEOREM ExitsClean == Spec => []ExitIsClean
<1>1. IInv => ExitIsClean
  BY DEF IInv, HandlerOK, ClosingOK, ExitIsClean, InMemory, InFlight
<1>. QED
  BY <1>1, Invariance, PTL

\* A failed request loses at most a batch, a crash at most a batch and an
\* incomplete one for each engine, however handler and flusher interleave.
THEOREM LossesAreBounded == Spec => []LossIsBounded
<1>1. Init => LossInv
  BY InitIsSmall
<1>2. IInv /\ LossInv /\ [Next]_vars => LossInv'
  BY LossStep DEF IInv
<1>3. LossInv => LossIsBounded
  BY DEF LossInv, LossIsBounded, CrashLoss
<1>. QED
  BY <1>1, <1>2, <1>3, Invariance, PTL DEF Spec
=============================================================================
