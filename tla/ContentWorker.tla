---------------------------- MODULE ContentWorker ---------------------------
(***************************************************************************)
(* The content worker (bins/scrapix-worker-content/src/lib.rs) between its *)
(* Kafka topic (crates/scrapix-queue/src/consumer.rs) and the Meilisearch  *)
(* instances it writes to (crates/scrapix-storage/src/meilisearch.rs).     *)
(*                                                                         *)
(* Two tasks share the storages, one per Meilisearch account:              *)
(*   handler   takes raw pages one by one, turns each into documents, and  *)
(*             adds them to a storage, which buffers them;                 *)
(*   flusher   every 5 s sends what the storages hold, under the lock of   *)
(*             the storage map.                                            *)
(* The process may be told to stop, and may crash: Kafka then delivers     *)
(* again from the last committed offset.                                   *)
(*                                                                         *)
(* Abstractions.  A page is its offset in PAGES_RAW; Pages says where its  *)
(* documents belong, how many it yields (none when it does not parse or    *)
(* has no content, several when it is split) and whether it resembles an   *)
(* earlier page, which the detector, emptied by a crash, need not recall.  *)
(* A document is a pair <<offset, number>>.  A page without an engine's    *)
(* URL is one whose storage cannot be made.  Submitting documents is one   *)
(* request, which fails or is accepted: Meilisearch indexes them later.    *)
(* AI enrichment and the optional DOCUMENTS and history topics change no   *)
(* state here.                                                             *)
(*                                                                         *)
(* A definition named ...Mutant is the one that follows it with a bug: a   *)
(* run in which it takes the other's place must break a property.          *)
(***************************************************************************)
EXTENDS Integers, Sequences, FiniteSets

CONSTANTS
  Engines,      \* pairs of Meilisearch URL and key
  Indexes,
  None,         \* no index, no request
  Pages,        \* what the topic will carry
  BatchSize,    \* config.batch_size
  StreamMayEnd, \* FALSE: both buses keep the stream open while the process lives
  MayShutdown,  \* whether the flag may be set: SIGTERM, Ctrl-C, idle watchdog
  MaxFailures,  \* bound: requests that fail
  MaxCrashes    \* bound: crashes of the process

Page == [engine : Engines, index : Indexes, docs : Nat, near : BOOLEAN]

Offsets == 1..Len(Pages)

Doc == Offsets \X Nat

Request == [engine : Engines, index : Indexes, docs : SUBSET Doc]

ASSUME ContentWorkerAssumption ==
  /\ Pages \in Seq(Page) /\ IsFiniteSet(Engines)
  /\ None \notin Indexes /\ None \notin Request
  /\ BatchSize \in Nat \ {0}
  /\ StreamMayEnd \in BOOLEAN /\ MayShutdown \in BOOLEAN
  /\ MaxFailures \in Nat /\ MaxCrashes \in Nat

VARIABLES
  produced,    \* pages on the topic
  committed,   \* offset committed at the broker
  stored,      \* offset whose commit the consumer has issued
  position,    \* last offset delivered to the worker
  pc,          \* where the handler is
  left,        \* documents of the page still to add
  anyIndexed,  \* whether one was accepted
  sending,     \* the handler's request
  configured,  \* feature_configured_indexes
  storages,    \* storage_cache: engine -> index its storage is bound to, or None
  pending,     \* engine -> pending_docs of its storage
  flushPc, flushTodo, flushing,   \* the flusher, storages to flush, its request
  shutdown,
  failures, crashes,
  indexed,     \* documents accepted, with engine and index
  lost,        \* documents of failed requests, or in memory at a crash
  acked,       \* pages announced by DocumentIndexed
  handled, refused                \* pages whose handler ran, or refused to

kafkaVars   == <<produced, committed, stored, position>>
handlerVars == <<pc, left, anyIndexed, sending, configured>>
flusherVars == <<flushPc, flushTodo, flushing>>
faultVars   == <<shutdown, failures, crashes>>
resultVars  == <<indexed, lost, acked, handled, refused>>
vars == <<kafkaVars, handlerVars, storages, pending, flusherVars, faultVars, resultVars>>

Current == Pages[position]

Init ==
  /\ produced = 0 /\ committed = 0 /\ stored = 0 /\ position = 0
  /\ pc = "poll" /\ left = 0 /\ anyIndexed = FALSE /\ sending = None
  /\ configured = {} /\ storages = [e \in Engines |-> None]
  /\ pending = [e \in Engines |-> {}]
  /\ flushPc = "sleep" /\ flushTodo = {} /\ flushing = None
  /\ shutdown = FALSE /\ failures = 0 /\ crashes = 0
  /\ indexed = {} /\ lost = {} /\ acked = {} /\ handled = {} /\ refused = {}

Fail == failures < MaxFailures /\ failures' = failures + 1

-----------------------------------------------------------------------------
(* The topic.                                                              *)

Produce ==
  /\ produced < Len(Pages)
  /\ produced' = produced + 1
  /\ UNCHANGED <<committed, stored, position, handlerVars, storages, pending,
                 flusherVars, faultVars, resultVars>>

(* Commits are asynchronous, and a later one covers an earlier one.        *)
CommitArrives ==
  /\ committed < stored
  /\ committed' = stored
  /\ UNCHANGED <<produced, stored, position, handlerVars, storages, pending,
                 flusherVars, faultVars, resultVars>>

-----------------------------------------------------------------------------
(* The handler: the closure of process_messages, called by the consumer's  *)
(* `process` on one message after the other.                               *)

Take ==
  /\ pc = "poll" /\ position < produced /\ ~shutdown
  /\ position' = position + 1
  /\ pc' = "configure"
  /\ UNCHANGED <<produced, committed, stored, left, anyIndexed, sending, configured,
                 storages, pending, flusherVars, faultVars, resultVars>>

(* The handler of a worker that is stopping returns an error, which        *)
(* `process` logs before it commits the message.                           *)
Refuse ==
  /\ pc = "poll" /\ position < produced /\ shutdown
  /\ position' = position + 1 /\ stored' = position + 1
  /\ refused' = refused \cup {position + 1}
  /\ UNCHANGED <<produced, committed, handlerVars, storages, pending, flusherVars,
                 faultVars, indexed, lost, acked, handled>>

(* The handler returns, with or without an error: the offset is committed. *)
Return ==
  /\ pc' = "poll" /\ left' = 0 /\ anyIndexed' = FALSE /\ sending' = None
  /\ handled' = handled \cup {position}
  /\ stored' = position

(* A page without documents, or a near-duplicate, found so before or after *)
(* its index is configured.                                                *)
Skip ==
  /\ pc \in {"configure", "store"} /\ (Current.docs = 0 \/ Current.near)
  /\ Return
  /\ UNCHANGED <<produced, committed, position, configured, storages, pending,
                 flusherVars, faultVars, indexed, lost, acked, refused>>

(* get_storage, under the lock of the storage map: the storage is made for *)
(* the first page of an engine, and bound to that page's index.            *)
GetStorage ==
  LET e == Current.engine IN
  /\ flushPc \notin {"flush", "final"}
  /\ \/ storages[e] # None /\ UNCHANGED <<storages, failures>>
     \/ /\ storages[e] = None
        /\ storages' = [storages EXCEPT ![e] = Current.index]
        /\ UNCHANGED failures
     \/ storages[e] = None /\ Fail /\ UNCHANGED storages

(* The index is configured once, whether or not there was a storage.       *)
Configure ==
  /\ pc = "configure"
  /\ IF Current.index \in configured
     THEN UNCHANGED <<configured, storages, failures>>
     ELSE configured' = configured \cup {Current.index} /\ GetStorage
  /\ pc' = "store"
  /\ UNCHANGED <<kafkaVars, left, anyIndexed, sending, pending, flusherVars,
                 shutdown, crashes, resultVars>>

(* Without a storage nothing is indexed, and the page is done.             *)
Store ==
  /\ pc = "store" /\ Current.docs > 0
  /\ GetStorage
  /\ \/ /\ storages'[Current.engine] # None
        /\ pc' = "add" /\ left' = Current.docs
        /\ UNCHANGED <<anyIndexed, sending, handled, stored>>
     \/ /\ storages'[Current.engine] = None
        /\ Return
  /\ UNCHANGED <<produced, committed, position, configured, pending, flusherVars,
                 shutdown, crashes, indexed, lost, acked, refused>>

NextDocument ==
  /\ left' = left - 1
  /\ pc' = IF left > 1 THEN "add" ELSE "announce"

IsDirect_Mutant == FALSE

IsDirect == Current.index # storages[Current.engine]

FullBatch_Mutant(docs) == FALSE

FullBatch(docs) == Cardinality(docs) >= BatchSize

(* add_document_to_index: to the buffer, or, when the index is not the     *)
(* storage's own, in a request of its own.                                 *)
Add ==
  LET e    == Current.engine
      doc  == <<position, left>>
      docs == pending[e] \cup {doc}
      Submit(index, which) ==
        sending' = [engine |-> e, index |-> index, docs |-> which] /\ pc' = "send"
  IN
  /\ pc = "add"
  /\ \/ /\ IsDirect
        /\ Submit(Current.index, {doc})
        /\ UNCHANGED <<pending, left, anyIndexed>>
     \/ /\ ~IsDirect /\ FullBatch(docs)
        /\ pending' = [pending EXCEPT ![e] = {}]
        /\ Submit(storages[e], docs)
        /\ UNCHANGED <<left, anyIndexed>>
     \/ /\ ~IsDirect /\ ~FullBatch(docs)
        /\ pending' = [pending EXCEPT ![e] = docs]
        /\ anyIndexed' = TRUE
        /\ NextDocument
        /\ UNCHANGED sending
  /\ UNCHANGED <<kafkaVars, configured, storages, flusherVars, faultVars, resultVars>>

Accepted(request) ==
  {[engine |-> request.engine, index |-> request.index, doc |-> d] : d \in request.docs}

Send ==
  /\ pc = "send"
  /\ indexed' = indexed \cup Accepted(sending)
  /\ sending' = None /\ anyIndexed' = TRUE
  /\ NextDocument
  /\ UNCHANGED <<kafkaVars, configured, storages, pending, flusherVars, faultVars,
                 lost, acked, handled, refused>>

(* The documents of a batch that fails are dropped, those of earlier,      *)
(* already announced pages included.                                       *)
SendFails ==
  /\ pc = "send" /\ Fail
  /\ lost' = lost \cup sending.docs
  /\ sending' = None
  /\ NextDocument
  /\ UNCHANGED <<kafkaVars, anyIndexed, configured, storages, pending, flusherVars,
                 shutdown, crashes, indexed, acked, handled, refused>>

(* DocumentIndexed, if a document was buffered or accepted.  The event may *)
(* itself fail to be sent.                                                 *)
Announce ==
  /\ pc = "announce"
  /\ \/ acked' = (IF anyIndexed THEN acked \cup {position} ELSE acked) /\ UNCHANGED failures
     \/ anyIndexed /\ Fail /\ UNCHANGED acked
  /\ Return
  /\ UNCHANGED <<produced, committed, position, configured, storages, pending,
                 flusherVars, shutdown, crashes, indexed, lost, refused>>

-----------------------------------------------------------------------------
(* The flusher: flush_all_storages, holding the map's lock.                *)

Buffered == {e \in Engines : storages[e] # None}

Due == Buffered

FlushTick ==
  /\ flushPc = "sleep"
  /\ flushPc' = "flush" /\ flushTodo' = Due
  /\ UNCHANGED <<kafkaVars, handlerVars, storages, pending, flushing, faultVars, resultVars>>

FlushTake(e) ==
  /\ flushPc \in {"flush", "final"} /\ flushing = None /\ e \in flushTodo
  /\ flushTodo' = flushTodo \ {e}
  /\ pending' = [pending EXCEPT ![e] = {}]
  /\ flushing' = IF pending[e] = {} THEN None
                 ELSE [engine |-> e, index |-> storages[e], docs |-> pending[e]]
  /\ UNCHANGED <<kafkaVars, handlerVars, storages, flushPc, faultVars, resultVars>>

FlushSend_Mutant ==
  /\ flushing # None
  /\ indexed' = indexed \cup Accepted(flushing)
  /\ pending' = [pending EXCEPT ![flushing.engine] = {}]
  /\ flushing' = None
  /\ UNCHANGED <<kafkaVars, handlerVars, storages, flushPc, flushTodo, faultVars,
                 lost, acked, handled, refused>>

FlushSend ==
  /\ flushing # None
  /\ indexed' = indexed \cup Accepted(flushing)
  /\ flushing' = None
  /\ UNCHANGED <<kafkaVars, handlerVars, storages, pending, flushPc, flushTodo,
                 faultVars, lost, acked, handled, refused>>

FlushFails ==
  /\ flushing # None /\ Fail
  /\ lost' = lost \cup flushing.docs
  /\ flushing' = None
  /\ UNCHANGED <<kafkaVars, handlerVars, storages, pending, flushPc, flushTodo,
                 shutdown, crashes, indexed, acked, handled, refused>>

FlushEnd ==
  /\ flushPc = "flush" /\ flushTodo = {} /\ flushing = None
  /\ flushPc' = IF shutdown THEN "stopped" ELSE "sleep"
  /\ UNCHANGED <<kafkaVars, handlerVars, storages, pending, flushTodo, flushing,
                 faultVars, resultVars>>

-----------------------------------------------------------------------------
(* The end of the process.                                                 *)

(* SIGTERM, Ctrl-C or the idle watchdog set the flag, which only the       *)
(* handler and the flusher read.                                           *)
Shutdown ==
  /\ MayShutdown /\ ~shutdown
  /\ shutdown' = TRUE
  /\ UNCHANGED <<kafkaVars, handlerVars, storages, pending, flusherVars, failures,
                 crashes, resultVars>>

(* The loop of `process` ends with its stream and in no other way.         *)
StreamEnd ==
  /\ StreamMayEnd /\ pc = "poll"
  /\ pc' = "closing" /\ shutdown' = TRUE
  /\ UNCHANGED <<kafkaVars, left, anyIndexed, sending, configured, storages, pending,
                 flusherVars, failures, crashes, resultVars>>

(* run waits for the flusher, and then flushes once more itself.           *)
FinalFlush ==
  /\ pc = "closing" /\ flushPc = "stopped"
  /\ pc' = "flushing" /\ flushPc' = "final" /\ flushTodo' = Buffered
  /\ UNCHANGED <<kafkaVars, left, anyIndexed, sending, configured, storages, pending,
                 flushing, faultVars, resultVars>>

Exit ==
  /\ pc = "flushing" /\ flushTodo = {} /\ flushing = None
  /\ flushPc' = "stopped" /\ pc' = "exited"
  /\ UNCHANGED <<kafkaVars, left, anyIndexed, sending, configured, storages, pending,
                 flushTodo, flushing, faultVars, resultVars>>

InFlight(request) == IF request = None THEN {} ELSE request.docs

InMemory == (UNION {pending[e] : e \in Engines}) \cup InFlight(sending) \cup InFlight(flushing)

Resume_Mutant == position

Resume == committed

(* The process is killed, and started again: Kafka delivers from the       *)
(* committed offset.                                                       *)
Crash ==
  /\ crashes < MaxCrashes /\ pc # "exited"
  /\ crashes' = crashes + 1
  /\ position' = Resume /\ stored' = committed
  /\ pc' = "poll" /\ left' = 0 /\ anyIndexed' = FALSE /\ sending' = None
  /\ configured' = {} /\ storages' = [e \in Engines |-> None]
  /\ pending' = [e \in Engines |-> {}]
  /\ flushPc' = "sleep" /\ flushTodo' = {} /\ flushing' = None
  /\ shutdown' = FALSE
  /\ lost' = lost \cup InMemory
  /\ UNCHANGED <<produced, committed, failures, indexed, acked, handled, refused>>

-----------------------------------------------------------------------------
Handle ==
  \/ Take \/ Refuse \/ Skip \/ Configure \/ Store
  \/ Add \/ Send \/ SendFails \/ Announce

Flush ==
  \/ FlushTick \/ (\E e \in Engines : FlushTake(e))
  \/ FlushSend \/ FlushFails \/ FlushEnd

Next ==
  \/ Produce \/ CommitArrives
  \/ Handle \/ Flush
  \/ Shutdown \/ StreamEnd \/ FinalFlush \/ Exit \/ Crash

(* A task that can go on does.  The handler may have to wait for the map's *)
(* lock, which tokio's mutex hands out in order: it is not overtaken       *)
(* forever by the next flush.                                              *)
Spec ==
  /\ Init /\ [][Next]_vars
  /\ SF_vars(Handle) /\ WF_vars(Flush) /\ WF_vars(FinalFlush) /\ WF_vars(Exit)

-----------------------------------------------------------------------------
Entry == [engine : Engines, index : Indexes, doc : Doc]

(* Every variable has its type, and the offsets are in order: the broker   *)
(* never holds a commit ahead of the consumer, nor the consumer one ahead  *)
(* of what was delivered.                                                  *)
TypeOK ==
  /\ produced \in 0..Len(Pages) /\ position \in 0..produced
  /\ stored \in 0..position /\ committed \in 0..stored
  /\ pc \in {"poll", "configure", "store", "add", "send", "announce",
             "closing", "flushing", "exited"}
  /\ left \in Nat /\ anyIndexed \in BOOLEAN
  /\ sending \in Request \cup {None} /\ flushing \in Request \cup {None}
  /\ configured \subseteq Indexes
  /\ storages \in [Engines -> Indexes \cup {None}]
  /\ pending \in [Engines -> SUBSET Doc]
  /\ flushPc \in {"sleep", "flush", "final", "stopped"} /\ flushTodo \subseteq Engines
  /\ shutdown \in BOOLEAN
  /\ failures \in 0..MaxFailures /\ crashes \in 0..MaxCrashes
  /\ indexed \subseteq Entry /\ lost \subseteq Doc
  /\ acked \subseteq Offsets /\ handled \subseteq Offsets /\ refused \subseteq Offsets

(* A storage is bound to the first index it was asked for and shared by    *)
(* all of an account's jobs; yet no document, buffered, flushed or sent on *)
(* its own, ever reaches an engine or an index other than its page's.      *)
OwnIndex ==
  \A x \in indexed :
    /\ Pages[x.doc[1]].engine = x.engine
    /\ Pages[x.doc[1]].index = x.index

(* The documents of a page announced as indexed were submitted, or are     *)
(* still in memory on their way, or went down with a failed request or a   *)
(* crash: neither the handler nor the flusher drops one that the other has *)
(* just added.                                                             *)
NothingForgotten ==
  \A k \in acked : \A n \in 1..Pages[k].docs :
    \/ <<k, n>> \in InMemory \cup lost
    \/ \E x \in indexed : x.doc = <<k, n>>

(* An offset is committed only after the handler has returned for every    *)
(* message up to it, so that a crash redelivers what was not handled.      *)
CommittedIsHandled == 1..committed \subseteq handled \cup refused

(* A failed request loses at most a batch, and a crash at most a batch and *)
(* an incomplete one for every account: a buffer never outgrows batch_size *)
(* however the two tasks interleave.                                       *)
LossIsBounded ==
  Cardinality(lost) <= failures * BatchSize
    + crashes * (BatchSize + Cardinality(Engines) * (BatchSize - 1))

(* A worker that runs to its end leaves no document behind: it waits for   *)
(* the flush that is under way before it flushes once more.                *)
ExitIsClean == pc = "exited" => InMemory = {}

(* A page on the topic is handled, or refused by a worker that stops, in   *)
(* spite of crashes, unless the consumer's stream ends.                    *)
EveryPageHandled ==
  []<>(\/ 1..produced \subseteq handled \cup refused
       \/ pc \in {"closing", "flushing", "exited"})

=============================================================================
