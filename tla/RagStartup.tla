----------------------------- MODULE RagStartup -----------------------------
(***************************************************************************)
(* How the workers of the service come to share one vector collection      *)
(* (langchain_rag.py).  Each worker loads the documents, takes a file      *)
(* lock, and either rebuilds the collection, dropping the old one, or      *)
(* attaches to what another worker built since the service started; the    *)
(* file named after the start token says which.  A worker that cannot use  *)
(* Milvus keeps the documents in memory.  Workers may crash at any point   *)
(* and are started again; the service may be restarted with other          *)
(* documents.  The collection outlives the service, and so do the files.   *)
(***************************************************************************)
EXTENDS Naturals, FiniteSets

CONSTANTS
    Workers,
    None,
    NewToken,       \* whether a restart changes the start time of process 1
    MaxChanges,     \* bound: how often the documents change
    MaxCrashes,     \* bound: crashes of workers
    MaxRestarts     \* bound: restarts of the service

ASSUME StartupAssumption ==
    /\ None \notin Workers
    /\ NewToken \in BOOLEAN
    /\ MaxChanges \in Nat /\ MaxCrashes \in Nat /\ MaxRestarts \in Nat

VARIABLES
    at,         \* where the initialisation of each worker is
    loaded,     \* the version of the documents it read
    lock,       \* the worker that holds the file lock
    token,      \* the start token of the running service
    ready,      \* the tokens for which a ready file exists
    docs,       \* the version of the documents on disk
    collection, \* the version in the vector store, and whether it is complete
    baseline,   \* ghost: the documents when the service was started
    crashes, restarts

vars == <<at, loaded, lock, token, ready, docs, collection, baseline, crashes, restarts>>

Building == {"check", "insert", "touch"}
Places == {"load", "wait", "fallback", "milvus", "faiss", "unavailable", "down"} \cup Building
Collections == [version : Nat, complete : BOOLEAN]

Init ==
    /\ at = [w \in Workers |-> "load"]
    /\ loaded = [w \in Workers |-> 0]
    /\ lock = None
    /\ token = 0
    /\ ready = {}
    /\ docs = 0
    /\ collection = [version |-> 0, complete |-> FALSE]
    /\ baseline = 0
    /\ crashes = 0
    /\ restarts = 0

Go(w, place) == at' = [at EXCEPT ![w] = place]

-----------------------------------------------------------------------------
(* initialize_langchain_rag and LangChainRAGService.initialize             *)

\* The directory is read and split, the models are set up.
Load(w) ==
    /\ at[w] = "load"
    /\ loaded' = [loaded EXCEPT ![w] = docs]
    /\ Go(w, "wait")
    /\ UNCHANGED <<lock, token, ready, docs, collection, baseline, crashes, restarts>>

\* No documents, no key, or an error: the worker starts without a knowledge base.
LoadFails(w) ==
    /\ at[w] = "load"
    /\ Go(w, "unavailable")
    /\ UNCHANGED <<loaded, lock, token, ready, docs, collection, baseline, crashes, restarts>>

-----------------------------------------------------------------------------
(* _init_vector_store and _exclusive_file_lock                             *)

\* Mutant: the lock is taken while another worker holds it.
AcquireMut(w) ==
    /\ at[w] = "wait"
    /\ lock' = w
    /\ Go(w, "check")
    /\ UNCHANGED <<loaded, token, ready, docs, collection, baseline, crashes, restarts>>

Acquire(w) ==
    /\ at[w] = "wait"
    /\ lock = None
    /\ lock' = w
    /\ Go(w, "check")
    /\ UNCHANGED <<loaded, token, ready, docs, collection, baseline, crashes, restarts>>

\* Mutant: a ready file of any start will do.
AttachMut(w) ==
    /\ at[w] = "check"
    /\ ready # {}
    /\ lock' = None
    /\ Go(w, "milvus")
    /\ UNCHANGED <<loaded, token, ready, docs, collection, baseline, crashes, restarts>>

\* Another worker of this start has built the collection.
Attach(w) ==
    /\ at[w] = "check"
    /\ token \in ready
    /\ lock' = None
    /\ Go(w, "milvus")
    /\ UNCHANGED <<loaded, token, ready, docs, collection, baseline, crashes, restarts>>

\* Mutant: the ready file is written first.
DropOldEarly(w) ==
    /\ at[w] = "check"
    /\ token \notin ready
    /\ ready' = ready \cup {token}
    /\ collection' = [version |-> loaded[w], complete |-> FALSE]
    /\ Go(w, "insert")
    /\ UNCHANGED <<loaded, lock, token, docs, baseline, crashes, restarts>>

\* from_documents with drop_old=True: the old collection is gone first ...
DropOld(w) ==
    /\ at[w] = "check"
    /\ token \notin ready
    /\ collection' = [version |-> loaded[w], complete |-> FALSE]
    /\ Go(w, "insert")
    /\ UNCHANGED <<loaded, lock, token, ready, docs, baseline, crashes, restarts>>

\* ... and then the documents are inserted, batch by batch.
Insert(w) ==
    /\ at[w] = "insert"
    /\ collection' = [collection EXCEPT !.complete = TRUE]
    /\ Go(w, "touch")
    /\ UNCHANGED <<loaded, lock, token, ready, docs, baseline, crashes, restarts>>

Touch(w) ==
    /\ at[w] = "touch"
    /\ ready' = ready \cup {token}
    /\ lock' = None
    /\ Go(w, "milvus")
    /\ UNCHANGED <<loaded, token, docs, collection, baseline, crashes, restarts>>

\* Mutant: a failure leaves the lock taken.
StoreFailsMut(w) ==
    /\ at[w] \in Building \cup {"wait"}
    /\ Go(w, "fallback")
    /\ UNCHANGED <<loaded, lock, token, ready, docs, collection, baseline, crashes, restarts>>

\* Milvus, the embeddings or the file system fail: the lock is released.
StoreFails(w) ==
    /\ at[w] \in Building \cup {"wait"}
    /\ lock' = IF lock = w THEN None ELSE lock
    /\ Go(w, "fallback")
    /\ UNCHANGED <<loaded, token, ready, docs, collection, baseline, crashes, restarts>>

\* The documents in memory; this needs the embeddings too, and then nothing is left.
Fallback(w) ==
    /\ at[w] = "fallback"
    /\ at' \in {[at EXCEPT ![w] = p] : p \in {"faiss", "unavailable"}}
    /\ UNCHANGED <<loaded, lock, token, ready, docs, collection, baseline, crashes, restarts>>

-----------------------------------------------------------------------------
(* The system around the workers: it gives a file lock back when its        *)
(* holder dies.                                                            *)

Crash(w) ==
    /\ crashes < MaxCrashes
    /\ at[w] # "down"
    /\ crashes' = crashes + 1
    /\ lock' = IF lock = w THEN None ELSE lock
    /\ Go(w, "down")
    /\ UNCHANGED <<loaded, token, ready, docs, collection, baseline, restarts>>

Respawn(w) ==
    /\ at[w] = "down"
    /\ Go(w, "load")
    /\ UNCHANGED <<loaded, lock, token, ready, docs, collection, baseline, crashes, restarts>>

Restart ==
    /\ restarts < MaxRestarts
    /\ restarts' = restarts + 1
    /\ at' = [w \in Workers |-> "load"]
    /\ lock' = None
    /\ token' = IF NewToken THEN token + 1 ELSE token
    /\ baseline' = docs
    /\ UNCHANGED <<loaded, ready, docs, collection, crashes>>

ChangeDocuments ==
    /\ docs < MaxChanges
    /\ docs' = docs + 1
    /\ UNCHANGED <<at, loaded, lock, token, ready, collection, baseline, crashes, restarts>>

-----------------------------------------------------------------------------
Initialise(w) ==
    Load(w) \/ LoadFails(w) \/ Acquire(w) \/ Attach(w) \/ DropOld(w) \/ Insert(w)
      \/ Touch(w) \/ StoreFails(w) \/ Fallback(w)

Environment == Restart \/ ChangeDocuments \/ \E w \in Workers : Crash(w) \/ Respawn(w)

Next == Environment \/ \E w \in Workers : Initialise(w)

\* A worker that runs goes on, one that waits takes a lock that stays free, and
\* one that died is started again.  Each takes the lock once per start, so weak
\* fairness will do; that waiting may fail helps no worker.
Runs(w) == at[w] # "wait" /\ Initialise(w)
Fairness == \A w \in Workers : WF_vars(Runs(w)) /\ WF_vars(Acquire(w)) /\ WF_vars(Respawn(w))

Spec == Init /\ [][Next]_vars /\ Fairness

-----------------------------------------------------------------------------
(* Properties.                                                             *)

\* Every variable stays within its set.
TypeOK ==
    /\ at \in [Workers -> Places]
    /\ loaded \in [Workers -> Nat]
    /\ lock \in Workers \cup {None}
    /\ token \in Nat
    /\ ready \subseteq Nat
    /\ docs \in Nat
    /\ collection \in Collections
    /\ baseline \in Nat
    /\ crashes \in Nat
    /\ restarts \in Nat

\* langchain_rag.py:435: the destructive rebuild is serialised.
RebuildAlone ==
    \A v, w \in Workers : at[v] \in Building /\ at[w] \in Building => v = w

\* No worker searches a collection that was dropped or is being filled, whoever
\* crashed, failed or was started again in between (_init_vector_store).
ServesComplete ==
    \A w \in Workers : at[w] = "milvus" =>
        collection.complete /\ \A v \in Workers : at[v] \notin {"insert", "touch"}

\* With a new token for each start, no worker attaches to a collection built
\* from documents older than the start (_init_vector_store).
ServesCurrent ==
    NewToken => \A w \in Workers : at[w] = "milvus" => collection.version >= baseline

\* What a worker searches is whole, of this start, and built by one worker.
ServesRight == RebuildAlone /\ ServesComplete /\ ServesCurrent

\* The collection other workers attached to is not rebuilt before the next
\* start (_init_vector_store).
NotRebuilt ==
    [][ (\E w \in Workers : at[w] = "milvus") /\ restarts' = restarts
          => collection' = collection ]_vars

\* Each worker comes to an end of its initialisation, infinitely often if it
\* dies infinitely often: none waits for the lock for ever.
Settles ==
    \A w \in Workers : []<>(at[w] \in {"milvus", "faiss", "unavailable"})
=============================================================================
