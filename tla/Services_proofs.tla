--------------------------- MODULE Services_proofs ---------------------------
(***************************************************************************)
(* What each service promises, for any number of workers, requests,        *)
(* memories, names, bookings and calls.                                    *)
(*                                                                         *)
(* The start-up: what ties the workers together is the ready file of the   *)
(* running start.  Once it exists nobody drops the collection, and whoever *)
(* attached has seen it.                                                   *)
(* The language model: the calls that hold a token are those sending or    *)
(* pausing, and pieces arrive only once no attempt follows.                *)
(* The memories: what is gone has no whole hash, so no request that began  *)
(* later reads it; while requests follow one another, the index is over    *)
(* the limit by at most the memory the running store has just added.       *)
(* The resolvers: an entry of a cache is right for its key by what the     *)
(* backend has ever held, which only grows, so it stays right when the     *)
(* backend changes; a question keeps its key on the way to an answer.      *)
(* The streamed answer: a token that starts across a cut starts in the end *)
(* that the filter holds back, so what it makes of a text does not depend  *)
(* on where the text was cut; taking the closed blocks out of the whole    *)
(* text gives what the filter shows, then what it holds back.              *)
(***************************************************************************)
EXTENDS Services, FiniteSetTheorems, SequenceTheorems, WellFoundedInduction, TLAPS

-----------------------------------------------------------------------------
(* The start-up of the vector collection.                                  *)

\* The lock is held by the worker that builds.
LockHeld == \A w \in Workers : at[w] \in Building <=> lock = w

\* Documents are read after the start.
ReadSinceStart ==
    /\ baseline <= docs
    /\ \A w \in Workers : at[w] \in Building \cup {"wait"} => loaded[w] >= baseline

\* What is being filled is filled by its holder and not yet announced.
Filling ==
    \A w \in Workers : at[w] \in {"insert", "touch"} =>
        /\ token \notin ready
        /\ collection.version = loaded[w]
        /\ at[w] = "touch" => collection.complete

\* What is announced is complete and, under a new token, of this start.
Announced ==
    /\ token \in ready => collection.complete
    /\ token \in ready /\ NewToken => collection.version >= baseline
    /\ NewToken => \A t \in ready : t <= token
    /\ \A w \in Workers : at[w] = "milvus" => token \in ready

StartupInv == TypeOK /\ LockHeld /\ ReadSinceStart /\ Filling /\ Announced

\* The invariant holds at the first start.
LEMMA StartupInit == Init => StartupInv
  BY StartupAssumption DEF Init, StartupInv, TypeOK, LockHeld, ReadSinceStart, Filling, Announced,
     Collections, Places, Building

\* Each step keeps every variable in its set.
LEMMA StartupNextTypes == TypeOK /\ [Next]_vars => TypeOK'
<1> SUFFICES ASSUME TypeOK, [Next]_vars PROVE TypeOK'
  OBVIOUS
<1> USE StartupAssumption DEF TypeOK, Places, Building, Collections, Go
<1>1. CASE UNCHANGED vars
  BY <1>1 DEF vars
<1>2. ASSUME NEW w \in Workers, Initialise(w) PROVE TypeOK'
  <2>1. CASE Load(w)
    BY <2>1 DEF Load
  <2>6. CASE LoadFails(w)
    BY <2>6 DEF LoadFails
  <2>7. CASE Acquire(w)
    BY <2>7 DEF Acquire
  <2>8. CASE Attach(w)
    BY <2>8 DEF Attach
  <2>2. CASE DropOld(w)
    BY <2>2 DEF DropOld
  <2>3. CASE Insert(w)
    BY <2>3 DEF Insert
  <2>4. CASE Touch(w)
    BY <2>4 DEF Touch
  <2>9. CASE StoreFails(w)
    BY <2>9 DEF StoreFails
  <2>5. CASE Fallback(w)
    BY <2>5 DEF Fallback
  <2> QED
    BY <1>2, <2>1, <2>2, <2>3, <2>4, <2>5, <2>6, <2>7, <2>8, <2>9 DEF Initialise
<1>3. CASE Environment
  <2>1. CASE Restart
    BY <2>1 DEF Restart
  <2>2. CASE ChangeDocuments
    BY <2>2 DEF ChangeDocuments
  <2>3. ASSUME NEW w \in Workers, Crash(w) PROVE TypeOK'
    BY <2>3 DEF Crash
  <2>4. ASSUME NEW w \in Workers, Respawn(w) PROVE TypeOK'
    BY <2>4 DEF Respawn
  <2> QED
    BY <1>3, <2>1, <2>2, <2>3, <2>4 DEF Environment
<1> QED
  BY <1>1, <1>2, <1>3 DEF Next

\* A step of a worker's initialisation keeps the invariant.
LEMMA InitialiseKeeps ==
    ASSUME StartupInv, TypeOK', NEW w \in Workers, Initialise(w)
    PROVE  StartupInv'
<1> USE StartupAssumption DEF StartupInv, TypeOK, LockHeld, ReadSinceStart, Filling, Announced,
        Building, Collections, Go
<1>1. CASE Load(w)
  BY <1>1 DEF Load
<1>2. CASE LoadFails(w)
  BY <1>2 DEF LoadFails
<1>3. CASE Acquire(w)
  BY <1>3 DEF Acquire
<1>4. CASE Attach(w)
  BY <1>4 DEF Attach
<1>5. CASE DropOld(w)
  BY <1>5 DEF DropOld
<1>6. CASE Insert(w)
  BY <1>6 DEF Insert
<1>7. CASE Touch(w)
  BY <1>7 DEF Touch
<1>8. CASE StoreFails(w)
  BY <1>8 DEF StoreFails
<1>9. CASE Fallback(w)
  BY <1>9 DEF Fallback
<1> QED
  BY <1>1, <1>2, <1>3, <1>4, <1>5, <1>6, <1>7, <1>8, <1>9 DEF Initialise

\* Crashes, restarts and new documents keep it.
LEMMA EnvironmentKeeps ==
    ASSUME StartupInv, TypeOK', Environment
    PROVE  StartupInv'
<1> USE StartupAssumption DEF StartupInv, TypeOK, LockHeld, ReadSinceStart, Filling, Announced,
        Building, Collections, Go
<1>1. CASE Restart
  BY <1>1 DEF Restart
<1>2. CASE ChangeDocuments
  BY <1>2 DEF ChangeDocuments
<1>3. ASSUME NEW w \in Workers, Crash(w) PROVE StartupInv'
  BY <1>3 DEF Crash
<1>4. ASSUME NEW w \in Workers, Respawn(w) PROVE StartupInv'
  BY <1>4 DEF Respawn
<1> QED
  BY <1>1, <1>2, <1>3, <1>4 DEF Environment

LEMMA StartupNext == StartupInv /\ [Next]_vars => StartupInv'
<1> SUFFICES ASSUME StartupInv, [Next]_vars PROVE StartupInv'
  OBVIOUS
<1>1. TypeOK'
  BY StartupNextTypes DEF StartupInv
<1>2. CASE UNCHANGED vars
  BY <1>2 DEF vars, StartupInv, TypeOK, LockHeld, ReadSinceStart, Filling, Announced
<1> QED
  BY <1>1, <1>2, InitialiseKeeps, EnvironmentKeeps DEF Next

LEMMA StartupInvHolds == Spec => []StartupInv
  BY StartupInit, StartupNext, PTL DEF Spec

-----------------------------------------------------------------------------
\* The variables of the start-up stay within their sets.
THEOREM StartupTypes == Spec => []TypeOK
<1>1. StartupInv => TypeOK
  BY DEF StartupInv
<1> QED
  BY <1>1, StartupInvHolds, PTL

\* The destructive rebuild is serialised (langchain_rag.py:435).
THEOREM RebuildSerialised == Spec => []RebuildAlone
<1>1. StartupInv => RebuildAlone
  BY DEF StartupInv, LockHeld, RebuildAlone
<1> QED
  BY <1>1, StartupInvHolds, PTL

\* A worker never searches a collection that was dropped or is being filled.
THEOREM CollectionComplete == Spec => []ServesComplete
<1>1. StartupInv => ServesComplete
  BY DEF StartupInv, Filling, Announced, ServesComplete
<1> QED
  BY <1>1, StartupInvHolds, PTL

\* A worker never searches a collection older than the start, if each start has
\* a token of its own.
THEOREM CollectionCurrent == Spec => []ServesCurrent
<1>1. StartupInv => ServesCurrent
  BY DEF StartupInv, TypeOK, Announced, ServesCurrent
<1> QED
  BY <1>1, StartupInvHolds, PTL

\* What a worker searches is whole, of this start, and built by one worker.
THEOREM CollectionServesRight == Spec => []ServesRight
<1>1. RebuildAlone /\ ServesComplete /\ ServesCurrent => ServesRight
  BY DEF ServesRight
<1> QED
  BY <1>1, RebuildSerialised, CollectionComplete, CollectionCurrent, PTL

\* While a worker searches the collection, only a restart lets it be rebuilt.
THEOREM CollectionStays == Spec => NotRebuilt
<1>1. StartupInv /\ [Next]_vars =>
        [(\E w \in Workers : at[w] = "milvus") /\ restarts' = restarts
            => collection' = collection]_vars
  <2> SUFFICES ASSUME StartupInv, Next, NEW v \in Workers, at[v] = "milvus", restarts' = restarts
               PROVE  collection' = collection
    BY DEF vars
  <2>1. token \in ready
    BY DEF StartupInv, Announced
  <2>2. ASSUME NEW w \in Workers, Initialise(w) PROVE collection' = collection
    BY <2>1, <2>2 DEF StartupInv, Filling, Initialise, Load, LoadFails, Acquire, Attach, DropOld,
       Insert, Touch, StoreFails, Fallback
  <2>3. CASE Environment
    BY <2>3 DEF Environment, Restart, ChangeDocuments, Crash, Respawn
  <2> QED
    BY <2>2, <2>3 DEF Next
<1> QED
  BY <1>1, StartupInvHolds, PTL DEF Spec, NotRebuilt

-----------------------------------------------------------------------------
(* The client of the language model.                                       *)

LEMMA LlmCardinality == \A S : Llm!Cardinality(S) = Cardinality(S)
BY DEF Llm!Cardinality, Cardinality

LlmPlaces == {"idle", "queued", "sending", "backoff", "reading", "answered", "failed", "cancelled"}

LlmTypes ==
    /\ limit \in {0, Limit}
    /\ calling \in [LlmCalls -> LlmPlaces]
    /\ holding \subseteq LlmCalls
    /\ attempts \in [LlmCalls -> Nat]
    /\ from \in [LlmCalls -> SUBSET Nat]

\* Pieces are received once no attempt follows any more, and a pause is made
\* only where one may.
LlmAttempts ==
    \A c \in LlmCalls :
        /\ attempts[c] <= MaxAttempts
        /\ calling[c] \in {"idle", "queued"} => attempts[c] = 0
        /\ calling[c] = "backoff" => attempts[c] < MaxAttempts
        /\ calling[c] \in {"idle", "queued", "sending", "backoff"} => from[c] = {}

LlmInv == LlmTypes /\ LlmAttempts /\ CallsRight

\* Whoever takes the token of c back, or lets it keep it, returns what it held.
LEMMA TokensKept ==
    ASSUME LlmTypes, Llm!TokensReturned, NEW c \in LlmCalls,
           UNCHANGED limit, NEW place \in LlmPlaces,
           calling' = [calling EXCEPT ![c] = place],
           \/ holding' = holding \ {c} /\ place \notin {"sending", "backoff"}
           \/ holding' = holding /\ (calling[c] \in {"sending", "backoff"} <=> place \in {"sending", "backoff"})
           \/ limit = 0
    PROVE  Llm!TokensReturned'
<1> SUFFICES ASSUME limit > 0 PROVE Llm!TokensReturned'
  BY DEF Llm!TokensReturned
<1>1. /\ holding = {d \in LlmCalls : calling[d] \in {"sending", "backoff"}}
      /\ Cardinality(holding) <= limit
  BY LlmCardinality DEF Llm!TokensReturned
<1>2. holding' = {d \in LlmCalls : calling'[d] \in {"sending", "backoff"}}
  BY <1>1 DEF LlmTypes
<1>3. holding' \subseteq holding /\ IsFiniteSet(holding)
  BY LlmAssumption, FS_Subset DEF LlmTypes
<1>4. Cardinality(holding') <= Cardinality(holding) /\ IsFiniteSet(holding')
  BY <1>3, FS_Subset
<1>5. Cardinality(holding') \in Nat /\ Cardinality(holding) \in Nat /\ limit \in Nat
  BY <1>3, <1>4, FS_CardinalityType, LlmAssumption DEF LlmTypes
<1>6. Cardinality(holding') <= limit'
  BY <1>1, <1>4, <1>5
<1> QED
  BY <1>2, <1>6, LlmCardinality DEF Llm!TokensReturned

LEMMA LlmStep ==
    ASSUME LlmInv, NEW c \in LlmCalls,
           \/ Llm!NoKey(c) \/ Llm!Enter(c) \/ Llm!Serve(c) \/ Llm!Chunk(c) \/ Llm!Cancel(c)
    PROVE  LlmInv'
<1> USE LlmAssumption DEF LlmTypes, LlmPlaces, LlmAttempts, Llm!Goto
<1>0. LlmTypes /\ LlmAttempts /\ Llm!TokensReturned /\ Llm!OneResponse
  BY DEF LlmInv, CallsRight
<1>1. CASE Llm!NoKey(c)
  <2>1. LlmTypes' /\ LlmAttempts'
    BY <1>0, <1>1 DEF Llm!NoKey
  <2>2. Llm!OneResponse'
    BY <1>0, <1>1 DEF Llm!NoKey, Llm!OneResponse
  <2>3. Llm!TokensReturned'
    BY <1>0, <1>1, TokensKept DEF Llm!NoKey
  <2> QED
    BY <2>1, <2>2, <2>3 DEF LlmInv, CallsRight
<1>2. CASE Llm!Enter(c)
  <2>1. LlmTypes'
    BY <1>0, <1>2 DEF Llm!Enter, Llm!Send
  <2>2. LlmAttempts' /\ Llm!OneResponse'
    BY <1>0, <1>2 DEF Llm!Enter, Llm!Send, Llm!OneResponse
  <2>3. Llm!TokensReturned'
    <3>1. CASE limit = 0
      BY <1>2, <3>1 DEF Llm!Enter, Llm!TokensReturned
    <3>2. CASE limit # 0
      BY <1>0, <1>2, <3>2, TokensKept DEF Llm!Enter
    <3> QED
      BY <3>1, <3>2
  <2> QED
    BY <2>1, <2>2, <2>3 DEF LlmInv, CallsRight
<1>3. CASE Llm!Acquire(c)
  <2>1. LlmTypes'
    BY <1>0, <1>3 DEF Llm!Acquire, Llm!Send
  <2>2. LlmAttempts' /\ Llm!OneResponse'
    BY <1>0, <1>3 DEF Llm!Acquire, Llm!Send, Llm!OneResponse
  <2>3. Llm!TokensReturned'
    <3> SUFFICES ASSUME limit > 0 PROVE Llm!TokensReturned'
      BY <1>3 DEF Llm!Acquire, Llm!TokensReturned
    <3>1. /\ holding = {d \in LlmCalls : calling[d] \in {"sending", "backoff"}}
          /\ holding' = holding \cup {c}
          /\ calling' = [calling EXCEPT ![c] = "sending"]
          /\ Cardinality(holding) < limit /\ limit' = limit
      BY <1>0, <1>3, LlmCardinality DEF Llm!Acquire, Llm!Send, Llm!TokensReturned
    <3>2. holding' = {d \in LlmCalls : calling'[d] \in {"sending", "backoff"}}
      BY <1>0, <3>1
    <3>3. IsFiniteSet(holding)
      BY <1>0, FS_Subset
    <3>4. Cardinality(holding) \in Nat
      BY <3>3, FS_CardinalityType
    <3>5. Cardinality(holding \cup {c}) \in {Cardinality(holding), Cardinality(holding) + 1}
      BY <3>3, FS_AddElement
    <3>6. Cardinality(holding') <= limit'
      BY <1>0, <3>1, <3>4, <3>5
    <3> QED
      BY <3>2, <3>6, LlmCardinality DEF Llm!TokensReturned
  <2> QED
    BY <2>1, <2>2, <2>3 DEF LlmInv, CallsRight
<1>4. CASE Llm!Succeed(c)
  <2>1. PICK place \in {"reading", "answered"} :
          /\ calling' = [calling EXCEPT ![c] = place]
          /\ holding' = holding \ {c}
          /\ \/ from' = from
             \/ from' = [from EXCEPT ![c] = @ \cup {attempts[c]}]
          /\ UNCHANGED <<limit, attempts>> /\ calling[c] = "sending"
    BY <1>4 DEF Llm!Succeed, Llm!End
  <2>2. LlmTypes'
    BY <1>0, <2>1
  <2>3. LlmAttempts' /\ Llm!OneResponse'
    BY <1>0, <2>1 DEF Llm!OneResponse
  <2>4. Llm!TokensReturned'
    BY <1>0, <2>1, TokensKept
  <2> QED
    BY <2>2, <2>3, <2>4 DEF LlmInv, CallsRight
<1>5. CASE Llm!Transient(c) \/ Llm!Permanent(c)
  <2>1. PICK place \in {"backoff", "failed"} :
          /\ calling' = [calling EXCEPT ![c] = place]
          /\ place = "backoff" => attempts[c] < MaxAttempts /\ holding' = holding
          /\ place = "failed" => holding' = holding \ {c}
          /\ UNCHANGED <<limit, attempts, from>> /\ calling[c] = "sending"
    BY <1>5 DEF Llm!Transient, Llm!Permanent, Llm!End
  <2>2. LlmTypes'
    BY <1>0, <2>1
  <2>3. LlmAttempts' /\ Llm!OneResponse'
    BY <1>0, <2>1 DEF Llm!OneResponse
  <2>4. Llm!TokensReturned'
    BY <1>0, <2>1, TokensKept
  <2> QED
    BY <2>2, <2>3, <2>4 DEF LlmInv, CallsRight
<1>6. CASE Llm!Resend(c)
  <2>1. LlmTypes'
    BY <1>0, <1>6 DEF Llm!Resend, Llm!Send
  <2>2. LlmAttempts' /\ Llm!OneResponse'
    BY <1>0, <1>6 DEF Llm!Resend, Llm!Send, Llm!OneResponse
  <2>3. Llm!TokensReturned'
    BY <1>0, <1>6, TokensKept DEF Llm!Resend, Llm!Send
  <2> QED
    BY <2>1, <2>2, <2>3 DEF LlmInv, CallsRight
<1>7. CASE Llm!EndStream(c)
  <2>1. LlmTypes' /\ LlmAttempts' /\ Llm!OneResponse'
    BY <1>0, <1>7 DEF Llm!EndStream, Llm!OneResponse
  <2>2. Llm!TokensReturned'
    BY <1>0, <1>7, TokensKept DEF Llm!EndStream
  <2> QED
    BY <2>1, <2>2 DEF LlmInv, CallsRight
<1>8. CASE Llm!Chunk(c)
  <2>1. LlmTypes'
    BY <1>0, <1>8 DEF Llm!Chunk
  <2>2. LlmAttempts' /\ Llm!OneResponse'
    BY <1>0, <1>8 DEF Llm!Chunk, Llm!OneResponse
  <2>3. Llm!TokensReturned'
    BY <1>0, <1>8 DEF Llm!Chunk, Llm!TokensReturned
  <2> QED
    BY <2>1, <2>2, <2>3 DEF LlmInv, CallsRight
<1>9. CASE Llm!Cancel(c)
  <2>1. /\ calling' = [calling EXCEPT ![c] = "cancelled"]
        /\ holding' = holding \ {c}
        /\ UNCHANGED <<limit, attempts, from>>
    BY <1>9 DEF Llm!Cancel, Llm!End
  <2>2. LlmTypes' /\ LlmAttempts' /\ Llm!OneResponse'
    BY <1>0, <2>1 DEF Llm!OneResponse
  <2>3. Llm!TokensReturned'
    BY <1>0, <2>1, TokensKept
  <2> QED
    BY <2>2, <2>3 DEF LlmInv, CallsRight
<1> QED
  BY <1>1, <1>2, <1>3, <1>4, <1>5, <1>6, <1>7, <1>8, <1>9 DEF Llm!Serve

\* Whatever fails or is cancelled, no token of the semaphore is lost or given
\* twice, and an answer comes from one response.
THEOREM TokensAndAnswers == Llm!Spec => []CallsRight
<1>1. Llm!Init => LlmInv
  <2> SUFFICES ASSUME Llm!Init PROVE LlmInv
    OBVIOUS
  <2>1. LlmTypes /\ LlmAttempts
    BY LlmAssumption DEF Llm!Init, LlmTypes, LlmPlaces, LlmAttempts
  <2>2. Llm!OneResponse
    BY LlmAssumption DEF Llm!Init, Llm!OneResponse
  <2>3. Llm!TokensReturned
    <3>1. holding = {} /\ holding = {d \in LlmCalls : calling[d] \in {"sending", "backoff"}}
      BY DEF Llm!Init
    <3>2. Cardinality(holding) = 0
      BY <3>1, FS_EmptySet
    <3> QED
      BY <3>1, <3>2, LlmAssumption, LlmCardinality DEF Llm!TokensReturned, Llm!Init
  <2> QED
    BY <2>1, <2>2, <2>3 DEF LlmInv, CallsRight
<1>2. LlmInv /\ [Llm!Next]_(Llm!vars) => LlmInv'
  <2> SUFFICES ASSUME LlmInv, [Llm!Next]_(Llm!vars) PROVE LlmInv'
    OBVIOUS
  <2>1. CASE UNCHANGED Llm!vars
    BY <2>1 DEF Llm!vars, LlmInv, LlmTypes, LlmAttempts, CallsRight, Llm!TokensReturned, Llm!OneResponse
  <2>2. CASE Llm!Next
    BY <2>2, LlmStep DEF Llm!Next
  <2> QED
    BY <2>1, <2>2
<1>3. LlmInv => CallsRight
  BY DEF LlmInv
<1> QED
  BY <1>1, <1>2, <1>3, PTL DEF Llm!Spec

-----------------------------------------------------------------------------
(* The memories of a user.                                                 *)

LEMMA MemoryCardinality == \A S : Memory!Cardinality(S) = Cardinality(S)
BY DEF Memory!Cardinality, Cardinality

\* Where a store has added its memory to the index, or may have.
Counting == {"count", "lowest", "evict", "unlist"}
Resting == {"idle", "done", "failed"}
MemoryPlaces == Resting \cup Counting \cup {"index", "list", "recall", "touch", "relist", "clear"}

MemoryTypes ==
    /\ hash \in [Memories -> {"none", "whole", "partial"}]
    /\ index \subseteq Memories
    /\ remembering \in [MemoryRequests -> MemoryPlaces]
    /\ mine \in [MemoryRequests -> Memories \cup {None}]
    /\ todo \in [MemoryRequests -> SUBSET Memories]
    /\ read \in [MemoryRequests -> SUBSET Memories]
    /\ before \in [MemoryRequests -> SUBSET gone]
    /\ \A r \in MemoryRequests :
         remembering[r] \in {"index", "evict", "unlist", "relist"} => mine[r] \in Memories

\* What is gone is nowhere whole again, so nobody reads it who began later.
Forgotten ==
    /\ \A i \in gone : i \in Memories => hash[i] # "whole"
    /\ \A r \in MemoryRequests :
         /\ remembering[r] = "idle" => read[r] = {}
         /\ read[r] \cap before[r] = {}

\* Requests that follow one another: what the only one that runs has read of
\* the index is still listed.
OneRequest ==
    \A r, s \in MemoryRequests :
        remembering[r] \notin Resting /\ remembering[s] \notin Resting => r = s

StillListed ==
    \A r \in MemoryRequests :
        /\ remembering[r] \in {"evict", "unlist", "relist"} => mine[r] \in index
        /\ remembering[r] \in {"list", "recall", "touch", "relist"} => todo[r] \subseteq index
        /\ remembering[r] \in {"list", "recall"} => read[r] \subseteq index
        /\ remembering[r] = "idle" => read[r] = {}

\* The requests for each of which the index may be one over its limit.
Excused == {r \in MemoryRequests : remembering[r] \in Counting \cup {"failed"}}

WithinLimit == Cardinality(index) <= MaxMemories + Cardinality(Excused)

MemoryInv ==
    /\ MemoryTypes
    /\ Forgotten
    /\ alone \in BOOLEAN
    /\ alone => OneRequest /\ StillListed /\ WithinLimit

MemoryStep(r) ==
    Memory!Store(r) \/ Memory!List(r) \/ Memory!Recall(r) \/ Memory!Clear(r) \/ Memory!Fails(r)

LEMMA MemoryStepTypes ==
    ASSUME MemoryTypes, NEW r \in MemoryRequests, MemoryStep(r)
    PROVE  MemoryTypes' /\ alone' = alone /\ gone \subseteq gone'
<1> USE DEF MemoryTypes, MemoryPlaces, Resting, Counting, Memory!Goto, Memory!Begin
<1>1. CASE Memory!Store(r)
  <2>1. CASE Memory!StoreHash(r)
    BY <2>1 DEF Memory!StoreHash
  <2>2. CASE Memory!StoreIndex(r)
    BY <2>2 DEF Memory!StoreIndex
  <2>3. CASE Memory!Count(r)
    BY <2>3 DEF Memory!Count
  <2>4. CASE Memory!PickLowest(r)
    BY <2>4 DEF Memory!PickLowest, Memory!Lowest
  <2>5. CASE Memory!Evict(r)
    BY <2>5 DEF Memory!Evict
  <2>6. CASE Memory!Unlist(r)
    BY <2>6 DEF Memory!Unlist
  <2> QED
    BY <1>1, <2>1, <2>2, <2>3, <2>4, <2>5, <2>6 DEF Memory!Store
<1>2. CASE Memory!List(r)
  <2>1. CASE Memory!ReadIndex(r)
    BY <2>1 DEF Memory!ReadIndex, Memory!Reading
  <2>2. CASE Memory!ReadHash(r)
    BY <2>2 DEF Memory!ReadHash, Memory!Highest
  <2>3. CASE Memory!ReadFails(r) \/ Memory!Listed(r)
    BY <2>3 DEF Memory!ReadFails, Memory!Listed, Memory!Highest
  <2> QED
    BY <1>2, <2>1, <2>2, <2>3 DEF Memory!List
<1>3. CASE Memory!Recall(r)
  <2>1. CASE Memory!Recalled(r)
    BY <2>1 DEF Memory!Recalled, Memory!Best
  <2>2. CASE Memory!TouchHash(r)
    BY <2>2 DEF Memory!TouchHash
  <2>3. CASE Memory!TouchIndex(r)
    BY <2>3 DEF Memory!TouchIndex
  <2>4. CASE Memory!TouchFails(r) \/ Memory!Touched(r)
    BY <2>4 DEF Memory!TouchFails, Memory!Touched
  <2> QED
    BY <1>3, <2>1, <2>2, <2>3, <2>4 DEF Memory!Recall
<1>4. CASE Memory!Clear(r)
  BY <1>4 DEF Memory!Clear, Memory!ClearRead, Memory!ClearDelete
<1>5. CASE Memory!Fails(r)
  BY <1>5 DEF Memory!Fails, Memory!Storing
<1> QED
  BY <1>1, <1>2, <1>3, <1>4, <1>5 DEF MemoryStep

LEMMA MemoryStepForgotten ==
    ASSUME MemoryTypes, Forgotten, NEW r \in MemoryRequests, MemoryStep(r)
    PROVE  Forgotten'
<1> USE DEF MemoryTypes, MemoryPlaces, Resting, Counting, Memory!Goto, Memory!Begin, Forgotten
<1>1. CASE Memory!Store(r)
  <2>1. CASE Memory!StoreHash(r)
    BY <2>1 DEF Memory!StoreHash
  <2>2. CASE Memory!Evict(r)
    BY <2>2 DEF Memory!Evict
  <2>3. CASE Memory!StoreIndex(r) \/ Memory!Count(r) \/ Memory!PickLowest(r) \/ Memory!Unlist(r)
    BY <2>3 DEF Memory!StoreIndex, Memory!Count, Memory!PickLowest, Memory!Unlist
  <2> QED
    BY <1>1, <2>1, <2>2, <2>3 DEF Memory!Store
<1>2. CASE Memory!List(r)
  <2>1. CASE Memory!ReadIndex(r)
    BY <2>1 DEF Memory!ReadIndex, Memory!Reading
  <2>2. CASE Memory!ReadHash(r)
    <3>1. PICK i \in Memories :
            read' = IF hash[i] = "whole" THEN [read EXCEPT ![r] = @ \cup {i}] ELSE read
      BY <2>2 DEF Memory!ReadHash, Memory!Highest, Memory!Readable
    <3>2. UNCHANGED <<hash, remembering, gone, before>> /\ remembering[r] # "idle"
      BY <2>2 DEF Memory!ReadHash, Memory!Reading
    <3>3. hash[i] = "whole" => i \notin before[r]
      BY <3>1
    <3> QED
      BY <3>1, <3>2, <3>3
  <2>3. CASE Memory!ReadFails(r) \/ Memory!Listed(r)
    BY <2>3 DEF Memory!ReadFails, Memory!Listed
  <2> QED
    BY <1>2, <2>1, <2>2, <2>3 DEF Memory!List
<1>3. CASE Memory!Recall(r)
  <2>1. CASE Memory!TouchHash(r)
    BY <2>1 DEF Memory!TouchHash
  <2>2. CASE Memory!Recalled(r) \/ Memory!TouchIndex(r) \/ Memory!TouchFails(r) \/ Memory!Touched(r)
    BY <2>2 DEF Memory!Recalled, Memory!TouchIndex, Memory!TouchFails, Memory!Touched
  <2> QED
    BY <1>3, <2>1, <2>2 DEF Memory!Recall
<1>4. CASE Memory!Clear(r)
  BY <1>4 DEF Memory!Clear, Memory!ClearRead, Memory!ClearDelete
<1>5. CASE Memory!Fails(r)
  BY <1>5 DEF Memory!Fails
<1> QED
  BY <1>1, <1>2, <1>3, <1>4, <1>5 DEF MemoryStep

\* The requests that do not move are at rest, where the requests follow one another.
LEMMA OthersRest ==
    ASSUME MemoryTypes, alone, OneRequest, NEW r \in MemoryRequests, MemoryStep(r)
    PROVE  \A s \in MemoryRequests \ {r} :
             /\ remembering[s] \in Resting
             /\ remembering'[s] = remembering[s]
             /\ read'[s] = read[s]
<1> USE DEF MemoryTypes, MemoryPlaces, Resting, Counting, Memory!Goto
<1>1. remembering[r] \notin Resting \/ Memory!Quiet
  BY DEF MemoryStep, Memory!Store, Memory!StoreHash, Memory!StoreIndex, Memory!Count, Memory!PickLowest,
     Memory!Evict, Memory!Unlist, Memory!List, Memory!ReadIndex, Memory!ReadHash, Memory!ReadFails,
     Memory!Listed, Memory!Recall, Memory!Recalled, Memory!TouchHash, Memory!TouchIndex,
     Memory!TouchFails, Memory!Touched, Memory!Clear, Memory!ClearRead, Memory!ClearDelete,
     Memory!Fails, Memory!Begin, Memory!Storing, Memory!Reading
<1>2. \A s \in MemoryRequests \ {r} : remembering[s] \in Resting
  BY <1>1 DEF OneRequest, Memory!Quiet
<1>3. \A s \in MemoryRequests \ {r} : remembering'[s] = remembering[s]
  BY DEF MemoryStep, Memory!Store, Memory!StoreHash, Memory!StoreIndex, Memory!Count, Memory!PickLowest,
     Memory!Evict, Memory!Unlist, Memory!List, Memory!ReadIndex, Memory!ReadHash, Memory!ReadFails,
     Memory!Listed, Memory!Recall, Memory!Recalled, Memory!TouchHash, Memory!TouchIndex,
     Memory!TouchFails, Memory!Touched, Memory!Clear, Memory!ClearRead, Memory!ClearDelete,
     Memory!Fails, Memory!Begin, Memory!Storing, Memory!Reading
<1>4. \A s \in MemoryRequests \ {r} : read'[s] = read[s]
  BY DEF MemoryStep, Memory!Store, Memory!StoreHash, Memory!StoreIndex, Memory!Count, Memory!PickLowest,
     Memory!Evict, Memory!Unlist, Memory!List, Memory!ReadIndex, Memory!ReadHash, Memory!ReadFails,
     Memory!Listed, Memory!Recall, Memory!Recalled, Memory!TouchHash, Memory!TouchIndex,
     Memory!TouchFails, Memory!Touched, Memory!Clear, Memory!ClearRead, Memory!ClearDelete,
     Memory!Fails, Memory!Begin
<1> QED
  BY <1>2, <1>3, <1>4

\* How many the index may hold as the step of r goes.
LEMMA LimitKept ==
    ASSUME MemoryTypes, MemoryTypes', WithinLimit, NEW r \in MemoryRequests,
           \A s \in MemoryRequests \ {r} : remembering'[s] = remembering[s],
           \/ index' \subseteq index /\ (r \in Excused => r \in Excused')
           \/ r \notin Excused /\ r \in Excused' /\ \E i \in Memories : index' = index \cup {i}
           \/ \E i \in index : index' = index \ {i}
           \/ Cardinality(index') <= MaxMemories
    PROVE  WithinLimit'
<1> DEFINE others == Excused \ {r}
<1>1. /\ Excused \in {others, others \cup {r}} /\ Excused' \in {others, others \cup {r}}
      /\ r \in Excused <=> Excused = others \cup {r}
      /\ r \in Excused' <=> Excused' = others \cup {r}
      /\ r \notin others
  BY DEF Excused, MemoryTypes
<1>2. IsFiniteSet(others) /\ IsFiniteSet(index) /\ IsFiniteSet(index')
  BY MemoryAssumption, FS_Subset DEF MemoryTypes, Excused
<1> HIDE DEF others
<1>3. /\ Cardinality(others) \in Nat
      /\ Cardinality(Excused) = IF r \in Excused THEN Cardinality(others) + 1 ELSE Cardinality(others)
      /\ Cardinality(Excused') = IF r \in Excused' THEN Cardinality(others) + 1 ELSE Cardinality(others)
  <2>1. Cardinality(others) \in Nat
    BY <1>2, FS_CardinalityType
  <2>2. Cardinality(others \cup {r}) = Cardinality(others) + 1
    BY <1>1, <1>2, FS_AddElement
  <2>3. /\ Excused = IF r \in Excused THEN others \cup {r} ELSE others
        /\ Excused' = IF r \in Excused' THEN others \cup {r} ELSE others
    BY <1>1
  <2> QED
    BY <2>1, <2>2, <2>3
<1>4. Cardinality(index) \in Nat /\ Cardinality(index') \in Nat
  BY <1>2, FS_CardinalityType
<1>5. CASE index' \subseteq index /\ (r \in Excused => r \in Excused')
  <2>1. Cardinality(index') <= Cardinality(index)
    BY <1>2, <1>5, FS_Subset
  <2>2. Cardinality(Excused) <= Cardinality(Excused')
    BY <1>3, <1>5
  <2>3. Cardinality(Excused) \in Nat /\ Cardinality(Excused') \in Nat
    BY <1>3
  <2> QED
    BY <1>4, <2>1, <2>2, <2>3, MemoryAssumption DEF WithinLimit
<1>6. CASE r \notin Excused /\ r \in Excused' /\ \E i \in Memories : index' = index \cup {i}
  <2>1. PICK i \in Memories : index' = index \cup {i}
    BY <1>6
  <2>2. Cardinality(index \cup {i}) \in {Cardinality(index), Cardinality(index) + 1}
    BY <1>2, FS_AddElement
  <2>3. Cardinality(Excused') = Cardinality(Excused) + 1 /\ Cardinality(Excused) \in Nat
    BY <1>3, <1>6
  <2> QED
    BY <1>4, <2>1, <2>2, <2>3, MemoryAssumption DEF WithinLimit
<1>7. CASE \E i \in index : index' = index \ {i}
  <2>1. PICK i \in index : index' = index \ {i}
    BY <1>7
  <2>2. Cardinality(index \ {i}) = Cardinality(index) - 1
    BY <1>2, FS_RemoveElement
  <2>3. Cardinality(Excused) <= Cardinality(Excused') + 1
    BY <1>3
  <2>4. Cardinality(Excused) \in Nat /\ Cardinality(Excused') \in Nat
    BY <1>3
  <2> QED
    BY <1>4, <2>1, <2>2, <2>3, <2>4, MemoryAssumption DEF WithinLimit
<1>8. CASE Cardinality(index') <= MaxMemories
  <2>1. Cardinality(Excused') \in Nat
    BY <1>3
  <2> QED
    BY <1>4, <1>8, <2>1, MemoryAssumption DEF WithinLimit
<1> QED
  BY <1>5, <1>6, <1>7, <1>8

LEMMA MemoryStepLimit ==
    ASSUME MemoryTypes, MemoryTypes', alone, OneRequest, StillListed, WithinLimit,
           NEW r \in MemoryRequests, MemoryStep(r)
    PROVE  OneRequest' /\ StillListed' /\ WithinLimit'
<1>0. \A s \in MemoryRequests \ {r} :
        /\ remembering[s] \in Resting
        /\ remembering'[s] = remembering[s]
        /\ read'[s] = read[s]
  BY OthersRest
<1>1. OneRequest'
  BY <1>0 DEF OneRequest
<1> USE DEF MemoryTypes, MemoryPlaces, Resting, Counting, Memory!Goto, Memory!Begin, StillListed
<1>3. CASE Memory!Store(r)
  <2>1. CASE Memory!StoreHash(r)
    <3>1. StillListed'
      BY <1>0, <2>1 DEF Memory!StoreHash
    <3>2. index' = index /\ r \notin Excused
      BY <2>1 DEF Memory!StoreHash, Excused
    <3> QED
      BY <1>0, <1>1, <3>1, <3>2, LimitKept
  <2>2. CASE Memory!StoreIndex(r)
    <3>1. StillListed'
      BY <1>0, <2>2 DEF Memory!StoreIndex
    <3>2. /\ r \notin Excused /\ r \in Excused'
          /\ index' = index \cup {mine[r]} /\ mine[r] \in Memories
      BY <2>2 DEF Memory!StoreIndex, Excused
    <3> QED
      BY <1>0, <1>1, <3>1, <3>2, LimitKept
  <2>3. CASE Memory!Count(r)
    <3>1. StillListed'
      BY <1>0, <2>3 DEF Memory!Count
    <3>2. index' = index /\ (r \in Excused' \/ Cardinality(index') <= MaxMemories)
      <4>1. CASE Memory!Full
        BY <2>3, <4>1 DEF Memory!Count, Excused
      <4>2. CASE ~Memory!Full
        <5>1. Cardinality(index) \in Nat
          BY MemoryAssumption, FS_Subset, FS_CardinalityType
        <5> QED
          BY <2>3, <4>2, <5>1, MemoryCardinality, MemoryAssumption DEF Memory!Count, Memory!Full
      <4> QED
        BY <4>1, <4>2
    <3> QED
      BY <1>0, <1>1, <3>1, <3>2, LimitKept
  <2>4. CASE Memory!PickLowest(r)
    <3>1. StillListed'
      BY <1>0, <2>4 DEF Memory!PickLowest, Memory!Lowest
    <3>2. index' = index /\ (r \in Excused' \/ index = {})
      BY <2>4 DEF Memory!PickLowest, Excused
    <3>3. index = {} => Cardinality(index) <= MaxMemories
      BY FS_EmptySet, MemoryAssumption
    <3> QED
      BY <1>0, <1>1, <3>1, <3>2, <3>3, LimitKept
  <2>5. CASE Memory!Evict(r)
    <3>1. StillListed'
      BY <1>0, <2>5 DEF Memory!Evict
    <3>2. index' = index /\ r \in Excused'
      BY <2>5 DEF Memory!Evict, Excused
    <3> QED
      BY <1>0, <1>1, <3>1, <3>2, LimitKept
  <2>6. CASE Memory!Unlist(r)
    <3>1. StillListed'
      BY <1>0, <2>6 DEF Memory!Unlist
    <3>2. mine[r] \in index /\ index' = index \ {mine[r]}
      BY <2>6 DEF Memory!Unlist
    <3> QED
      BY <1>0, <1>1, <3>1, <3>2, LimitKept
  <2> QED
    BY <1>3, <2>1, <2>2, <2>3, <2>4, <2>5, <2>6 DEF Memory!Store
<1>4. CASE Memory!List(r)
  <2>1. index' = index /\ r \notin Excused
    BY <1>4 DEF Memory!List, Memory!ReadIndex, Memory!ReadHash, Memory!ReadFails, Memory!Listed,
       Memory!Reading, Excused
  <2>2. CASE Memory!ReadIndex(r)
    <3>1. StillListed'
      BY <1>0, <2>2 DEF Memory!ReadIndex, Memory!Reading
    <3> QED
      BY <1>0, <1>1, <2>1, <3>1, LimitKept
  <2>3. CASE Memory!ReadHash(r)
    <3>1. StillListed'
      BY <1>0, <2>3 DEF Memory!ReadHash, Memory!Highest, Memory!Reading
    <3> QED
      BY <1>0, <1>1, <2>1, <3>1, LimitKept
  <2>4. CASE Memory!ReadFails(r)
    <3>1. StillListed'
      BY <1>0, <2>4 DEF Memory!ReadFails, Memory!Highest, Memory!Reading
    <3> QED
      BY <1>0, <1>1, <2>1, <3>1, LimitKept
  <2>5. CASE Memory!Listed(r)
    <3>1. StillListed'
      BY <1>0, <2>5 DEF Memory!Listed
    <3> QED
      BY <1>0, <1>1, <2>1, <3>1, LimitKept
  <2> QED
    BY <1>4, <2>2, <2>3, <2>4, <2>5 DEF Memory!List
<1>5. CASE Memory!Recall(r)
  <2>1. r \notin Excused
    BY <1>5 DEF Memory!Recall, Memory!Recalled, Memory!TouchHash, Memory!TouchIndex,
       Memory!TouchFails, Memory!Touched, Excused
  <2>2. CASE Memory!Recalled(r)
    <3>1. StillListed' /\ index' = index
      BY <1>0, <2>2 DEF Memory!Recalled, Memory!Best
    <3> QED
      BY <1>0, <1>1, <2>1, <3>1, LimitKept
  <2>3. CASE Memory!TouchHash(r)
    <3>1. StillListed' /\ index' = index
      BY <1>0, <2>3 DEF Memory!TouchHash
    <3> QED
      BY <1>0, <1>1, <2>1, <3>1, LimitKept
  <2>4. CASE Memory!TouchIndex(r)
    <3>1. index' = index
      BY <2>4 DEF Memory!TouchIndex
    <3>2. StillListed'
      BY <1>0, <2>4, <3>1 DEF Memory!TouchIndex
    <3> QED
      BY <1>0, <1>1, <2>1, <3>1, <3>2, LimitKept
  <2>5. CASE Memory!TouchFails(r)
    <3>1. index' = index /\ mine' = mine /\ read' = read
      BY <2>5 DEF Memory!TouchFails
    <3>2. remembering' = [remembering EXCEPT ![r] = "touch"] /\ remembering[r] \in {"touch", "relist"}
      BY <2>5 DEF Memory!TouchFails
    <3>3. \A s \in MemoryRequests : todo'[s] \subseteq todo[s]
      BY <2>5 DEF Memory!TouchFails
    <3>4. StillListed'
      BY <1>0, <3>1, <3>2, <3>3
    <3> QED
      BY <1>0, <1>1, <2>1, <3>1, <3>4, LimitKept
  <2>6. CASE Memory!Touched(r)
    <3>1. StillListed' /\ index' = index
      BY <1>0, <2>6 DEF Memory!Touched
    <3> QED
      BY <1>0, <1>1, <2>1, <3>1, LimitKept
  <2> QED
    BY <1>5, <2>2, <2>3, <2>4, <2>5, <2>6 DEF Memory!Recall
<1>6. CASE Memory!Clear(r)
  <2>1. CASE Memory!ClearRead(r)
    <3>1. StillListed'
      BY <1>0, <2>1 DEF Memory!ClearRead
    <3>2. index' = index /\ r \notin Excused
      BY <2>1 DEF Memory!ClearRead, Excused
    <3> QED
      BY <1>0, <1>1, <3>1, <3>2, LimitKept
  <2>2. CASE Memory!ClearDelete(r)
    <3>1. StillListed'
      BY <1>0, <2>2 DEF Memory!ClearDelete
    <3>2. index' = {} /\ r \notin Excused
      BY <2>2 DEF Memory!ClearDelete, Excused
    <3> QED
      BY <1>0, <1>1, <3>1, <3>2, LimitKept
  <2> QED
    BY <1>6, <2>1, <2>2 DEF Memory!Clear
<1>7. CASE Memory!Fails(r)
  <2>1. StillListed' /\ index' = index /\ r \in Excused'
    BY <1>0, <1>7 DEF Memory!Fails, Memory!Storing, Excused
  <2> QED
    BY <1>0, <1>1, <2>1, LimitKept
<1> QED
  BY <1>3, <1>4, <1>5, <1>6, <1>7 DEF MemoryStep

\* What was evicted or cleared stays forgotten, however the requests of the
\* user interleave; and where they follow one another, the index is over its
\* limit only by what runs or failed.
THEOREM MemoriesKept == Memory!Spec => []MemoriesRight
<1>1. Memory!Init => MemoryInv
  <2> SUFFICES ASSUME Memory!Init PROVE MemoryInv
    OBVIOUS
  <2>1. MemoryTypes /\ Forgotten /\ OneRequest /\ StillListed /\ alone \in BOOLEAN
    BY DEF Memory!Init, MemoryTypes, MemoryPlaces, Resting, Forgotten, OneRequest, StillListed
  <2>2. WithinLimit
    <3>1. Cardinality(index) <= MaxMemories /\ Excused = {} /\ IsFiniteSet(index)
      BY MemoryCardinality, MemoryAssumption, FS_Subset DEF Memory!Init, Excused, Counting
    <3>2. Cardinality(Excused) = 0
      BY <3>1, FS_EmptySet
    <3>3. Cardinality(index) \in Nat
      BY <3>1, FS_CardinalityType
    <3> QED
      BY <3>1, <3>2, <3>3, MemoryAssumption DEF WithinLimit
  <2> QED
    BY <2>1, <2>2 DEF MemoryInv
<1>2. MemoryInv /\ [Memory!Next]_(Memory!vars) => MemoryInv'
  <2> SUFFICES ASSUME MemoryInv, [Memory!Next]_(Memory!vars) PROVE MemoryInv'
    OBVIOUS
  <2>1. CASE UNCHANGED Memory!vars
    BY <2>1 DEF Memory!vars, MemoryInv, MemoryTypes, Forgotten, OneRequest, StillListed,
       WithinLimit, Excused
  <2>2. ASSUME NEW r \in MemoryRequests, MemoryStep(r) PROVE MemoryInv'
    BY <2>2, MemoryStepTypes, MemoryStepForgotten, MemoryStepLimit DEF MemoryInv
  <2> QED
    BY <2>1, <2>2 DEF Memory!Next, MemoryStep
<1>3. MemoryInv => MemoriesRight
  <2> SUFFICES ASSUME MemoryInv PROVE MemoriesRight
    OBVIOUS
  <2>1. Memory!StaysForgotten
    BY DEF MemoryInv, Forgotten, Memory!StaysForgotten
  <2>2. ASSUME alone
        PROVE  Cardinality(index) <= MaxMemories
                 + Cardinality({r \in MemoryRequests : remembering[r] \in Memory!Storing \cup {"failed"}})
    <3> DEFINE late == {r \in MemoryRequests : remembering[r] \in Memory!Storing \cup {"failed"}}
    <3>1. Excused \subseteq late
      BY DEF Excused, Counting, Memory!Storing
    <3>2. IsFiniteSet(late) /\ IsFiniteSet(index)
      BY MemoryAssumption, FS_Subset DEF MemoryInv, MemoryTypes
    <3> HIDE DEF late
    <3>3. Cardinality(Excused) <= Cardinality(late) /\ IsFiniteSet(Excused)
      BY <3>1, <3>2, FS_Subset
    <3>4. Cardinality(Excused) \in Nat /\ Cardinality(late) \in Nat /\ Cardinality(index) \in Nat
      BY <3>2, <3>3, FS_CardinalityType
    <3>5. Cardinality(index) <= MaxMemories + Cardinality(late)
      BY <2>2, <3>3, <3>4, MemoryAssumption DEF MemoryInv, WithinLimit
    <3> QED
      BY <3>5 DEF late
  <2>3. Memory!CapHeld
    BY <2>2, MemoryCardinality DEF Memory!CapHeld
  <2> QED
    BY <2>1, <2>3 DEF MemoriesRight
<1> QED
  BY <1>1, <1>2, <1>3, PTL DEF Memory!Spec

-----------------------------------------------------------------------------
(* The resolvers.                                                          *)

LEMMA ResolverCardinality == \A S : Resolving!Cardinality(S) = Cardinality(S)
BY DEF Resolving!Cardinality, Cardinality

\* What the backend has held: everything it holds now, and only what it may.
BackendKnown ==
    /\ DOMAIN found = Resolving!NameKeys
    /\ \A k \in Resolving!NameKeys :
         /\ found[k] \in Hits[k] \cup {None}
         /\ <<k, found[k]>> \in ever.found
    /\ booked \subseteq ever.booked
    /\ booked \subseteq Bookings

\* The right answer to a question for an id, where there is one.
RightName(k, id) ==
    id # None => id \in Resolving!Ids(k[1]) /\ Resolving!Supported(k[1], k[2], id)

NamesKnown == \A k \in DOMAIN known : k \in Resolving!NameKeys /\ RightName(k, known[k])

\* The suggestion kept under k comes from bookings of the user it is kept for.
RightSuggestion(k, v) ==
    LET own == {b \in ever.booked : b.user = k[2]} IN
    /\ k[1] = "user" => \E b \in own : b.type = v
    /\ k[1] = "pair" => \E b \in own : b.project = k[3] /\ b.type = v
    /\ k[1] = "top" => v # {} /\ \A p \in v : \E b \in own : b.project = p

\* A question goes on as the kind of question it is.
GoesOn(r) ==
    /\ resolving[r] \in {"search", "shorter", "recent"} =>
         <<asks[r].kind, asks[r].of>> \in Resolving!NameKeys
    /\ resolving[r] \in {"shorter", "recent"} => asks[r].kind = "project"
    /\ resolving[r] = "shorter" => Shorter[asks[r].of] # None
    /\ resolving[r] \in {"pair", "user", "infer"} => asks[r].kind = "type"
    /\ resolving[r] = "pair" => asks[r].of # None
    /\ resolving[r] \in {"hours", "allhours"} => asks[r].kind = "hours"
    /\ resolving[r] = "top" => asks[r].kind = "top"

\* It is answered once, and a question for an id with a right one.
Answered(r) ==
    /\ resolving[r] # "done" => answer[r] = <<>>
    /\ answer[r] # <<>> /\ asks[r].kind \in Resolving!NameKinds =>
         \E id : answer[r] = <<id>> /\ RightName(<<asks[r].kind, asks[r].of>>, id)

ResolverInv ==
    /\ DOMAIN resolving = Questions /\ DOMAIN asks = Questions /\ DOMAIN answer = Questions
    /\ BackendKnown
    /\ NamesKnown
    /\ Resolving!OwnSuggestions
    /\ \A r \in Questions : GoesOn(r) /\ Answered(r)

\* What a step of one question leaves to show, where the backend stays.
LEMMA OneQuestion ==
    ASSUME ResolverInv, NEW r \in Questions, UNCHANGED <<found, booked, ever>>,
           DOMAIN resolving' = Questions, DOMAIN asks' = Questions, DOMAIN answer' = Questions,
           \A s \in Questions \ {r} :
             resolving'[s] = resolving[s] /\ asks'[s] = asks[s] /\ answer'[s] = answer[s],
           GoesOn(r)', Answered(r)',
           \/ UNCHANGED known
           \/ \E v : known' = Resolving!With(known, Resolving!NameKey(r), v)
                /\ Resolving!NameKey(r) \in Resolving!NameKeys /\ RightName(Resolving!NameKey(r), v),
           \/ UNCHANGED suggested
           \/ \E k, v : suggested' = Resolving!With(suggested, k, v) /\ RightSuggestion(k, v)
    PROVE  ResolverInv'
<1>1. BackendKnown'
  BY DEF ResolverInv, BackendKnown
<1>2. \A k, v : RightName(k, v) => RightName(k, v)'
  BY DEF RightName, Resolving!Supported
<1>3. NamesKnown'
  <2>1. CASE UNCHANGED known
    BY <1>2, <2>1 DEF ResolverInv, NamesKnown
  <2>2. ASSUME NEW v, known' = Resolving!With(known, Resolving!NameKey(r), v),
               Resolving!NameKey(r) \in Resolving!NameKeys, RightName(Resolving!NameKey(r), v)
        PROVE  NamesKnown'
    <3> DEFINE key == Resolving!NameKey(r)
    <3>1. key \in Resolving!NameKeys /\ RightName(key, v)
      BY <2>2
    <3>2. known' = [k \in DOMAIN known \cup {key} |-> IF k = key THEN v ELSE known[k]]
      BY <2>2 DEF Resolving!With
    <3> HIDE DEF key
    <3>3. DOMAIN known' = DOMAIN known \cup {key}
      BY <3>2
    <3>4. ASSUME NEW k \in DOMAIN known' PROVE k \in Resolving!NameKeys /\ RightName(k, known'[k])
      <4>1. CASE k = key
        BY <3>1, <3>2, <3>3, <4>1
      <4>2. CASE k # key
        <5>1. k \in DOMAIN known /\ known'[k] = known[k]
          BY <3>2, <3>3, <4>2
        <5> QED
          BY <5>1 DEF ResolverInv, NamesKnown
      <4> QED
        BY <4>1, <4>2
    <3>5. \A k, id : RightName(k, id)' <=> RightName(k, id)
      BY DEF RightName, Resolving!Supported
    <3> QED
      BY <3>4, <3>5 DEF NamesKnown
  <2> QED
    BY <2>1, <2>2
<1>4. Resolving!OwnSuggestions'
  <2>1. CASE UNCHANGED suggested
    BY <2>1 DEF ResolverInv, Resolving!OwnSuggestions
  <2>2. ASSUME NEW k, NEW v, suggested' = Resolving!With(suggested, k, v), RightSuggestion(k, v)
        PROVE  Resolving!OwnSuggestions'
    <3>1. /\ DOMAIN suggested' = DOMAIN suggested \cup {k}
          /\ suggested'[k] = v
          /\ \A j \in DOMAIN suggested : j # k => suggested'[j] = suggested[j]
      BY <2>2 DEF Resolving!With
    <3>2. ASSUME NEW j \in DOMAIN suggested' PROVE RightSuggestion(j, suggested'[j])
      BY <2>2, <3>1 DEF ResolverInv, Resolving!OwnSuggestions, RightSuggestion
    <3> QED
      BY <3>2 DEF Resolving!OwnSuggestions, RightSuggestion
  <2> QED
    BY <2>1, <2>2
<1>5. ASSUME NEW s \in Questions PROVE GoesOn(s)' /\ Answered(s)'
  <2>1. CASE s # r
    BY <1>2, <2>1 DEF ResolverInv, GoesOn, Answered
  <2> QED
    BY <2>1
<1> QED
  BY <1>1, <1>3, <1>4, <1>5 DEF ResolverInv

\* A step of question r changes what no other question asks.
OneAsks(r) == asks' = asks \/ \E ask : asks' = [asks EXCEPT ![r] = ask]

\* What r asks, when it has found a right name or suggestion to keep.
Keeps(r) ==
    /\ \/ UNCHANGED known
       \/ \E v : known' = Resolving!With(known, Resolving!NameKey(r), v)
            /\ Resolving!NameKey(r) \in Resolving!NameKeys /\ RightName(Resolving!NameKey(r), v)
    /\ \/ UNCHANGED suggested
       \/ \E k, v : suggested' = Resolving!With(suggested, k, v) /\ RightSuggestion(k, v)

LEMMA ToldRight ==
    ASSUME ResolverInv, NEW r \in Questions, UNCHANGED <<found, booked, ever>>, OneAsks(r),
           NEW v, Resolving!Tell(r, v), Keeps(r),
           asks'[r].kind \in Resolving!NameKinds => RightName(<<asks'[r].kind, asks'[r].of>>, v)
    PROVE  ResolverInv'
<1>1. /\ DOMAIN resolving' = Questions /\ DOMAIN asks' = Questions /\ DOMAIN answer' = Questions
      /\ resolving'[r] = "done" /\ answer'[r] = <<v>>
      /\ \A s \in Questions \ {r} :
           resolving'[s] = resolving[s] /\ asks'[s] = asks[s] /\ answer'[s] = answer[s]
  BY DEF ResolverInv, OneAsks, Resolving!Tell, Resolving!Goto
<1>2. GoesOn(r)'
  BY <1>1 DEF GoesOn
<1>3. RightName(<<asks'[r].kind, asks'[r].of>>, v)
        <=> RightName(<<asks[r].kind, asks[r].of>>, v)'
  BY DEF RightName, Resolving!Supported
<1>4. Answered(r)'
  BY <1>1, <1>3 DEF Answered
<1> QED
  BY <1>1, <1>2, <1>4, OneQuestion DEF Keeps

LEMMA WentOn ==
    ASSUME ResolverInv, NEW r \in Questions, UNCHANGED <<found, booked, ever, answer>>, OneAsks(r),
           NEW place, Resolving!Goto(r, place), resolving[r] # "done", Keeps(r), GoesOn(r)'
    PROVE  ResolverInv'
<1>1. /\ DOMAIN resolving' = Questions /\ DOMAIN asks' = Questions /\ DOMAIN answer' = Questions
      /\ answer'[r] = <<>>
      /\ \A s \in Questions \ {r} :
           resolving'[s] = resolving[s] /\ asks'[s] = asks[s] /\ answer'[s] = answer[s]
  BY DEF ResolverInv, OneAsks, Resolving!Goto, Answered
<1>2. Answered(r)'
  BY <1>1 DEF Answered
<1> QED
  BY <1>1, <1>2, OneQuestion DEF Keeps

LEMMA OneRemembers ==
    ASSUME ResolverInv, NEW r \in Questions, UNCHANGED <<found, booked, ever, suggested, asks>>,
           NEW v, Resolving!Remember(r, v),
           Resolving!NameKey(r) \in Resolving!NameKeys, RightName(Resolving!NameKey(r), v)
    PROVE  ResolverInv'
<1>1. Keeps(r)
  BY DEF Keeps, Resolving!Remember
<1>2. RightName(<<asks'[r].kind, asks'[r].of>>, v)
  BY DEF Resolving!NameKey, Resolving!KeyOf
<1> QED
  BY <1>1, <1>2, ToldRight DEF Resolving!Remember, OneAsks

LEMMA OneKeeps ==
    ASSUME ResolverInv, NEW r \in Questions, UNCHANGED <<found, booked, ever, known, asks>>,
           asks[r].kind \notin Resolving!NameKinds,
           NEW k, NEW v, Resolving!Keep(r, k, v), RightSuggestion(k, v)
    PROVE  ResolverInv'
<1>1. Keeps(r)
  BY DEF Keeps, Resolving!Keep
<1> QED
  BY <1>1, ToldRight DEF Resolving!Keep, OneAsks

LEMMA NewQuestion ==
    ASSUME ResolverInv, NEW r \in Questions, NEW ask, Resolving!Ask(r, ask)
    PROVE  OneAsks(r) /\ asks'[r] = ask /\ resolving[r] # "done"
BY DEF ResolverInv, Resolving!Ask, OneAsks

\* The ids the backend finds for a name are of the kind searched for.
LEMMA FoundIsRight ==
    ASSUME ResolverAssumption, BackendKnown, NEW kind \in Resolving!NameKinds, NEW name \in Names
    PROVE  RightName(<<kind, name>>, found[<<kind, name>>])
<1>1. <<kind, name>> \in Resolving!NameKeys
  BY DEF Resolving!NameKeys
<1>2. found[<<kind, name>>] # None => found[<<kind, name>>] \in Hits[<<kind, name>>]
  BY <1>1 DEF BackendKnown
<1>3. Hits[<<kind, name>>] \subseteq Resolving!Ids(kind)
  BY DEF ResolverAssumption, Resolving!NameKinds, Resolving!Ids
<1>4. <<<<kind, name>>, found[<<kind, name>>]>> \in ever.found
  BY <1>1 DEF BackendKnown
<1> QED
  BY <1>2, <1>3, <1>4 DEF RightName, Resolving!Supported

LEMMA AskNameKeeps ==
    ASSUME ResolverInv, NEW r \in Questions, Resolving!AskName(r)
    PROVE  ResolverInv'
<1>1. PICK ask \in [kind : Resolving!NameKinds, user : Users, of : Names] :
         /\ Resolving!Ask(r, ask)
         /\ IF Resolving!KeyOf(ask) \in DOMAIN known
              THEN Resolving!Tell(r, known[Resolving!KeyOf(ask)])
              ELSE Resolving!Goto(r, "search") /\ UNCHANGED answer
  BY DEF Resolving!AskName
<1>2. UNCHANGED <<found, booked, ever>> /\ Keeps(r)
  BY DEF Resolving!AskName, Resolving!backend, Keeps
<1>3. OneAsks(r) /\ asks'[r] = ask /\ resolving[r] # "done"
  BY <1>1, NewQuestion
<1>4. Resolving!KeyOf(ask) \in Resolving!NameKeys
  BY DEF Resolving!KeyOf, Resolving!NameKeys
<1>5. CASE Resolving!KeyOf(ask) \in DOMAIN known
  <2>1. RightName(Resolving!KeyOf(ask), known[Resolving!KeyOf(ask)])
    BY <1>5 DEF ResolverInv, NamesKnown
  <2>2. RightName(<<asks'[r].kind, asks'[r].of>>, known[Resolving!KeyOf(ask)])
    BY <2>1, <1>3 DEF Resolving!KeyOf
  <2> QED
    BY <1>1, <1>2, <1>3, <1>5, <2>2, ToldRight
<1>6. CASE Resolving!KeyOf(ask) \notin DOMAIN known
  <2>1. Resolving!Goto(r, "search") /\ UNCHANGED answer
    BY <1>1, <1>6
  <2>2. GoesOn(r)'
    <3>1. resolving'[r] = "search"
      BY <2>1 DEF Resolving!Goto, ResolverInv
    <3>2. <<asks'[r].kind, asks'[r].of>> \in Resolving!NameKeys
      BY <1>3, <1>4 DEF Resolving!KeyOf
    <3> QED
      BY <3>1, <3>2 DEF GoesOn
  <2> QED
    BY <2>1, <2>2, <1>2, <1>3, WentOn
<1> QED
  BY <1>5, <1>6

LEMMA SearchProjectKeeps ==
    ASSUME ResolverAssumption, ResolverInv, NEW r \in Questions, Resolving!SearchProject(r)
    PROVE  ResolverInv'
<1> DEFINE key == Resolving!NameKey(r)
           name == IF resolving[r] = "search" THEN asks[r].of ELSE Shorter[asks[r].of]
           value == found[<<"project", name>>]
<1>1. /\ UNCHANGED <<found, booked, ever, suggested, asks>>
      /\ OneAsks(r) /\ resolving[r] # "done"
  BY DEF Resolving!SearchProject, Resolving!backend, OneAsks
<1>2. /\ key = <<"project", asks[r].of>> /\ key \in Resolving!NameKeys /\ asks[r].of \in Names
      /\ asks[r].kind = "project"
  BY DEF Resolving!SearchProject, ResolverInv, GoesOn, Resolving!NameKey, Resolving!KeyOf,
         Resolving!NameKeys
<1>3. CASE value # None /\ Resolving!Remember(r, value)
  <2>1. /\ name \in Names
        /\ name = asks[r].of \/ (Shorter[asks[r].of] # None /\ name = Shorter[asks[r].of])
    <3>1. CASE resolving[r] = "search"
      BY <1>2, <3>1
    <3>2. CASE resolving[r] = "shorter"
      <4>1. Shorter[asks[r].of] # None
        BY <3>2 DEF ResolverInv, GoesOn
      <4> QED
        BY <1>2, <3>2, <4>1 DEF ResolverAssumption
    <3> QED
      BY <3>1, <3>2 DEF Resolving!SearchProject
  <2>2. RightName(<<"project", name>>, value)
    <3>1. "project" \in Resolving!NameKinds
      BY DEF Resolving!NameKinds
    <3>2. \A n \in Names : RightName(<<"project", n>>, found[<<"project", n>>])
      BY <3>1, FoundIsRight DEF ResolverInv
    <3> QED
      BY <2>1, <3>2
  <2>3. value \in Projects
    BY <1>3, <2>2 DEF RightName, Resolving!Ids
  <2>4. <<<<"project", name>>, value>> \in ever.found
    <3>1. <<"project", name>> \in Resolving!NameKeys
      BY <2>1 DEF Resolving!NameKeys, Resolving!NameKinds
    <3> HIDE DEF name
    <3> QED
      BY <3>1 DEF ResolverInv, BackendKnown
  <2>5. RightName(key, value)
    BY <1>2, <2>1, <2>3, <2>4 DEF RightName, Resolving!Ids, Resolving!Supported
  <2> QED
    BY <1>1, <1>2, <1>3, <2>5, OneRemembers
<1>4. CASE Resolving!NextSearch(r)
  <2> DEFINE place == IF resolving[r] = "search" /\ Shorter[asks[r].of] # None THEN "shorter" ELSE "recent"
  <2>1. Resolving!Goto(r, place) /\ UNCHANGED <<known, answer>>
    BY <1>4 DEF Resolving!NextSearch
  <2>2. resolving'[r] = place
    BY <2>1 DEF Resolving!Goto, ResolverInv
  <2>3. GoesOn(r)'
    BY <1>1, <1>2, <2>2 DEF GoesOn, Resolving!NameKey, Resolving!KeyOf
  <2>4. Keeps(r)
    BY <1>1, <2>1 DEF Keeps
  <2> QED
    BY <1>1, <2>1, <2>3, <2>4, WentOn
<1>5. CASE Resolving!Tell(r, None) /\ UNCHANGED known
  <2>1. Keeps(r)
    BY <1>1, <1>5 DEF Keeps
  <2>2. RightName(<<asks'[r].kind, asks'[r].of>>, None)
    BY DEF RightName
  <2> QED
    BY <1>1, <1>5, <2>1, <2>2, ToldRight
<1> QED
  BY <1>3, <1>4, <1>5 DEF Resolving!SearchProject

LEMMA LookupMemberKeeps ==
    ASSUME ResolverAssumption, ResolverInv, NEW r \in Questions, Resolving!LookupMember(r)
    PROVE  ResolverInv'
<1> DEFINE key == Resolving!NameKey(r)
<1>1. UNCHANGED <<found, booked, ever, suggested, asks>>
  BY DEF Resolving!LookupMember, Resolving!backend
<1>2. key = <<"member", asks[r].of>> /\ key \in Resolving!NameKeys /\ asks[r].of \in Names
  BY DEF Resolving!LookupMember, ResolverInv, GoesOn, Resolving!NameKey, Resolving!KeyOf,
         Resolving!NameKeys
<1>3. RightName(key, found[<<"member", asks[r].of>>]) /\ RightName(key, None)
  <2>1. RightName(key, None)
    BY DEF RightName
  <2> QED
    BY <1>2, <2>1, FoundIsRight DEF ResolverInv, Resolving!NameKinds
<1> QED
  BY <1>1, <1>2, <1>3, OneRemembers DEF Resolving!LookupMember

LEMMA RecentKeeps ==
    ASSUME ResolverAssumption, ResolverInv, NEW r \in Questions, Resolving!Recent(r)
    PROVE  ResolverInv'
<1> DEFINE key == Resolving!NameKey(r)
           best == Resolving!BestMatches(asks[r].user, asks[r].of)
<1>1. UNCHANGED <<found, booked, ever, suggested, asks>>
  BY DEF Resolving!Recent, Resolving!backend
<1>2. key = <<"project", asks[r].of>> /\ key \in Resolving!NameKeys
  BY DEF Resolving!Recent, ResolverInv, GoesOn, Resolving!NameKey, Resolving!KeyOf
<1>3. ASSUME NEW p \in best PROVE RightName(key, p)
  <2>1. Score[asks[r].of][p] > 0 /\ \E b \in booked : b.project = p
    BY <1>3 DEF Resolving!BestMatches, Resolving!Of
  <2>2. (\E b \in ever.booked : b.project = p) /\ p \in Projects
    BY <2>1 DEF ResolverInv, BackendKnown, ResolverAssumption
  <2> QED
    BY <1>2, <2>1, <2>2 DEF RightName, Resolving!Ids, Resolving!Supported
<1>4. RightName(key, None)
  BY DEF RightName
<1> QED
  BY <1>1, <1>2, <1>3, <1>4, OneRemembers DEF Resolving!Recent

\* What is read for user u and project p is bookings of u, of p if there is one.
LEMMA ReadsAreOwn ==
    ASSUME BackendKnown, NEW u, NEW p, NEW S \in Resolving!Reads(u, p)
    PROVE  \A b \in S : b \in ever.booked /\ b.user = u /\ (p # None => b.project = p)
BY DEF BackendKnown, Resolving!Reads, Resolving!History, Resolving!Of

LEMMA ModesAreBooked ==
    ASSUME NEW S, NEW t \in Resolving!Modes(S) PROVE \E b \in S : b.type = t
<1>1. t \in {b.type : b \in S}
  BY DEF Resolving!Modes
<1> QED
  BY <1>1

\* Of the projects of some bookings at least one is suggested.
LEMMA TopsAreBooked ==
    ASSUME ResolverAssumption, NEW S, IsFiniteSet(S), S # {}, NEW T \in Resolving!Tops(S)
    PROVE  T # {} /\ \A p \in T : \E b \in S : b.project = p
<1> DEFINE ps == {b.project : b \in S}
<1>1. T \subseteq ps
  BY DEF Resolving!Tops
<1>2. Resolving!Cardinality(T) =
        IF Resolving!Cardinality(ps) < SuggestTop THEN Resolving!Cardinality(ps) ELSE SuggestTop
  BY DEF Resolving!Tops
<1>3. Cardinality(T) = IF Cardinality(ps) < SuggestTop THEN Cardinality(ps) ELSE SuggestTop
  BY <1>2, ResolverCardinality
<1>4. IsFiniteSet(ps)
  <2> DEFINE f == [b \in S |-> b.project]
  <2>1. f \in Surjection(S, ps)
    BY DEF Surjection
  <2> QED
    BY <2>1, FS_Surjection
<1>5. ps # {}
  OBVIOUS
<1>6. Cardinality(ps) \in Nat /\ Cardinality(ps) # 0
  BY <1>4, <1>5, FS_EmptySet, FS_CardinalityType
<1>7. Cardinality({}) = 0
  BY FS_EmptySet
<1>8. T # {}
  BY <1>3, <1>6, <1>7 DEF ResolverAssumption
<1> QED
  BY <1>1, <1>8

LEMMA AskTypeKeeps ==
    ASSUME ResolverInv, NEW r \in Questions, Resolving!AskType(r)
    PROVE  ResolverInv'
<1>1. PICK ask \in [kind : {"type"}, user : Users, of : Projects \cup {None}] :
         /\ Resolving!Ask(r, ask)
         /\ IF ask.of = None THEN Resolving!Cached(r, Resolving!UserKey(ask.user), "user")
            ELSE Resolving!Cached(r, <<"pair", ask.user, ask.of>>, "pair")
  BY DEF Resolving!AskType
<1>2. UNCHANGED <<found, booked, ever, known, suggested>>
  BY <1>1 DEF Resolving!AskType, Resolving!backend, Resolving!Cached
<1>3. OneAsks(r) /\ asks'[r] = ask /\ ask.kind = "type" /\ resolving[r] # "done" /\ Keeps(r)
  BY <1>1, <1>2, NewQuestion DEF Keeps
<1>4. ASSUME NEW v, Resolving!Tell(r, v) PROVE ResolverInv'
  BY <1>2, <1>3, <1>4, ToldRight DEF Resolving!NameKinds
<1>5. ASSUME NEW place, place = IF ask.of = None THEN "user" ELSE "pair",
             Resolving!Goto(r, place), UNCHANGED answer
      PROVE  ResolverInv'
  <2>1. resolving'[r] = place
    BY <1>5 DEF ResolverInv, Resolving!Goto
  <2>2. GoesOn(r)'
    BY <1>3, <1>5, <2>1 DEF GoesOn
  <2> QED
    BY <1>2, <1>3, <1>5, <2>2, WentOn
<1> QED
  BY <1>1, <1>4, <1>5 DEF Resolving!Cached

LEMMA PairHistoryKeeps ==
    ASSUME ResolverInv, NEW r \in Questions, Resolving!PairHistory(r)
    PROVE  ResolverInv'
<1>1. /\ UNCHANGED <<found, booked, ever, known, asks>> /\ OneAsks(r)
      /\ resolving[r] = "pair" /\ asks[r].kind = "type" /\ asks[r].of # None
  BY DEF Resolving!PairHistory, Resolving!backend, OneAsks, ResolverInv, GoesOn
<1>2. PICK records \in Resolving!Reads(asks[r].user, asks[r].of) :
         \/ \E t \in Resolving!Modes(records) : Resolving!Keep(r, Resolving!Key("pair", r), t)
         \/ records = {} /\ Resolving!Cached(r, Resolving!UserKey(asks[r].user), "user")
  BY DEF Resolving!PairHistory
<1>3. ASSUME NEW t \in Resolving!Modes(records), Resolving!Keep(r, Resolving!Key("pair", r), t)
      PROVE  ResolverInv'
  <2>1. RightSuggestion(Resolving!Key("pair", r), t)
    BY <1>1, ReadsAreOwn, ModesAreBooked DEF ResolverInv, RightSuggestion, Resolving!Key
  <2> QED
    BY <1>1, <1>3, <2>1, OneKeeps DEF Resolving!NameKinds
<1>4. CASE Resolving!Cached(r, Resolving!UserKey(asks[r].user), "user")
  <2>1. Keeps(r)
    BY <1>1, <1>4 DEF Keeps, Resolving!Cached
  <2>2. ASSUME NEW v, Resolving!Tell(r, v) PROVE ResolverInv'
    BY <1>1, <2>1, <2>2, ToldRight DEF Resolving!NameKinds
  <2>3. ASSUME Resolving!Goto(r, "user"), UNCHANGED answer PROVE ResolverInv'
    <3>1. GoesOn(r)'
      BY <1>1, <2>3 DEF ResolverInv, Resolving!Goto, GoesOn
    <3> QED
      BY <1>1, <2>1, <2>3, <3>1, WentOn
  <2> QED
    BY <1>4, <2>2, <2>3 DEF Resolving!Cached
<1> QED
  BY <1>2, <1>3, <1>4

LEMMA UserHistoryKeeps ==
    ASSUME ResolverInv, NEW r \in Questions, Resolving!UserHistory(r)
    PROVE  ResolverInv'
<1>1. /\ UNCHANGED <<found, booked, ever, known, asks>> /\ OneAsks(r)
      /\ resolving[r] = "user" /\ asks[r].kind = "type"
  BY DEF Resolving!UserHistory, Resolving!backend, OneAsks, ResolverInv, GoesOn
<1>2. PICK records \in Resolving!Reads(asks[r].user, None) :
         \/ \E t \in Resolving!Modes(records) : Resolving!Keep(r, Resolving!UserKey(asks[r].user), t)
         \/ records = {} /\ Resolving!Goto(r, "infer") /\ UNCHANGED <<suggested, answer>>
  BY DEF Resolving!UserHistory
<1>3. ASSUME NEW t \in Resolving!Modes(records),
             Resolving!Keep(r, Resolving!UserKey(asks[r].user), t)
      PROVE  ResolverInv'
  <2>1. RightSuggestion(Resolving!UserKey(asks[r].user), t)
    BY ReadsAreOwn, ModesAreBooked DEF ResolverInv, RightSuggestion, Resolving!UserKey
  <2> QED
    BY <1>1, <1>3, <2>1, OneKeeps DEF Resolving!NameKinds
<1>4. CASE Resolving!Goto(r, "infer") /\ UNCHANGED <<suggested, answer>>
  <2>1. GoesOn(r)'
    BY <1>1, <1>4 DEF ResolverInv, Resolving!Goto, GoesOn
  <2> QED
    BY <1>1, <1>4, <2>1, WentOn DEF Keeps
<1> QED
  BY <1>2, <1>3, <1>4

\* The guess of a type is told and not kept.
LEMMA InferKeeps ==
    ASSUME ResolverInv, NEW r \in Questions, Resolving!Infer(r)
    PROVE  ResolverInv'
<1>1. /\ UNCHANGED <<found, booked, ever, known, suggested, asks>> /\ OneAsks(r) /\ Keeps(r)
      /\ asks[r].kind = "type"
  BY DEF Resolving!Infer, Resolving!backend, OneAsks, Keeps, ResolverInv, GoesOn
<1> QED
  BY <1>1, ToldRight DEF Resolving!Infer, Resolving!NameKinds

LEMMA AskHoursKeeps ==
    ASSUME ResolverInv, NEW r \in Questions, Resolving!AskHours(r)
    PROVE  ResolverInv'
<1>1. PICK ask \in [kind : {"hours"}, user : Users, of : Projects \cup {None}] :
         /\ Resolving!Ask(r, ask)
         /\ Resolving!Cached(r, <<"hours", ask.user, ask.of>>, "hours")
  BY DEF Resolving!AskHours
<1>2. UNCHANGED <<found, booked, ever, known, suggested>>
  BY <1>1 DEF Resolving!AskHours, Resolving!backend, Resolving!Cached
<1>3. OneAsks(r) /\ asks'[r] = ask /\ ask.kind = "hours" /\ resolving[r] # "done" /\ Keeps(r)
  BY <1>1, <1>2, NewQuestion DEF Keeps
<1>4. ASSUME NEW v, Resolving!Tell(r, v) PROVE ResolverInv'
  BY <1>2, <1>3, <1>4, ToldRight DEF Resolving!NameKinds
<1>5. ASSUME Resolving!Goto(r, "hours"), UNCHANGED answer PROVE ResolverInv'
  <2>1. GoesOn(r)'
    BY <1>3, <1>5 DEF ResolverInv, Resolving!Goto, GoesOn
  <2> QED
    BY <1>2, <1>3, <1>5, <2>1, WentOn
<1> QED
  BY <1>1, <1>4, <1>5 DEF Resolving!Cached

LEMMA HoursHistoryKeeps ==
    ASSUME ResolverInv, NEW r \in Questions, Resolving!HoursHistory(r)
    PROVE  ResolverInv'
<1>1. /\ UNCHANGED <<found, booked, ever, known, asks>> /\ OneAsks(r)
      /\ resolving[r] # "done" /\ asks[r].kind = "hours"
  BY DEF Resolving!HoursHistory, Resolving!backend, OneAsks, ResolverInv, GoesOn
<1>2. ASSUME NEW v, Resolving!Keep(r, Resolving!Key("hours", r), v) PROVE ResolverInv'
  BY <1>1, <1>2, OneKeeps DEF RightSuggestion, Resolving!Key, Resolving!NameKinds
<1>3. ASSUME Resolving!Goto(r, "allhours"), UNCHANGED <<suggested, answer>> PROVE ResolverInv'
  <2>1. GoesOn(r)'
    BY <1>1, <1>3 DEF ResolverInv, Resolving!Goto, GoesOn
  <2> QED
    BY <1>1, <1>3, <2>1, WentOn DEF Keeps
<1> QED
  BY <1>2, <1>3 DEF Resolving!HoursHistory

LEMMA AskTopKeeps ==
    ASSUME ResolverInv, NEW r \in Questions, Resolving!AskTop(r)
    PROVE  ResolverInv'
<1>1. PICK ask \in [kind : {"top"}, user : Users, of : {None}] :
         /\ Resolving!Ask(r, ask)
         /\ Resolving!Cached(r, <<"top", ask.user, None>>, "top")
  BY DEF Resolving!AskTop
<1>2. UNCHANGED <<found, booked, ever, known, suggested>>
  BY <1>1 DEF Resolving!AskTop, Resolving!backend, Resolving!Cached
<1>3. OneAsks(r) /\ asks'[r] = ask /\ ask.kind = "top" /\ resolving[r] # "done" /\ Keeps(r)
  BY <1>1, <1>2, NewQuestion DEF Keeps
<1>4. ASSUME NEW v, Resolving!Tell(r, v) PROVE ResolverInv'
  BY <1>2, <1>3, <1>4, ToldRight DEF Resolving!NameKinds
<1>5. ASSUME Resolving!Goto(r, "top"), UNCHANGED answer PROVE ResolverInv'
  <2>1. GoesOn(r)'
    BY <1>3, <1>5 DEF ResolverInv, Resolving!Goto, GoesOn
  <2> QED
    BY <1>2, <1>3, <1>5, <2>1, WentOn
<1> QED
  BY <1>1, <1>4, <1>5 DEF Resolving!Cached

LEMMA TopHistoryKeeps ==
    ASSUME ResolverAssumption, ResolverInv, NEW r \in Questions, Resolving!TopHistory(r)
    PROVE  ResolverInv'
<1>1. /\ UNCHANGED <<found, booked, ever, known, asks>> /\ OneAsks(r)
      /\ asks[r].kind = "top"
  BY DEF Resolving!TopHistory, Resolving!backend, OneAsks, ResolverInv, GoesOn
<1>2. PICK records \in Resolving!Reads(asks[r].user, None) :
         IF records = {} THEN Resolving!Tell(r, {}) /\ UNCHANGED suggested
         ELSE \E top \in Resolving!Tops(records) : Resolving!Keep(r, Resolving!Key("top", r), top)
  BY DEF Resolving!TopHistory
<1>3. CASE Resolving!Tell(r, {}) /\ UNCHANGED suggested
  BY <1>1, <1>3, ToldRight DEF Keeps, Resolving!NameKinds
<1>4. ASSUME records # {}, NEW top \in Resolving!Tops(records),
             Resolving!Keep(r, Resolving!Key("top", r), top)
      PROVE  ResolverInv'
  <2>1. records \subseteq Bookings
    BY DEF ResolverInv, BackendKnown, Resolving!Reads, Resolving!History, Resolving!Of
  <2>2. IsFiniteSet(records)
    BY <2>1, FS_Subset DEF ResolverAssumption
  <2>3. top # {} /\ \A p \in top : \E b \in records : b.project = p
    BY <1>4, <2>2, TopsAreBooked
  <2>4. \A b \in records : b \in ever.booked /\ b.user = asks[r].user
    BY ReadsAreOwn DEF ResolverInv
  <2>5. RightSuggestion(Resolving!Key("top", r), top)
    BY <2>3, <2>4 DEF RightSuggestion, Resolving!Key
  <2> QED
    BY <1>1, <1>4, <2>5, OneKeeps DEF Resolving!NameKinds
<1> QED
  BY <1>2, <1>3, <1>4

\* What was right stays right when the backend changes: ever only grows.
LEMMA ChangeKeeps ==
    ASSUME ResolverInv, Resolving!Change
    PROVE  ResolverInv'
<1>1. UNCHANGED <<known, suggested, asks, resolving, answer>>
  BY DEF Resolving!Change
<1>2. /\ ever.found \subseteq ever'.found /\ ever.booked \subseteq ever'.booked
      /\ \A k \in Resolving!NameKeys : <<k, found'[k]>> \in ever'.found
      /\ booked' \subseteq ever'.booked
  BY DEF Resolving!Change
<1>3. BackendKnown'
  <2>1. CASE \E k \in Resolving!NameKeys : \E id \in Hits[k] \cup {None} :
               found' = [found EXCEPT ![k] = id] /\ UNCHANGED booked
    BY <1>2, <2>1 DEF ResolverInv, BackendKnown
  <2>2. CASE (\E b \in Bookings : booked' = IF b \in booked THEN booked \ {b} ELSE booked \cup {b})
               /\ UNCHANGED found
    BY <1>2, <2>2 DEF ResolverInv, BackendKnown
  <2> QED
    BY <2>1, <2>2 DEF Resolving!Change
<1>4. \A k, id : RightName(k, id) => RightName(k, id)'
  BY <1>2 DEF RightName, Resolving!Supported
<1>5. NamesKnown'
  BY <1>1, <1>4 DEF ResolverInv, NamesKnown
<1>6. \A k, v : RightSuggestion(k, v) => RightSuggestion(k, v)'
  BY <1>2 DEF RightSuggestion
<1>7. Resolving!OwnSuggestions'
  <2>1. \A k \in DOMAIN suggested : RightSuggestion(k, suggested[k])
    BY DEF ResolverInv, Resolving!OwnSuggestions, RightSuggestion
  <2>2. \A k \in DOMAIN suggested : RightSuggestion(k, suggested[k])'
    BY <1>1, <1>6, <2>1
  <2> QED
    BY <1>1, <2>2 DEF Resolving!OwnSuggestions, RightSuggestion
<1>8. \A r \in Questions : GoesOn(r)' /\ Answered(r)'
  BY <1>1, <1>4 DEF ResolverInv, GoesOn, Answered
<1> QED
  BY <1>1, <1>3, <1>5, <1>7, <1>8 DEF ResolverInv

LEMMA SuggestionsApart ==
    ASSUME ResolverInv, UNCHANGED <<found, booked, ever, known, asks, resolving, answer>>,
           Resolving!OwnSuggestions'
    PROVE  ResolverInv'
<1>1. BackendKnown'
  BY DEF ResolverInv, BackendKnown
<1>2. \A k, id : RightName(k, id)' <=> RightName(k, id)
  BY DEF RightName, Resolving!Supported
<1>3. NamesKnown'
  BY <1>2 DEF ResolverInv, NamesKnown
<1>4. \A r \in Questions : GoesOn(r)' /\ Answered(r)'
  BY <1>2 DEF ResolverInv, GoesOn, Answered
<1> QED
  BY <1>1, <1>3, <1>4 DEF ResolverInv

LEMMA ExpireKeeps ==
    ASSUME ResolverInv, Resolving!Expire
    PROVE  ResolverInv'
<1>1. UNCHANGED <<found, booked, ever, known, asks, resolving, answer>>
  BY DEF Resolving!Expire, Resolving!backend
<1>2. Resolving!OwnSuggestions'
  <2>1. /\ DOMAIN suggested' \subseteq DOMAIN suggested
        /\ \A k \in DOMAIN suggested' : suggested'[k] = suggested[k]
    BY DEF Resolving!Expire
  <2> QED
    BY <1>1, <2>1 DEF ResolverInv, Resolving!OwnSuggestions
<1> QED
  BY <1>1, <1>2, SuggestionsApart

LEMMA ResolverInit ==
    ASSUME Resolving!Init PROVE ResolverInv
<1>1. BackendKnown
  BY DEF Resolving!Init, BackendKnown
<1> QED
  BY <1>1 DEF Resolving!Init, ResolverInv, NamesKnown, Resolving!OwnSuggestions, GoesOn, Answered

LEMMA ResolverStep ==
    ASSUME ResolverAssumption, ResolverInv, [Resolving!Next]_(Resolving!vars)
    PROVE  ResolverInv'
<1>1. CASE UNCHANGED Resolving!vars
  BY <1>1, SuggestionsApart DEF Resolving!vars, ResolverInv, Resolving!OwnSuggestions
<1>2. ASSUME NEW r \in Questions,
             Resolving!ResolveName(r) \/ Resolving!ResolveType(r)
               \/ Resolving!ResolveHours(r) \/ Resolving!ResolveTop(r)
      PROVE  ResolverInv'
  BY <1>2, AskNameKeeps, SearchProjectKeeps, LookupMemberKeeps, RecentKeeps,
     AskTypeKeeps, PairHistoryKeeps, UserHistoryKeeps, InferKeeps,
     AskHoursKeeps, HoursHistoryKeeps, AskTopKeeps, TopHistoryKeeps
     DEF Resolving!ResolveName, Resolving!ResolveType, Resolving!ResolveHours, Resolving!ResolveTop
<1> QED
  BY <1>1, <1>2, ChangeKeeps, ExpireKeeps DEF Resolving!Next

\* Every id told for a name was found for it, and every suggestion kept comes
\* from bookings of the user it is kept for: whatever the caches hold, however
\* the requests interleave and the backend changes (param_resolver.py,
\* work_type_resolver.py, project_resolver.py).
THEOREM NamesAndSuggestions == Resolving!Spec => []ResolvedRight
<1>1. Resolving!Init => ResolverInv
  BY ResolverInit
<1>2. ResolverInv /\ [Resolving!Next]_(Resolving!vars) => ResolverInv'
  BY ResolverAssumption, ResolverStep
<1>3. ResolverInv => ResolvedRight
  <2> SUFFICES ASSUME ResolverInv PROVE Resolving!NamesMatch
    BY DEF ResolverInv, ResolvedRight
  <2> SUFFICES ASSUME NEW r \in Questions,
                      answer[r] # <<>>, asks[r].kind \in Resolving!NameKinds, answer[r] # <<None>>
               PROVE  /\ answer[r][1] \in Resolving!Ids(asks[r].kind)
                      /\ Resolving!Supported(asks[r].kind, asks[r].of, answer[r][1])
    BY DEF Resolving!NamesMatch
  <2>1. PICK id : answer[r] = <<id>> /\ RightName(<<asks[r].kind, asks[r].of>>, id)
    BY DEF ResolverInv, Answered
  <2> QED
    BY <2>1 DEF RightName
<1> QED
  BY <1>1, <1>2, <1>3, PTL DEF Resolving!Spec

-----------------------------------------------------------------------------
(* Recursive functions: a recursion to something of a smaller measure is    *)
(* solved by exactly one function.                                         *)

\* A set of numbers has a least one.
LEMMA Least ==
    ASSUME NEW T, T \subseteq Nat, T # {}
    PROVE  \E x \in T : \A y \in T : x <= y
<1>1. PICK x \in T : \A y \in T : ~ (<<y, x>> \in OpToRel(<, Nat))
  BY NatLessThanWellFounded, WFMin
<1>2. ASSUME NEW y \in T PROVE x <= y
  <2>1. ~(y < x)
    BY <1>1 DEF OpToRel
  <2> QED
    BY <2>1
<1> QED
  BY <1>2

\* What a recursion says of the values on a part of its domain.
Solves(f, P, stop, base, next, comb) ==
    \A x \in P : f[x] = IF x \in stop THEN base[x] ELSE comb[<<x, f[next[x]]>>]

\* Where the measure is below n.
Below(D, m, n) == {x \in D : m[x] < n}

\* Two solutions agree where both are solutions.
LEMMA SolutionsAgree ==
    ASSUME NEW D, NEW m \in [D -> Nat], NEW stop, NEW base, NEW comb,
           NEW next \in [D -> D], \A x \in D : x \notin stop => m[next[x]] < m[x],
           NEW f, NEW g, NEW j \in Nat, NEW k \in Nat,
           Solves(f, Below(D, m, j), stop, base, next, comb),
           Solves(g, Below(D, m, k), stop, base, next, comb),
           NEW y \in D, m[y] < j, m[y] < k
    PROVE  f[y] = g[y]
<1> DEFINE Differ == {x \in D : m[x] < j /\ m[x] < k /\ f[x] # g[x]}
<1>1. SUFFICES ASSUME Differ # {} PROVE FALSE
  OBVIOUS
<1> DEFINE sizes == {m[x] : x \in Differ}
<1>2. sizes \subseteq Nat /\ sizes # {}
  BY <1>1
<1> HIDE DEF sizes
<1>3. PICK n \in sizes : \A i \in sizes : n <= i
  BY <1>2, Least
<1>4. PICK x \in Differ : m[x] = n
  BY <1>3 DEF sizes
<1>5. x \notin stop
  BY <1>4 DEF Solves, Below
<1>6. next[x] \in D /\ m[next[x]] < n /\ m[next[x]] \in Nat
  BY <1>4, <1>5
<1>7. next[x] \notin Differ
  <2>1. SUFFICES ASSUME next[x] \in Differ PROVE FALSE
    OBVIOUS
  <2>2. m[next[x]] \in sizes
    BY <2>1 DEF sizes
  <2> QED
    BY <1>2, <1>3, <1>6, <2>2
<1>8. f[next[x]] = g[next[x]]
  BY <1>4, <1>6, <1>7
<1> QED
  BY <1>4, <1>5, <1>8 DEF Solves, Below

\* A recursion that goes to something smaller defines a function.
LEMMA Recursion ==
    ASSUME NEW D, NEW V, NEW m \in [D -> Nat], NEW stop, NEW base \in [D -> V],
           NEW comb \in [D \X V -> V],
           NEW next \in [D -> D], \A x \in D : x \notin stop => m[next[x]] < m[x]
    PROVE  \E f \in [D -> V] : Solves(f, D, stop, base, next, comb)
<1> DEFINE Is(f, n) == f \in [Below(D, m, n) -> V] /\ Solves(f, Below(D, m, n), stop, base, next, comb)
<1> DEFINE Bad == {n \in Nat : ~ \E f : Is(f, n)}
<1>1. Bad = {}
  <2>1. SUFFICES ASSUME Bad # {} PROVE FALSE
    OBVIOUS
  <2>2. PICK n \in Bad : \A i \in Bad : n <= i
    <3>1. Bad \subseteq Nat
      OBVIOUS
    <3> HIDE DEF Bad
    <3> QED
      BY <2>1, <3>1, Least
  <2>3. n # 0
    <3>1. Below(D, m, 0) = {}
      BY DEF Below
    <3> DEFINE f == [x \in Below(D, m, 0) |-> x]
    <3>2. f \in [Below(D, m, 0) -> V] /\ Solves(f, Below(D, m, 0), stop, base, next, comb)
      BY <3>1 DEF Solves, Below
    <3> QED
      BY <3>2
  <2>4. n \in Nat /\ n - 1 \in Nat /\ n - 1 \notin Bad
    <3>1. n \in Nat
      BY <2>2
    <3> HIDE DEF Bad
    <3> QED
      BY <2>2, <2>3, <3>1
  <2>5. PICK g : Is(g, n - 1)
    BY <2>4
  <2> DEFINE f == [x \in Below(D, m, n) |-> IF x \in stop THEN base[x] ELSE comb[<<x, g[next[x]]>>]]
  <2>6. ASSUME NEW x \in Below(D, m, n), x \notin stop
        PROVE  next[x] \in Below(D, m, n - 1) /\ next[x] \in Below(D, m, n) /\ g[next[x]] \in V
    <3>1. next[x] \in D /\ m[next[x]] \in Nat /\ m[x] \in Nat /\ m[next[x]] < m[x] /\ m[x] < n
      BY <2>6 DEF Below
    <3>2. next[x] \in Below(D, m, n - 1) /\ next[x] \in Below(D, m, n)
      BY <2>4, <3>1 DEF Below
    <3> QED
      BY <2>5, <3>2
  <2>7. f \in [Below(D, m, n) -> V]
    <3>1. ASSUME NEW x \in Below(D, m, n) PROVE f[x] \in V
      BY <2>6 DEF Below
    <3> QED
      BY <3>1
  <2>8. ASSUME NEW x \in Below(D, m, n - 1) PROVE f[x] = g[x]
    <3>1. x \in Below(D, m, n)
      BY <2>4 DEF Below
    <3> QED
      BY <2>5, <3>1 DEF Solves, Below
  <2>9. Solves(f, Below(D, m, n), stop, base, next, comb)
    <3>1. ASSUME NEW x \in Below(D, m, n)
          PROVE  f[x] = IF x \in stop THEN base[x] ELSE comb[<<x, f[next[x]]>>]
      <4>1. CASE x \in stop
        BY <4>1
      <4>2. CASE x \notin stop
        <5>1. f[next[x]] = g[next[x]]
          BY <2>6, <2>8, <4>2
        <5> QED
          BY <4>2, <5>1
      <4> QED
        BY <4>1, <4>2
    <3> QED
      BY <3>1 DEF Solves, Below
  <2> QED
    BY <2>2, <2>7, <2>9
<1>2. \A n \in Nat : \E f : Is(f, n)
  BY <1>1
<1> DEFINE part(n) == CHOOSE f : Is(f, n)
<1>3. \A n \in Nat : Is(part(n), n)
  BY <1>2
<1> DEFINE F == [x \in D |-> part(m[x] + 1)[x]]
<1>4. ASSUME NEW x \in D PROVE x \in Below(D, m, m[x] + 1) /\ m[x] + 1 \in Nat /\ m[x] \in Nat
  BY DEF Below
<1> HIDE DEF part
<1>7. ASSUME NEW f, NEW g, NEW j \in Nat, NEW k \in Nat, NEW y \in D, m[y] < j, m[y] < k,
             Solves(f, Below(D, m, j), stop, base, next, comb),
             Solves(g, Below(D, m, k), stop, base, next, comb)
      PROVE  f[y] = g[y]
  BY <1>7, SolutionsAgree
<1>5. F \in [D -> V]
  <2>1. ASSUME NEW x \in D PROVE F[x] \in V
    BY <1>3, <1>4
  <2> QED
    BY <2>1
<1>6. ASSUME NEW x \in D
      PROVE  F[x] = IF x \in stop THEN base[x] ELSE comb[<<x, F[next[x]]>>]
  <2> DEFINE f == part(m[x] + 1)
  <2>1. f[x] = IF x \in stop THEN base[x] ELSE comb[<<x, f[next[x]]>>]
    BY <1>3, <1>4 DEF Solves, Below
  <2>2. ASSUME x \notin stop PROVE f[next[x]] = F[next[x]]
    <3> DEFINE y == next[x]
    <3> DEFINE g == part(m[y] + 1)
    <3>1. y \in D /\ m[y] < m[x] /\ m[y] \in Nat /\ m[x] \in Nat
      BY <2>2
    <3>2. m[y] < m[x] + 1 /\ m[y] < m[y] + 1 /\ m[x] + 1 \in Nat /\ m[y] + 1 \in Nat
      BY <3>1
    <3>3. Solves(f, Below(D, m, m[x] + 1), stop, base, next, comb)
          /\ Solves(g, Below(D, m, m[y] + 1), stop, base, next, comb)
      BY <1>3, <3>2
    <3> HIDE DEF f, g, y
    <3>4. f[y] = g[y]
      BY <1>7, <3>1, <3>2, <3>3
    <3> QED
      BY <3>1, <3>4 DEF y, g
  <2> QED
    BY <2>1, <2>2
<1> HIDE DEF F
<1> QED
  BY <1>5, <1>6 DEF Solves, Below

-----------------------------------------------------------------------------
(* Texts: the end and the beginning of one, character by character.        *)

\* The end of a text.
LEMMA DropIs ==
    ASSUME NEW s \in Stream!Texts, NEW n \in 0..Len(s)
    PROVE  /\ Stream!Drop(s, n) \in Stream!Texts
           /\ Len(Stream!Drop(s, n)) = Len(s) - n
           /\ \A k \in 1..(Len(s) - n) : Stream!Drop(s, n)[k] = s[n + k]
  BY DEF Stream!Drop, Stream!Texts

\* The beginning of a text.
LEMMA TakeIs ==
    ASSUME NEW s \in Stream!Texts, NEW n \in 0..Len(s)
    PROVE  /\ Stream!Take(s, n) \in Stream!Texts
           /\ Len(Stream!Take(s, n)) = n
           /\ \A k \in 1..n : Stream!Take(s, n)[k] = s[k]
  BY DEF Stream!Take, Stream!Texts

\* Two texts joined.
LEMMA ConcatIs ==
    ASSUME NEW s \in Stream!Texts, NEW c \in Stream!Texts
    PROVE  /\ s \o c \in Stream!Texts
           /\ Len(s \o c) = Len(s) + Len(c)
           /\ \A k \in 1..Len(s) : (s \o c)[k] = s[k]
           /\ \A k \in 1..Len(c) : (s \o c)[Len(s) + k] = c[k]
  BY DEF Stream!Texts

\* Texts are the same if their characters are.
LEMMA SameText ==
    ASSUME NEW s \in Stream!Texts, NEW c \in Stream!Texts, Len(s) = Len(c),
           \A k \in 1..Len(s) : s[k] = c[k]
    PROVE  s = c
  BY SeqEqual DEF Stream!Texts

\* Joining does not depend on the order.
LEMMA Joined ==
    \A s, c, d \in Stream!Texts : (s \o c) \o d = s \o (c \o d)
  BY ConcatAssociative DEF Stream!Texts

\* The same of three texts, under a name the provers need not look into.
Associate(s, c, d) == (s \o c) \o d = s \o (c \o d)

LEMMA JoinedThree ==
    ASSUME NEW s \in Stream!Texts, NEW c \in Stream!Texts, NEW d \in Stream!Texts
    PROVE  Associate(s, c, d)
  BY Joined DEF Associate

\* The empty text.
LEMMA TextOps ==
    ASSUME NEW s \in Stream!Texts
    PROVE  /\ <<>> \in Stream!Texts /\ <<>> \o s = s /\ s \o <<>> = s
           /\ Len(s) \in Nat /\ (Len(s) = 0 <=> s = <<>>)
  BY DEF Stream!Texts

\* Beginning and end make the text.
LEMMA DropAll ==
    ASSUME NEW s \in Stream!Texts, NEW n \in 0..Len(s)
    PROVE  Stream!Take(s, n) \o Stream!Drop(s, n) = s
<1> DEFINE h == Stream!Take(s, n)
<1> DEFINE d == Stream!Drop(s, n)
<1>1. /\ h \in Stream!Texts /\ Len(h) = n /\ \A k \in 1..n : h[k] = s[k]
      /\ d \in Stream!Texts /\ Len(d) = Len(s) - n /\ \A k \in 1..(Len(s) - n) : d[k] = s[n + k]
      /\ Len(s) \in Nat
  BY DropIs, TakeIs, TextOps
<1> HIDE DEF h, d
<1>2. /\ h \o d \in Stream!Texts /\ Len(h \o d) = Len(s)
      /\ \A k \in 1..n : (h \o d)[k] = s[k]
      /\ \A k \in 1..(Len(s) - n) : (h \o d)[n + k] = s[n + k]
  <2>1. /\ h \o d \in Stream!Texts /\ Len(h \o d) = Len(h) + Len(d)
        /\ \A k \in 1..Len(h) : (h \o d)[k] = h[k]
        /\ \A k \in 1..Len(d) : (h \o d)[Len(h) + k] = d[k]
    BY <1>1, ConcatIs
  <2> QED
    BY <1>1, <2>1
<1>3. ASSUME NEW k \in 1..Len(s) PROVE (h \o d)[k] = s[k]
  <2>1. CASE k <= n
    BY <1>2, <2>1
  <2>2. CASE k > n
    <3>1. k - n \in 1..(Len(s) - n) /\ n + (k - n) = k
      BY <1>1, <2>2
    <3> QED
      BY <1>2, <3>1
  <2> QED
    BY <1>1, <2>1, <2>2
<1>4. h \o d = s
  BY <1>2, <1>3, SameText
<1> QED
  BY <1>4 DEF h, d

\* Where a text is continued, its end is.
LEMMA DropConcat ==
    ASSUME NEW s \in Stream!Texts, NEW c \in Stream!Texts, NEW n \in 0..Len(s)
    PROVE  /\ Stream!Drop(s \o c, n) = Stream!Drop(s, n) \o c
           /\ Stream!Take(s \o c, n) = Stream!Take(s, n)
<1> DEFINE h == Stream!Take(s, n)
<1> DEFINE d == Stream!Drop(s, n)
<1> DEFINE w == s \o c
<1>1. Len(s) \in Nat /\ Len(c) \in Nat
  BY TextOps
<1>2. /\ h \in Stream!Texts /\ Len(h) = n /\ \A k \in 1..n : h[k] = s[k]
      /\ d \in Stream!Texts /\ Len(d) = Len(s) - n /\ \A k \in 1..(Len(s) - n) : d[k] = s[n + k]
  BY DropIs, TakeIs
<1>3. /\ w \in Stream!Texts /\ Len(w) = Len(s) + Len(c)
      /\ \A k \in 1..Len(s) : w[k] = s[k]
      /\ \A k \in 1..Len(c) : w[Len(s) + k] = c[k]
  BY ConcatIs
<1> HIDE DEF h, d, w
<1>4. n \in 0..Len(w)
  BY <1>1, <1>3
<1>5. /\ Stream!Take(w, n) \in Stream!Texts /\ Len(Stream!Take(w, n)) = n
      /\ \A k \in 1..n : Stream!Take(w, n)[k] = w[k]
      /\ Stream!Drop(w, n) \in Stream!Texts /\ Len(Stream!Drop(w, n)) = Len(w) - n
      /\ \A k \in 1..(Len(w) - n) : Stream!Drop(w, n)[k] = w[n + k]
  BY <1>3, <1>4, DropIs, TakeIs
<1>6. /\ d \o c \in Stream!Texts /\ Len(d \o c) = Len(d) + Len(c)
      /\ \A k \in 1..Len(d) : (d \o c)[k] = d[k]
      /\ \A k \in 1..Len(c) : (d \o c)[Len(d) + k] = c[k]
  BY <1>2, ConcatIs
<1>7. ASSUME NEW k \in 1..(Len(w) - n) PROVE Stream!Drop(w, n)[k] = (d \o c)[k]
  <2>1. CASE n + k <= Len(s)
    <3>1. k \in 1..Len(d) /\ n + k \in 1..Len(s) /\ k \in 1..(Len(s) - n)
      BY <1>1, <1>2, <2>1
    <3> QED
      BY <1>2, <1>3, <1>5, <1>6, <3>1
  <2>2. CASE n + k > Len(s)
    <3>1. PICK l \in 1..Len(c) : n + k = Len(s) + l /\ k = Len(d) + l
      <4>1. n + k - Len(s) \in 1..Len(c)
        BY <1>1, <1>2, <1>3, <2>2
      <4>2. n + k = Len(s) + (n + k - Len(s)) /\ k = Len(d) + (n + k - Len(s))
        BY <1>1, <1>2
      <4> QED
        BY <4>1, <4>2
    <3>2. Stream!Drop(w, n)[k] = w[n + k]
      BY <1>5
    <3>3. w[n + k] = c[l]
      BY <1>3, <3>1
    <3>4. (d \o c)[k] = c[l]
      BY <1>6, <3>1
    <3> QED
      BY <3>2, <3>3, <3>4
  <2> QED
    <3>1. k \in Nat /\ (n + k <= Len(s) \/ n + k > Len(s))
      BY <1>1, <1>3
    <3> QED
      BY <2>1, <2>2, <3>1
<1>8. Stream!Drop(w, n) = d \o c
  <2>1. Len(Stream!Drop(w, n)) = Len(d \o c)
    BY <1>1, <1>2, <1>3, <1>5, <1>6
  <2> QED
    BY <1>5, <1>6, <1>7, <2>1, SameText
<1>9. Stream!Take(w, n) = h
  <2>1. ASSUME NEW k \in 1..n PROVE Stream!Take(w, n)[k] = h[k]
    <3>1. k \in 1..Len(s)
      BY <1>1
    <3>2. Stream!Take(w, n)[k] = w[k] /\ w[k] = s[k] /\ h[k] = s[k]
      BY <1>2, <1>3, <1>5, <3>1
    <3> QED
      BY <3>2
  <2> QED
    BY <1>2, <1>5, <2>1, SameText
<1> QED
  BY <1>8, <1>9 DEF h, d, w

\* Beyond a beginning of h characters.
LEMMA DropBeyond ==
    ASSUME NEW h \in Stream!Texts, NEW c \in Stream!Texts, NEW n \in 0..Len(c)
    PROVE  /\ Stream!Drop(h \o c, Len(h) + n) = Stream!Drop(c, n)
           /\ Stream!Take(h \o c, Len(h) + n) = h \o Stream!Take(c, n)
<1> DEFINE t == Stream!Take(c, n)
<1> DEFINE d == Stream!Drop(c, n)
<1>1. /\ t \in Stream!Texts /\ Len(t) = n
      /\ d \in Stream!Texts
      /\ Len(h) \in Nat /\ t \o d = c
  BY DropIs, TakeIs, DropAll, TextOps
<1> HIDE DEF t, d
<1>2. h \o c = (h \o t) \o d /\ h \o t \in Stream!Texts /\ Len(h \o t) = Len(h) + n
  <2>1. h \o c = h \o (t \o d)
    BY <1>1
  <2>2. (h \o t) \o d = h \o (t \o d)
    BY <1>1, Joined
  <2>3. h \o t \in Stream!Texts /\ Len(h \o t) = Len(h) + Len(t)
    BY <1>1, ConcatIs
  <2> QED
    BY <1>1, <2>1, <2>2, <2>3
<1>3. /\ Stream!Drop(h \o t, Len(h) + n) = <<>>
      /\ Stream!Take(h \o t, Len(h) + n) = h \o t
  <2>1. \A s \in Stream!Texts : Stream!Drop(s, Len(s)) = <<>> /\ Stream!Take(s, Len(s)) = s
    <3>1. ASSUME NEW s \in Stream!Texts
          PROVE Stream!Drop(s, Len(s)) = <<>> /\ Stream!Take(s, Len(s)) = s
      <4>1. Len(s) \in 0..Len(s)
        BY TextOps
      <4>2. /\ Stream!Drop(s, Len(s)) \in Stream!Texts /\ Len(Stream!Drop(s, Len(s))) = Len(s) - Len(s)
            /\ Stream!Take(s, Len(s)) \in Stream!Texts
            /\ Stream!Take(s, Len(s)) \o Stream!Drop(s, Len(s)) = s
        BY <4>1, DropIs, TakeIs, DropAll
      <4>3. Stream!Drop(s, Len(s)) = <<>>
        BY <4>2, TextOps
      <4> QED
        BY <4>2, <4>3, TextOps
    <3> QED
      BY <3>1
  <2> QED
    BY <1>2, <2>1
<1>4. Len(h) + n \in 0..Len(h \o t)
  BY <1>1, <1>2
<1>5. /\ Stream!Drop(h \o c, Len(h) + n) = <<>> \o d
      /\ Stream!Take(h \o c, Len(h) + n) = h \o t
  <2>1. /\ Stream!Drop((h \o t) \o d, Len(h) + n) = Stream!Drop(h \o t, Len(h) + n) \o d
        /\ Stream!Take((h \o t) \o d, Len(h) + n) = Stream!Take(h \o t, Len(h) + n)
    BY <1>1, <1>2, <1>4, DropConcat
  <2> QED
    BY <1>2, <1>3, <2>1
<1>6. <<>> \o d = d
  BY <1>1, TextOps
<1> QED
  BY <1>5, <1>6 DEF t, d

-----------------------------------------------------------------------------
(* Where a token starts in a text, and how much of it may begin at the end. *)

Tokens == {Stream!OPEN, Stream!CLOSE}

\* The token starts at i.
Starts(s, mark, i) ==
    i + Len(mark) - 1 <= Len(s) /\ \A k \in 1..Len(mark) : s[i + k - 1] = mark[k]

\* The last n characters are the first n of the token.
Ends(s, mark, n) ==
    n <= Len(s) /\ \A k \in 1..n : s[Len(s) - n + k] = mark[k]

\* Both tokens are texts.
LEMMA TokenTexts ==
    /\ Stream!OPEN \in Stream!Texts /\ Len(Stream!OPEN) = 3
    /\ Stream!CLOSE \in Stream!Texts /\ Len(Stream!CLOSE) = 2
  BY DEF Stream!OPEN, Stream!CLOSE, Stream!Texts, Stream!Chars

\* What the two tokens have in common.
LEMMA TokenIs ==
    ASSUME NEW mark \in Tokens
    PROVE  mark \in Stream!Texts /\ Len(mark) \in Nat /\ 0 < Len(mark) /\ Len(mark) <= 3
<1>1. CASE mark = Stream!OPEN
  BY <1>1, TokenTexts
<1>2. CASE mark = Stream!CLOSE
  BY <1>2, TokenTexts
<1> QED
  BY <1>1, <1>2 DEF Tokens

\* A piece of a text.
LEMMA PieceIs ==
    ASSUME NEW s \in Stream!Texts, NEW i \in 1..Len(s), NEW l \in Nat, i + l - 1 <= Len(s)
    PROVE  /\ SubSeq(s, i, i + l - 1) \in Stream!Texts
           /\ Len(SubSeq(s, i, i + l - 1)) = l
           /\ \A k \in 1..l : SubSeq(s, i, i + l - 1)[k] = s[i + k - 1]
  BY DEF Stream!Texts

\* Find gives the first place where the token starts, if it starts at all.
LEMMA FindIs ==
    ASSUME NEW s \in Stream!Texts, NEW mark \in Tokens
    PROVE  /\ Stream!Find(s, mark) \in 0..Len(s)
           /\ Stream!Find(s, mark) = 0 => \A i \in 1..Len(s) : ~Starts(s, mark, i)
           /\ Stream!Find(s, mark) > 0 =>
                 /\ Starts(s, mark, Stream!Find(s, mark))
                 /\ \A i \in 1..Len(s) : Starts(s, mark, i) => Stream!Find(s, mark) <= i
<1> DEFINE places == {i \in 1..Len(s) : i + Len(mark) - 1 <= Len(s)
                                       /\ SubSeq(s, i, i + Len(mark) - 1) = mark}
<1>1. Stream!Find(s, mark) = IF places = {} THEN 0 ELSE CHOOSE i \in places : \A j \in places : i <= j
  BY DEF Stream!Find
<1>2. Len(s) \in Nat /\ mark \in Stream!Texts /\ Len(mark) \in Nat
  BY TextOps, TokenTexts DEF Tokens
<1>3. ASSUME NEW i \in 1..Len(s) PROVE i \in places <=> Starts(s, mark, i)
  <2>1. CASE i + Len(mark) - 1 <= Len(s)
    <3> DEFINE piece == SubSeq(s, i, i + Len(mark) - 1)
    <3>1. /\ piece \in Stream!Texts /\ Len(piece) = Len(mark)
          /\ \A k \in 1..Len(mark) : piece[k] = s[i + k - 1]
      BY <1>2, <2>1, PieceIs
    <3> HIDE DEF piece
    <3>2. piece = mark <=> \A k \in 1..Len(mark) : piece[k] = mark[k]
      BY <1>2, <3>1, SameText
    <3>3. (\A k \in 1..Len(mark) : piece[k] = mark[k])
            <=> \A k \in 1..Len(mark) : s[i + k - 1] = mark[k]
      BY <3>1
    <3> QED
      BY <2>1, <3>2, <3>3 DEF Starts, piece
  <2>2. CASE ~(i + Len(mark) - 1 <= Len(s))
    BY <2>2 DEF Starts
  <2> QED
    BY <2>1, <2>2
<1>4. places \subseteq 1..Len(s) /\ places \subseteq Nat
  BY <1>2
<1> HIDE DEF places
<1>5. CASE places = {}
  BY <1>1, <1>2, <1>3, <1>5
<1>6. CASE places # {}
  <2>1. \E i \in places : \A j \in places : i <= j
    BY <1>4, <1>6, Least
  <2>2. /\ Stream!Find(s, mark) \in places
        /\ \A j \in places : Stream!Find(s, mark) <= j
    BY <1>1, <1>6, <2>1
  <2>3. Stream!Find(s, mark) \in 1..Len(s)
    BY <1>4, <2>2
  <2>4. Starts(s, mark, Stream!Find(s, mark))
    BY <1>3, <2>2, <2>3
  <2>5. \A i \in 1..Len(s) : Starts(s, mark, i) => Stream!Find(s, mark) <= i
    BY <1>3, <2>2
  <2> QED
    BY <1>2, <2>3, <2>4, <2>5
<1> QED
  BY <1>5, <1>6

\* Where a token starts, if it starts nowhere before.
LEMMA FoundAt ==
    ASSUME NEW s \in Stream!Texts, NEW mark \in Tokens,
           NEW p \in 1..Len(s), Starts(s, mark, p),
           \A i \in 1..Len(s) : Starts(s, mark, i) => p <= i
    PROVE  Stream!Find(s, mark) = p
<1>1. Len(s) \in Nat
  BY TextOps
<1> QED
  BY <1>1, FindIs

\* It is not found if it starts nowhere.
LEMMA NotFound ==
    ASSUME NEW s \in Stream!Texts, NEW mark \in Tokens,
           \A i \in 1..Len(s) : ~Starts(s, mark, i)
    PROVE  Stream!Find(s, mark) = 0
<1>1. Len(s) \in Nat
  BY TextOps
<1> QED
  BY <1>1, FindIs

\* Pending gives the longest end that begins the token.
LEMMA PendingIs ==
    ASSUME NEW s \in Stream!Texts, NEW mark \in Tokens
    PROVE  /\ Stream!Pending(s, mark) \in 0..Len(s)
           /\ Stream!Pending(s, mark) < Len(mark)
           /\ Ends(s, mark, Stream!Pending(s, mark))
           /\ \A n \in 0..(Len(mark) - 1) : Ends(s, mark, n) => n <= Stream!Pending(s, mark)
<1> DEFINE lengths == {n \in 0..(Len(mark) - 1) : n <= Len(s) /\
                         Stream!Drop(s, Len(s) - n) = Stream!Take(mark, n)}
<1>1. Stream!Pending(s, mark) = CHOOSE n \in lengths : \A k \in lengths : k <= n
  BY DEF Stream!Pending
<1>2. Len(s) \in Nat /\ mark \in Stream!Texts /\ Len(mark) \in Nat
      /\ 0 < Len(mark) /\ Len(mark) <= 3
  BY TextOps, TokenIs
<1>3. ASSUME NEW n \in 0..(Len(mark) - 1) PROVE n \in lengths <=> Ends(s, mark, n)
  <2>1. CASE n <= Len(s)
    <3> DEFINE end == Stream!Drop(s, Len(s) - n)
    <3> DEFINE start == Stream!Take(mark, n)
    <3>1. Len(s) - n \in 0..Len(s) /\ n \in 0..Len(mark) /\ Len(s) - (Len(s) - n) = n
      BY <1>2, <2>1
    <3>2. /\ end \in Stream!Texts /\ Len(end) = n /\ \A k \in 1..n : end[k] = s[Len(s) - n + k]
          /\ start \in Stream!Texts /\ Len(start) = n /\ \A k \in 1..n : start[k] = mark[k]
      BY <1>2, <3>1, DropIs, TakeIs
    <3> HIDE DEF end, start
    <3>3. end = start <=> \A k \in 1..n : end[k] = start[k]
      BY <3>2, SameText
    <3>4. (\A k \in 1..n : end[k] = start[k]) <=> \A k \in 1..n : s[Len(s) - n + k] = mark[k]
      BY <3>2
    <3> QED
      BY <2>1, <3>3, <3>4 DEF Ends, end, start
  <2>2. CASE ~(n <= Len(s))
    BY <2>2 DEF Ends
  <2> QED
    BY <2>1, <2>2
<1>4. lengths \subseteq 0..(Len(mark) - 1) /\ \A n \in lengths : n <= Len(s)
  OBVIOUS
<1>5. 0 \in lengths
  BY <1>2, <1>3 DEF Ends
<1> HIDE DEF lengths
<1>6. \E n \in lengths : \A k \in lengths : k <= n
  <2>1. ASSUME NEW n \in lengths PROVE n \in {0, 1, 2}
    <3>1. n \in 0..(Len(mark) - 1)
      BY <1>4
    <3>2. n \in Nat /\ n < 3
      BY <1>2, <3>1
    <3> QED
      BY <3>2
  <2> QED
    BY <1>5, <2>1
<1>7. Stream!Pending(s, mark) \in lengths /\ \A k \in lengths : k <= Stream!Pending(s, mark)
  BY <1>1, <1>6
<1> DEFINE p == Stream!Pending(s, mark)
<1>8. p \in 0..(Len(mark) - 1) /\ p <= Len(s)
  BY <1>4, <1>7
<1> HIDE DEF p
<1>9. p \in 0..Len(s) /\ p < Len(mark)
  BY <1>2, <1>8
<1>10. Ends(s, mark, p)
  BY <1>3, <1>7, <1>8 DEF p
<1>11. \A n \in 0..(Len(mark) - 1) : Ends(s, mark, n) => n <= p
  BY <1>3, <1>7 DEF p
<1> QED
  BY <1>9, <1>10, <1>11 DEF p

-----------------------------------------------------------------------------
(* The filter on one piece of text.                                        *)

Fed == [buffer : Stream!Texts, inside : BOOLEAN, visible : Stream!Texts]

\* The token that is looked for, where it is found, and what follows it.
Token(in) == IF in THEN Stream!CLOSE ELSE Stream!OPEN
Place(s, in) == Stream!Find(s, Token(in))
After(s, in) == Stream!Drop(s, Place(s, in) + Len(Token(in)) - 1)
Shown(in, s) == IF in THEN <<>> ELSE s

\* The filter when the token is not found.
Kept(s, in) ==
    LET n == Stream!Pending(s, Token(in))
    IN [buffer |-> Stream!Drop(s, Len(s) - n), inside |-> in,
        visible |-> Shown(in, Stream!Take(s, Len(s) - n))]

\* The equation of the filter.
FeedBody(F) ==
    [s \in Stream!Texts |->
       [in \in BOOLEAN |->
          IF Place(s, in) > 0
          THEN [F[After(s, in)][~in] EXCEPT
                  !.visible = Shown(in, Stream!Take(s, Place(s, in) - 1)) \o @]
          ELSE Kept(s, in)]]

\* The filter is the function its equation describes, if there is one.
LEMMA FeedChosen == Stream!Feed = CHOOSE F : F = FeedBody(F)
  BY DEF Stream!Feed, FeedBody, Kept, After, Place, Token, Shown

\* The filter looks for a token.
LEMMA TokenOf == ASSUME NEW in \in BOOLEAN PROVE Token(in) \in Tokens
  BY DEF Token, Tokens

\* What follows a token is shorter.
LEMMA PlaceIs ==
    ASSUME NEW s \in Stream!Texts, NEW in \in BOOLEAN
    PROVE  /\ Len(s) \in Nat
           /\ Place(s, in) \in 0..Len(s)
           /\ Place(s, in) > 0 =>
                /\ Place(s, in) + Len(Token(in)) - 1 \in 1..Len(s)
                /\ After(s, in) \in Stream!Texts
                /\ Len(After(s, in)) < Len(s)
                /\ Stream!Take(s, Place(s, in) - 1) \in Stream!Texts
<1>1. Len(s) \in Nat /\ Token(in) \in Tokens /\ Len(Token(in)) \in Nat /\ 0 < Len(Token(in))
  BY TextOps, TokenOf, TokenIs
<1>2. Place(s, in) \in 0..Len(s)
  BY <1>1, FindIs DEF Place
<1>3. ASSUME Place(s, in) > 0
      PROVE  /\ Place(s, in) + Len(Token(in)) - 1 \in 1..Len(s)
             /\ After(s, in) \in Stream!Texts
             /\ Len(After(s, in)) < Len(s)
             /\ Stream!Take(s, Place(s, in) - 1) \in Stream!Texts
  <2>1. Place(s, in) + Len(Token(in)) - 1 <= Len(s)
    BY <1>1, <1>3, FindIs DEF Place, Starts
  <2> DEFINE k == Place(s, in) + Len(Token(in)) - 1
  <2>2. k \in 1..Len(s) /\ k \in 0..Len(s) /\ Place(s, in) - 1 \in 0..Len(s)
    BY <1>1, <1>2, <1>3, <2>1
  <2> HIDE DEF k
  <2>3. Stream!Drop(s, k) \in Stream!Texts /\ Len(Stream!Drop(s, k)) = Len(s) - k
    BY <2>2, DropIs
  <2>4. Stream!Take(s, Place(s, in) - 1) \in Stream!Texts
    BY <2>2, TakeIs
  <2>5. Stream!Drop(s, k) = After(s, in)
    BY DEF k, After
  <2>6. Len(s) - k < Len(s)
    BY <1>1, <2>2
  <2> QED
    BY <2>2, <2>3, <2>4, <2>5, <2>6 DEF k
<1> QED
  BY <1>1, <1>2, <1>3

\* What the filter makes of a text without the token has its type.
LEMMA KeptIs ==
    ASSUME NEW s \in Stream!Texts, NEW in \in BOOLEAN
    PROVE  Kept(s, in) \in Fed
<1> DEFINE n == Stream!Pending(s, Token(in))
<1>1. n \in 0..Len(s) /\ Len(s) \in Nat
  BY TokenOf, PendingIs, TextOps
<1> HIDE DEF n
<1>2. Len(s) - n \in 0..Len(s)
  BY <1>1
<1>3. Stream!Drop(s, Len(s) - n) \in Stream!Texts /\ Stream!Take(s, Len(s) - n) \in Stream!Texts
      /\ <<>> \in Stream!Texts
  BY <1>2, DropIs, TakeIs, TextOps
<1> QED
  BY <1>3 DEF Kept, Fed, Shown, n

\* A record of the filter with more before what is visible.
LEMMA MoreVisible ==
    ASSUME NEW r \in Fed, NEW p \in Stream!Texts
    PROVE  /\ [r EXCEPT !.visible = p \o @] \in Fed
           /\ [r EXCEPT !.visible = p \o @] =
                [buffer |-> r.buffer, inside |-> r.inside, visible |-> p \o r.visible]
<1>1. p \o r.visible \in Stream!Texts
  BY ConcatIs DEF Fed
<1>2. r = [buffer |-> r.buffer, inside |-> r.inside, visible |-> r.visible]
  BY DEF Fed
<1>3. [r EXCEPT !.visible = p \o @] =
                [buffer |-> r.buffer, inside |-> r.inside, visible |-> p \o r.visible]
  BY <1>2
<1>4. [buffer |-> r.buffer, inside |-> r.inside, visible |-> p \o r.visible] \in Fed
  BY <1>1 DEF Fed
<1> QED
  BY <1>3, <1>4

\* There is a function that solves the filter's equation.
LEMMA FeedExists == \E F : F = FeedBody(F)
<1> DEFINE D == Stream!Texts \X BOOLEAN
<1> DEFINE m == [x \in D |-> Len(x[1])]
<1> DEFINE stop == {x \in D : Place(x[1], x[2]) = 0}
<1> DEFINE base == [x \in D |-> Kept(x[1], x[2])]
<1> DEFINE next == [x \in D |-> IF x \in stop THEN x ELSE <<After(x[1], x[2]), ~x[2]>>]
<1> DEFINE start(x) == IF x \in stop THEN <<>> ELSE Shown(x[2], Stream!Take(x[1], Place(x[1], x[2]) - 1))
<1> DEFINE comb == [y \in D \X Fed |-> [y[2] EXCEPT !.visible = start(y[1]) \o @]]
<1>1. ASSUME NEW x \in D
      PROVE  /\ x[1] \in Stream!Texts /\ x[2] \in BOOLEAN /\ (~x[2]) \in BOOLEAN
             /\ m[x] = Len(x[1]) /\ m[x] \in Nat
             /\ start(x) \in Stream!Texts
  <2>1. x[1] \in Stream!Texts /\ x[2] \in BOOLEAN
    OBVIOUS
  <2>2. Len(x[1]) \in Nat /\ <<>> \in Stream!Texts
    BY <2>1, TextOps
  <2>3. CASE x \in stop
    <3>1. start(x) = <<>>
      BY <2>3
    <3> HIDE DEF start, stop
    <3> QED
      BY <2>1, <2>2, <3>1
  <2>4. CASE x \notin stop
    <3>1. Place(x[1], x[2]) > 0
      BY <2>1, <2>4, PlaceIs
    <3>2. Stream!Take(x[1], Place(x[1], x[2]) - 1) \in Stream!Texts
      BY <2>1, <3>1, PlaceIs
    <3>3. start(x) \in Stream!Texts
      BY <2>2, <2>4, <3>2 DEF Shown
    <3> HIDE DEF start, stop
    <3> QED
      BY <2>1, <2>2, <3>3
  <2> QED
    BY <2>3, <2>4
<1>2. ASSUME NEW x \in D, x \notin stop
      PROVE  next[x] = <<After(x[1], x[2]), ~x[2]>> /\ next[x] \in D /\ m[next[x]] < m[x]
  <2>1. Place(x[1], x[2]) > 0
    BY <1>1, <1>2, PlaceIs
  <2>2. After(x[1], x[2]) \in Stream!Texts /\ Len(After(x[1], x[2])) < Len(x[1])
    BY <1>1, <2>1, PlaceIs
  <2> DEFINE y == <<After(x[1], x[2]), ~x[2]>>
  <2>3. y \in D /\ y[1] = After(x[1], x[2])
    BY <1>1, <2>2
  <2>4. next[x] = y
    BY <1>2
  <2>5. m[y] = Len(y[1])
    BY <2>3, <1>1
  <2> QED
    BY <1>1, <2>2, <2>3, <2>4, <2>5
<1>3. m \in [D -> Nat]
  BY <1>1
<1>4. base \in [D -> Fed]
  BY <1>1, KeptIs
<1>5. next \in [D -> D]
  <2>1. ASSUME NEW x \in D PROVE next[x] \in D
    BY <1>2
  <2> QED
    BY <2>1
<1>6. comb \in [D \X Fed -> Fed]
  <2>1. ASSUME NEW y \in D \X Fed PROVE [y[2] EXCEPT !.visible = start(y[1]) \o @] \in Fed
    <3>1. y[1] \in D /\ y[2] \in Fed
      OBVIOUS
    <3>2. start(y[1]) \in Stream!Texts
      BY <1>1, <3>1
    <3> HIDE DEF start
    <3> QED
      BY <3>1, <3>2, MoreVisible
  <2> QED
    BY <2>1
<1>7. ASSUME NEW x \in D, NEW r \in Fed
      PROVE  comb[<<x, r>>] = [r EXCEPT !.visible = start(x) \o @]
  <2>1. <<x, r>> \in D \X Fed
    OBVIOUS
  <2> QED
    BY <2>1
<1>8. PICK g \in [D -> Fed] : Solves(g, D, stop, base, next, comb)
  <2> HIDE DEF D, m, stop, base, next, comb
  <2> QED
    BY <1>2, <1>3, <1>4, <1>5, <1>6, Recursion
<1> DEFINE F == [s \in Stream!Texts |-> [in \in BOOLEAN |-> g[<<s, in>>]]]
<1>9. ASSUME NEW s \in Stream!Texts, NEW in \in BOOLEAN
      PROVE  F[s][in] = FeedBody(F)[s][in]
  <2> DEFINE x == <<s, in>>
  <2>1. x \in D /\ x[1] = s /\ x[2] = in /\ F[s][in] = g[x]
    OBVIOUS
  <2>2. FeedBody(F)[s][in] = IF Place(s, in) > 0
          THEN [F[After(s, in)][~in] EXCEPT
                  !.visible = Shown(in, Stream!Take(s, Place(s, in) - 1)) \o @]
          ELSE Kept(s, in)
    BY DEF FeedBody
  <2>3. g[x] = IF x \in stop THEN base[x] ELSE comb[<<x, g[next[x]]>>]
    BY <1>8, <2>1 DEF Solves
  <2>4. CASE x \in stop
    <3>1. ~(Place(s, in) > 0)
      BY <2>1, <2>4
    <3> QED
      BY <2>1, <2>2, <2>3, <2>4, <3>1
  <2>5. CASE x \notin stop
    <3>1. Place(s, in) > 0
      BY <2>1, <2>5, PlaceIs
    <3>2. next[x] = <<After(s, in), ~in>> /\ next[x] \in D
      BY <1>2, <2>1, <2>5
    <3>3. After(s, in) \in Stream!Texts /\ (~in) \in BOOLEAN
      <4>1. After(s, in) \in Stream!Texts
        BY <3>1, PlaceIs
      <4> QED
        BY <4>1
    <3>4. g[next[x]] = F[After(s, in)][~in]
      BY <3>2, <3>3
    <3>5. g[next[x]] \in Fed
      BY <1>8, <3>2
    <3>6. comb[<<x, g[next[x]]>>] = [g[next[x]] EXCEPT !.visible = start(x) \o @]
      BY <1>7, <2>1, <3>5
    <3>7. start(x) = Shown(in, Stream!Take(s, Place(s, in) - 1))
      BY <2>1, <2>5
    <3> HIDE DEF start, comb, next, F
    <3> QED
      BY <2>1, <2>2, <2>3, <2>5, <3>1, <3>4, <3>6, <3>7
  <2> QED
    BY <2>4, <2>5
<1>10. F = FeedBody(F)
  <2>1. ASSUME NEW s \in Stream!Texts PROVE F[s] = FeedBody(F)[s]
    <3>1. F[s] = [in \in BOOLEAN |-> F[s][in]]
      OBVIOUS
    <3>2. FeedBody(F)[s] = [in \in BOOLEAN |-> FeedBody(F)[s][in]]
      BY DEF FeedBody
    <3> HIDE DEF F
    <3> QED
      BY <1>9, <3>1, <3>2
  <2>2. F = [s \in Stream!Texts |-> F[s]]
    OBVIOUS
  <2>3. FeedBody(F) = [s \in Stream!Texts |-> FeedBody(F)[s]]
    BY DEF FeedBody
  <2> HIDE DEF F
  <2> QED
    BY <2>1, <2>2, <2>3
<1> QED
  BY <1>10

\* The filter solves its equation.
LEMMA FeedSolves ==
    ASSUME NEW s \in Stream!Texts, NEW in \in BOOLEAN
    PROVE  Stream!Feed[s][in] =
             IF Place(s, in) > 0
             THEN [Stream!Feed[After(s, in)][~in] EXCEPT
                     !.visible = Shown(in, Stream!Take(s, Place(s, in) - 1)) \o @]
             ELSE Kept(s, in)
<1> DEFINE F == Stream!Feed
<1>1. F = FeedBody(F)
  BY FeedChosen, FeedExists, Zenon
<1> HIDE DEF F
<1>2. FeedBody(F)[s][in] =
             IF Place(s, in) > 0
             THEN [F[After(s, in)][~in] EXCEPT
                     !.visible = Shown(in, Stream!Take(s, Place(s, in) - 1)) \o @]
             ELSE Kept(s, in)
  BY DEF FeedBody
<1> QED
  BY <1>1, <1>2 DEF F

\* What the filter makes of a text has its type.
LEMMA FeedType ==
    \A s \in Stream!Texts, in \in BOOLEAN : Stream!Feed[s][in] \in Fed
<1> DEFINE Wrong == {s \in Stream!Texts : \E in \in BOOLEAN : Stream!Feed[s][in] \notin Fed}
<1> DEFINE sizes == {Len(s) : s \in Wrong}
<1>1. SUFFICES ASSUME Wrong # {} PROVE FALSE
  OBVIOUS
<1>2. sizes \subseteq Nat /\ sizes # {}
  BY <1>1, TextOps
<1> HIDE DEF sizes
<1>3. PICK n \in sizes : \A i \in sizes : n <= i
  BY <1>2, Least
<1>4. PICK s \in Wrong : Len(s) = n
  BY <1>3 DEF sizes
<1>5. s \in Stream!Texts
  BY <1>4
<1>6. PICK in \in BOOLEAN : Stream!Feed[s][in] \notin Fed
  BY <1>4
<1>7. Place(s, in) > 0
  <2>1. SUFFICES ASSUME ~(Place(s, in) > 0) PROVE FALSE
    OBVIOUS
  <2>2. Stream!Feed[s][in] = Kept(s, in)
    BY <1>5, <2>1, FeedSolves
  <2> QED
    BY <1>5, <1>6, <2>2, KeptIs
<1>8. /\ After(s, in) \in Stream!Texts /\ Len(After(s, in)) < Len(s)
      /\ Stream!Take(s, Place(s, in) - 1) \in Stream!Texts
  BY <1>5, <1>7, PlaceIs
<1>9. After(s, in) \notin Wrong
  <2>1. SUFFICES ASSUME After(s, in) \in Wrong PROVE FALSE
    OBVIOUS
  <2>2. Len(After(s, in)) \in sizes
    BY <2>1 DEF sizes
  <2>3. n \in Nat /\ Len(After(s, in)) \in Nat
    BY <1>2, <1>3, <2>2
  <2> QED
    BY <1>3, <1>4, <1>8, <2>2, <2>3
<1>10. Stream!Feed[After(s, in)][~in] \in Fed
  BY <1>8, <1>9
<1>11. Shown(in, Stream!Take(s, Place(s, in) - 1)) \in Stream!Texts
  BY <1>5, <1>8, TextOps DEF Shown
<1>12. Stream!Feed[s][in] =
         [Stream!Feed[After(s, in)][~in] EXCEPT
            !.visible = Shown(in, Stream!Take(s, Place(s, in) - 1)) \o @]
  BY <1>5, <1>7, FeedSolves
<1> DEFINE r == Stream!Feed[After(s, in)][~in]
<1> DEFINE p == Shown(in, Stream!Take(s, Place(s, in) - 1))
<1>13. r \in Fed /\ p \in Stream!Texts /\ Stream!Feed[s][in] = [r EXCEPT !.visible = p \o @]
  BY <1>10, <1>11, <1>12
<1> HIDE DEF r, p
<1>14. [r EXCEPT !.visible = p \o @] \in Fed
  BY <1>13, MoreVisible
<1> QED
  BY <1>6, <1>13, <1>14

\* The filter's equation, field by field.
LEMMA FeedFound ==
    ASSUME NEW s \in Stream!Texts, NEW in \in BOOLEAN, Place(s, in) > 0
    PROVE  /\ Stream!Feed[s][in].buffer = Stream!Feed[After(s, in)][~in].buffer
           /\ Stream!Feed[s][in].inside = Stream!Feed[After(s, in)][~in].inside
           /\ Stream!Feed[s][in].visible =
                Shown(in, Stream!Take(s, Place(s, in) - 1)) \o Stream!Feed[After(s, in)][~in].visible
<1> DEFINE r == Stream!Feed[After(s, in)][~in]
<1> DEFINE p == Shown(in, Stream!Take(s, Place(s, in) - 1))
<1>1. After(s, in) \in Stream!Texts /\ Stream!Take(s, Place(s, in) - 1) \in Stream!Texts
  BY PlaceIs
<1>2. r \in Fed
  BY <1>1, FeedType
<1>3. p \in Stream!Texts
  BY <1>1, TextOps DEF Shown
<1>4. Stream!Feed[s][in] = [r EXCEPT !.visible = p \o @]
  BY FeedSolves
<1> HIDE DEF r, p
<1>5. Stream!Feed[s][in] = [buffer |-> r.buffer, inside |-> r.inside, visible |-> p \o r.visible]
  BY <1>2, <1>3, <1>4, MoreVisible
<1>6. /\ Stream!Feed[s][in].buffer = r.buffer
      /\ Stream!Feed[s][in].inside = r.inside
      /\ Stream!Feed[s][in].visible = p \o r.visible
  BY <1>5
<1> QED
  BY <1>6 DEF r, p

\* And where the token is not found.
LEMMA FeedKept ==
    ASSUME NEW s \in Stream!Texts, NEW in \in BOOLEAN, Place(s, in) = 0
    PROVE  Stream!Feed[s][in] = Kept(s, in)
<1>1. ~(Place(s, in) > 0)
  OBVIOUS
<1> QED
  BY <1>1, FeedSolves

-----------------------------------------------------------------------------
(* Cutting a text in two does not matter to the filter.                    *)

\* A token that is found in a text is found there when more follows.
LEMMA FoundBefore ==
    ASSUME NEW s \in Stream!Texts, NEW c \in Stream!Texts, NEW in \in BOOLEAN,
           Place(s, in) > 0
    PROVE  /\ Place(s \o c, in) = Place(s, in)
           /\ After(s \o c, in) = After(s, in) \o c
           /\ Stream!Take(s \o c, Place(s \o c, in) - 1) = Stream!Take(s, Place(s, in) - 1)
<1> DEFINE t == Token(in)
<1> DEFINE p == Place(s, in)
<1> DEFINE w == s \o c
<1>1. t \in Tokens /\ Len(t) \in Nat /\ 0 < Len(t)
  BY TokenOf, TokenIs
<1>2. /\ w \in Stream!Texts /\ Len(w) = Len(s) + Len(c)
      /\ Len(s) \in Nat /\ Len(c) \in Nat
      /\ \A k \in 1..Len(s) : w[k] = s[k]
  BY ConcatIs, TextOps
<1>3. /\ p \in 1..Len(s) /\ p + Len(t) - 1 \in 1..Len(s)
  BY PlaceIs
<1>4. Starts(s, t, p) /\ \A i \in 1..Len(s) : Starts(s, t, i) => p <= i
  BY <1>1, <1>3, FindIs DEF Place
<1> HIDE DEF t, p, w
<1>5. ASSUME NEW i \in 1..Len(s), i + Len(t) - 1 <= Len(s)
      PROVE  Starts(w, t, i) <=> Starts(s, t, i)
  <2>1. ASSUME NEW k \in 1..Len(t) PROVE w[i + k - 1] = s[i + k - 1]
    <3>1. i + k - 1 \in 1..Len(s)
      BY <1>1, <1>2, <1>5
    <3> QED
      BY <1>2, <3>1
  <2> QED
    BY <1>1, <1>2, <1>5, <2>1 DEF Starts
<1>6. p \in 1..Len(w) /\ Starts(w, t, p)
  BY <1>1, <1>2, <1>3, <1>4, <1>5
<1>7. ASSUME NEW i \in 1..Len(w), Starts(w, t, i) PROVE p <= i
  <2>1. SUFFICES ASSUME i < p PROVE FALSE
    BY <1>2, <1>3
  <2>2. i \in 1..Len(s) /\ i + Len(t) - 1 <= Len(s)
    BY <1>1, <1>2, <1>3, <2>1
  <2> QED
    BY <1>3, <1>4, <1>5, <1>7, <2>1, <2>2
<1>8. Stream!Find(w, t) = p
  BY <1>1, <1>2, <1>6, <1>7, FoundAt
<1>9. Place(w, in) = p
  BY <1>8 DEF Place, t
<1>10. /\ Stream!Drop(w, p + Len(t) - 1) = Stream!Drop(s, p + Len(t) - 1) \o c
       /\ Stream!Take(w, p - 1) = Stream!Take(s, p - 1)
  <2>1. p + Len(t) - 1 \in 0..Len(s) /\ p - 1 \in 0..Len(s)
    BY <1>2, <1>3
  <2> QED
    BY <2>1, DropConcat DEF w
<1> QED
  BY <1>9, <1>10 DEF After, w, p, t

\* What is held back is what decides about the text that follows: a token that
\* starts across the cut starts in the end that is held back.
LEMMA HeldBack ==
    ASSUME NEW h \in Stream!Texts, NEW b \in Stream!Texts, NEW c \in Stream!Texts,
           NEW mark \in Tokens,
           Stream!Find(h \o b, mark) = 0, Stream!Pending(h \o b, mark) = Len(b)
    PROVE  /\ \A i \in 1..Len(h) : ~Starts(h \o (b \o c), mark, i)
           /\ \A i \in 1..Len(b \o c) :
                Starts(h \o (b \o c), mark, Len(h) + i) <=> Starts(b \o c, mark, i)
           /\ \A n \in 0..(Len(mark) - 1) :
                Ends(h \o (b \o c), mark, n) <=> Ends(b \o c, mark, n)
<1> DEFINE s == h \o b
<1> DEFINE d == b \o c
<1> DEFINE w == h \o d
<1>1. Len(mark) \in Nat /\ 0 < Len(mark)
  BY TokenIs
<1>2. Len(h) \in Nat /\ Len(b) \in Nat /\ Len(c) \in Nat
  BY TextOps
<1>3. /\ s \in Stream!Texts /\ Len(s) = Len(h) + Len(b)
      /\ d \in Stream!Texts /\ Len(d) = Len(b) + Len(c)
  BY ConcatIs
<1>4. w = s \o c
  BY Joined
<1>5. /\ w \in Stream!Texts /\ Len(w) = Len(h) + Len(d)
      /\ \A k \in 1..Len(d) : w[Len(h) + k] = d[k]
      /\ \A k \in 1..Len(s) : w[k] = s[k]
  BY <1>3, <1>4, ConcatIs
<1>6. /\ \A i \in 1..Len(s) : ~Starts(s, mark, i)
      /\ \A n \in 0..(Len(mark) - 1) : Ends(s, mark, n) => n <= Len(b)
  BY <1>3, FindIs, PendingIs
<1> HIDE DEF s, d, w
\* A piece of the token at the cut would be held back.
<1>7. ASSUME NEW i \in 1..Len(h), NEW l \in Nat, i + l - 1 > Len(s), l <= Len(mark),
             \A k \in 1..l : w[i + k - 1] = mark[k]
      PROVE  FALSE
  <2> DEFINE n == Len(s) - i + 1
  <2>1. n \in 0..(Len(mark) - 1) /\ n > Len(b) /\ n <= Len(s) /\ n \in Nat /\ n <= l
        /\ Len(s) - n + 1 = i
    BY <1>1, <1>2, <1>3, <1>7
  <2>2. ASSUME NEW k \in 1..n PROVE s[Len(s) - n + k] = mark[k]
    <3>1. i + k - 1 \in 1..Len(s) /\ k \in 1..l /\ Len(s) - n + k = i + k - 1
      BY <1>2, <1>3, <1>7, <2>1
    <3> HIDE DEF n
    <3> QED
      BY <1>5, <1>7, <3>1
  <2> HIDE DEF n
  <2>3. Ends(s, mark, n)
    BY <2>1, <2>2 DEF Ends
  <2> QED
    BY <1>2, <1>6, <2>1, <2>3
<1>8. ASSUME NEW i \in 1..Len(h), Starts(w, mark, i) PROVE FALSE
  <2>1. i \in 1..Len(s)
    BY <1>2, <1>3
  <2>2. CASE i + Len(mark) - 1 <= Len(s)
    <3>1. ASSUME NEW k \in 1..Len(mark) PROVE s[i + k - 1] = mark[k]
      <4>1. i + k - 1 \in 1..Len(s)
        BY <1>1, <1>2, <1>3, <2>1, <2>2
      <4> QED
        BY <1>5, <1>8, <4>1 DEF Starts
    <3>2. Starts(s, mark, i)
      BY <2>2, <3>1 DEF Starts
    <3> QED
      BY <1>6, <2>1, <3>2
  <2>3. CASE i + Len(mark) - 1 > Len(s)
    <3>1. \A k \in 1..Len(mark) : w[i + k - 1] = mark[k]
      BY <1>8 DEF Starts
    <3> QED
      BY <1>1, <1>7, <2>3, <3>1
  <2> QED
    BY <1>1, <1>2, <1>3, <2>2, <2>3
<1>9. ASSUME NEW i \in 1..Len(d)
      PROVE  Starts(w, mark, Len(h) + i) <=> Starts(d, mark, i)
  <2>1. Len(h) + i + Len(mark) - 1 <= Len(w) <=> i + Len(mark) - 1 <= Len(d)
    BY <1>1, <1>2, <1>3, <1>5
  <2>2. ASSUME i + Len(mark) - 1 <= Len(d), NEW k \in 1..Len(mark)
        PROVE  w[Len(h) + i + k - 1] = d[i + k - 1]
    <3>1. i + k - 1 \in 1..Len(d) /\ Len(h) + (i + k - 1) = Len(h) + i + k - 1
      BY <1>1, <1>2, <1>3, <2>2
    <3> QED
      BY <1>5, <3>1
  <2> QED
    BY <2>1, <2>2 DEF Starts
<1>10. ASSUME NEW n \in 0..(Len(mark) - 1)
       PROVE  Ends(w, mark, n) <=> Ends(d, mark, n)
  <2>1. CASE n <= Len(d)
    <3>1. ASSUME NEW k \in 1..n PROVE w[Len(w) - n + k] = d[Len(d) - n + k]
      <4>1. Len(d) - n + k \in 1..Len(d) /\ Len(w) - n + k = Len(h) + (Len(d) - n + k)
        BY <1>1, <1>2, <1>3, <1>5, <2>1
      <4> QED
        BY <1>5, <4>1
    <3>2. n <= Len(w)
      BY <1>1, <1>2, <1>3, <1>5, <2>1
    <3> QED
      BY <2>1, <3>1, <3>2 DEF Ends
  <2>2. CASE n > Len(d)
    <3>1. SUFFICES ASSUME Ends(w, mark, n) PROVE FALSE
      BY <1>1, <1>2, <1>3, <2>2 DEF Ends
    <3> DEFINE i == Len(w) - n + 1
    <3>2. n <= Len(w)
      BY <3>1 DEF Ends
    <3>3. i \in 1..Len(h) /\ n \in Nat /\ i + n - 1 = Len(w) /\ n <= Len(mark)
      BY <1>1, <1>2, <1>3, <1>5, <2>2, <3>2
    <3>4. ASSUME NEW k \in 1..n PROVE w[i + k - 1] = mark[k]
      <4>1. Len(w) - n + k = i + k - 1
        BY <1>1, <1>2, <1>3, <1>5, <3>3
      <4> QED
        BY <3>1, <4>1 DEF Ends
    <3> HIDE DEF i
    <3>5. CASE Len(w) > Len(s)
      BY <1>7, <3>3, <3>4, <3>5
    <3>6. CASE Len(w) = Len(s)
      <4>2. ASSUME NEW k \in 1..n PROVE s[Len(s) - n + k] = mark[k]
        <5>1. Len(s) - n + k \in 1..Len(s) /\ Len(w) - n + k = Len(s) - n + k
          BY <1>2, <1>3, <3>2, <3>3, <3>6
        <5> QED
          BY <1>5, <3>1, <5>1 DEF Ends
      <4>3. Ends(s, mark, n)
        BY <3>2, <3>6, <4>2 DEF Ends
      <4>4. n <= Len(b)
        BY <1>6, <4>3
      <4>5. n > Len(b) /\ n \in Nat
        BY <1>1, <1>2, <1>3, <2>2
      <4> QED
        BY <1>2, <4>4, <4>5
    <3>7. Len(w) = Len(s) + Len(c) /\ Len(s) \in Nat /\ Len(c) \in Nat
      BY <1>2, <1>3, <1>5
    <3>8. Len(w) > Len(s) \/ Len(w) = Len(s)
      BY <3>7
    <3> QED
      BY <3>5, <3>6, <3>8
  <2> QED
    BY <1>1, <1>2, <1>3, <2>1, <2>2
<1> QED
  BY <1>8, <1>9, <1>10 DEF w, d, s

\* A text in which the token is not found is what is shown of it and what is
\* held back.
LEMMA KeptParts ==
    ASSUME NEW s \in Stream!Texts, NEW in \in BOOLEAN, Place(s, in) = 0
    PROVE  \E h, b \in Stream!Texts :
              /\ s = h \o b /\ Stream!Pending(s, Token(in)) = Len(b)
              /\ Stream!Feed[s][in] = [buffer |-> b, inside |-> in, visible |-> Shown(in, h)]
<1> DEFINE n == Stream!Pending(s, Token(in))
<1> DEFINE h == Stream!Take(s, Len(s) - n)
<1> DEFINE b == Stream!Drop(s, Len(s) - n)
<1>1. n \in 0..Len(s) /\ Len(s) \in Nat
  BY TokenOf, PendingIs, TextOps
<1>2. Stream!Feed[s][in] = [buffer |-> b, inside |-> in, visible |-> Shown(in, h)]
  BY FeedKept DEF Kept
<1> HIDE DEF n
<1>3. Len(s) - n \in 0..Len(s) /\ Len(s) - (Len(s) - n) = n
  BY <1>1
<1>4. h \in Stream!Texts /\ b \in Stream!Texts /\ Len(b) = n /\ h \o b = s
  BY <1>3, DropIs, TakeIs, DropAll
<1> QED
  BY <1>2, <1>4 DEF n

\* What is shown of a text is a text, and of two texts both parts.
ShowsBoth(in, s, c) == Shown(in, s \o c) = Shown(in, s) \o Shown(in, c)

LEMMA ShownParts ==
    ASSUME NEW s \in Stream!Texts, NEW c \in Stream!Texts, NEW in \in BOOLEAN
    PROVE  Shown(in, s) \in Stream!Texts /\ ShowsBoth(in, s, c)
  BY TextOps DEF Shown, ShowsBoth

\* The text where the token was not found yet: only what is held back and what
\* follows decide how the filter goes on.
LEMMA FeedGoesOn ==
    ASSUME NEW s \in Stream!Texts, NEW c \in Stream!Texts, NEW in \in BOOLEAN,
           Place(s, in) = 0
    PROVE  /\ Stream!Feed[s \o c][in].buffer = Stream!Feed[Stream!Feed[s][in].buffer \o c][in].buffer
           /\ Stream!Feed[s \o c][in].inside = Stream!Feed[Stream!Feed[s][in].buffer \o c][in].inside
           /\ Stream!Feed[s \o c][in].visible =
                Stream!Feed[s][in].visible \o Stream!Feed[Stream!Feed[s][in].buffer \o c][in].visible
<1> DEFINE t == Token(in)
<1>1. PICK h \in Stream!Texts, b \in Stream!Texts :
         /\ s = h \o b /\ Stream!Pending(s, t) = Len(b)
         /\ Stream!Feed[s][in] = [buffer |-> b, inside |-> in, visible |-> Shown(in, h)]
  BY KeptParts
<1> DEFINE d == b \o c
<1> DEFINE w == h \o d
<1>2. /\ d \in Stream!Texts /\ Len(d) \in Nat /\ Len(h) \in Nat
      /\ w \in Stream!Texts /\ Len(w) = Len(h) + Len(d)
      /\ s \o c = w
  <2>1. d \in Stream!Texts
    BY ConcatIs
  <2>2. w \in Stream!Texts /\ Len(w) = Len(h) + Len(d)
    BY <2>1, ConcatIs
  <2>3. s \o c = w
    BY <1>1, Joined
  <2> QED
    BY <2>1, <2>2, <2>3, TextOps
<1>3. t \in Tokens /\ Len(t) \in Nat /\ 0 < Len(t)
  BY TokenOf, TokenIs
<1>4. /\ \A i \in 1..Len(h) : ~Starts(w, t, i)
      /\ \A i \in 1..Len(d) : Starts(w, t, Len(h) + i) <=> Starts(d, t, i)
      /\ \A n \in 0..(Len(t) - 1) : Ends(w, t, n) <=> Ends(d, t, n)
  <2>1. Stream!Find(h \o b, t) = 0 /\ Stream!Pending(h \o b, t) = Len(b)
    BY <1>1 DEF Place
  <2> QED
    BY <1>3, <2>1, HeldBack
<1>5. /\ Stream!Feed[s][in].buffer = b
      /\ Stream!Feed[s][in].visible = Shown(in, h)
  BY <1>1
<1> HIDE DEF t, d, w
<1>6. ASSUME NEW i \in 1..Len(w), Starts(w, t, i)
      PROVE  i - Len(h) \in 1..Len(d) /\ Starts(d, t, i - Len(h))
  <2>1. i - Len(h) \in 1..Len(d) /\ i = Len(h) + (i - Len(h))
    BY <1>2, <1>4, <1>6
  <2> QED
    BY <1>4, <1>6, <2>1
<1>7. CASE Place(d, in) = 0
  <2>1. \A i \in 1..Len(d) : ~Starts(d, t, i)
    BY <1>2, <1>3, <1>7, FindIs DEF Place, t
  <2>2. Place(w, in) = 0
    BY <1>2, <1>3, <1>6, <2>1, NotFound DEF Place, t
  <2>3. Stream!Pending(w, t) = Stream!Pending(d, t)
    <3> DEFINE x == Stream!Pending(w, t)
    <3> DEFINE y == Stream!Pending(d, t)
    <3>1. /\ x \in 0..Len(w) /\ x < Len(t) /\ Ends(w, t, x)
          /\ \A n \in 0..(Len(t) - 1) : Ends(w, t, n) => n <= x
          /\ y \in 0..Len(d) /\ y < Len(t) /\ Ends(d, t, y)
          /\ \A n \in 0..(Len(t) - 1) : Ends(d, t, n) => n <= y
      BY <1>2, <1>3, PendingIs
    <3> HIDE DEF x, y
    <3>2. x \in 0..(Len(t) - 1) /\ y \in 0..(Len(t) - 1)
      BY <1>2, <1>3, <3>1
    <3>3. x <= y /\ y <= x /\ x \in Nat /\ y \in Nat
      BY <1>3, <1>4, <3>1, <3>2
    <3>4. x = y
      BY <3>3
    <3> QED
      BY <3>4 DEF x, y
  <2> DEFINE n == Stream!Pending(d, t)
  <2>4. n \in 0..Len(d)
    BY <1>2, <1>3, PendingIs
  <2> HIDE DEF n
  <2>5. Len(d) - n \in 0..Len(d) /\ Len(w) - n = Len(h) + (Len(d) - n)
    BY <1>2, <2>4
  <2>6. /\ Stream!Drop(w, Len(w) - n) = Stream!Drop(d, Len(d) - n)
        /\ Stream!Take(w, Len(w) - n) = h \o Stream!Take(d, Len(d) - n)
        /\ Stream!Take(d, Len(d) - n) \in Stream!Texts
    <3>1. /\ Stream!Drop(w, Len(h) + (Len(d) - n)) = Stream!Drop(d, Len(d) - n)
          /\ Stream!Take(w, Len(h) + (Len(d) - n)) = h \o Stream!Take(d, Len(d) - n)
      BY <1>2, <2>5, DropBeyond DEF w
    <3> QED
      BY <1>2, <2>5, <3>1, TakeIs
  <2>7. Stream!Feed[w][in] = [buffer |-> Stream!Drop(w, Len(w) - n), inside |-> in,
                              visible |-> Shown(in, Stream!Take(w, Len(w) - n))]
    BY <1>2, <2>2, <2>3, FeedKept DEF Kept, t, n
  <2>8. Stream!Feed[d][in] = [buffer |-> Stream!Drop(d, Len(d) - n), inside |-> in,
                              visible |-> Shown(in, Stream!Take(d, Len(d) - n))]
    BY <1>2, <1>7, FeedKept DEF Kept, t, n
  <2>9. Shown(in, h \o Stream!Take(d, Len(d) - n)) = Shown(in, h) \o Shown(in, Stream!Take(d, Len(d) - n))
    <3>1. ShowsBoth(in, h, Stream!Take(d, Len(d) - n))
      BY <2>6, ShownParts
    <3> QED
      BY <3>1 DEF ShowsBoth
  <2>10. /\ Stream!Feed[w][in].buffer = Stream!Feed[d][in].buffer
         /\ Stream!Feed[w][in].inside = Stream!Feed[d][in].inside
         /\ Stream!Feed[w][in].visible = Shown(in, h) \o Stream!Feed[d][in].visible
    <3>1. /\ Stream!Feed[w][in].buffer = Stream!Drop(w, Len(w) - n)
          /\ Stream!Feed[w][in].inside = in
          /\ Stream!Feed[w][in].visible = Shown(in, Stream!Take(w, Len(w) - n))
      BY <2>7
    <3>2. /\ Stream!Feed[d][in].buffer = Stream!Drop(d, Len(d) - n)
          /\ Stream!Feed[d][in].inside = in
          /\ Stream!Feed[d][in].visible = Shown(in, Stream!Take(d, Len(d) - n))
      BY <2>8
    <3>3. Shown(in, Stream!Take(w, Len(w) - n)) = Shown(in, h) \o Shown(in, Stream!Take(d, Len(d) - n))
      BY <2>6, <2>9
    <3> QED
      BY <2>6, <3>1, <3>2, <3>3
  <2> QED
    BY <1>2, <1>5, <2>10 DEF d
<1>8. CASE Place(d, in) # 0
  <2> DEFINE p == Place(d, in)
  <2>1. /\ p \in 1..Len(d) /\ p + Len(t) - 1 \in 1..Len(d) /\ p > 0
        /\ Stream!Take(d, p - 1) \in Stream!Texts
    BY <1>2, <1>8, PlaceIs DEF t
  <2>2. Starts(d, t, p) /\ \A i \in 1..Len(d) : Starts(d, t, i) => p <= i
    BY <1>2, <1>3, <2>1, FindIs DEF Place, t
  <2> HIDE DEF p
  <2>3. Len(h) + p \in 1..Len(w) /\ Starts(w, t, Len(h) + p)
    BY <1>2, <1>4, <2>1, <2>2
  <2>4. ASSUME NEW i \in 1..Len(w), Starts(w, t, i) PROVE Len(h) + p <= i
    <3>1. p <= i - Len(h)
      BY <1>6, <2>2, <2>4
    <3> QED
      BY <1>2, <2>1, <3>1
  <2>5. Stream!Find(w, t) = Len(h) + p
    BY <1>2, <1>3, <2>3, <2>4, FoundAt
  <2>6. Place(w, in) = Len(h) + p /\ Place(w, in) > 0
    BY <1>2, <2>1, <2>5 DEF Place, t
  <2>7. /\ Stream!Drop(w, Len(h) + (p + Len(t) - 1)) = Stream!Drop(d, p + Len(t) - 1)
        /\ Stream!Take(w, Len(h) + (p - 1)) = h \o Stream!Take(d, p - 1)
    <3>1. p + Len(t) - 1 \in 0..Len(d) /\ p - 1 \in 0..Len(d)
      BY <1>2, <2>1
    <3> QED
      BY <1>2, <3>1, DropBeyond DEF w
  <2>8. /\ Place(w, in) + Len(t) - 1 = Len(h) + (p + Len(t) - 1)
        /\ Place(w, in) - 1 = Len(h) + (p - 1)
    BY <1>2, <1>3, <2>1, <2>6
  <2>9. After(w, in) = After(d, in) /\ Stream!Take(w, Place(w, in) - 1) = h \o Stream!Take(d, p - 1)
    BY <2>7, <2>8 DEF After, t, p
  <2> DEFINE r == Stream!Feed[After(d, in)][~in]
  <2>10. After(d, in) \in Stream!Texts /\ r \in Fed /\ r.visible \in Stream!Texts
    <3>1. After(d, in) \in Stream!Texts
      BY <1>2, <2>1, PlaceIs DEF p
    <3>2. r \in Fed
      BY <3>1, FeedType
    <3> QED
      BY <3>1, <3>2 DEF Fed
  <2>11. /\ Stream!Feed[w][in].buffer = r.buffer
         /\ Stream!Feed[w][in].inside = r.inside
         /\ Stream!Feed[w][in].visible = Shown(in, h \o Stream!Take(d, p - 1)) \o r.visible
    <3>1. /\ Stream!Feed[w][in].buffer = Stream!Feed[After(w, in)][~in].buffer
          /\ Stream!Feed[w][in].inside = Stream!Feed[After(w, in)][~in].inside
          /\ Stream!Feed[w][in].visible =
               Shown(in, Stream!Take(w, Place(w, in) - 1)) \o Stream!Feed[After(w, in)][~in].visible
      BY <1>2, <2>6, FeedFound
    <3>2. After(w, in) = After(d, in)
      BY <2>9
    <3>3. Stream!Take(w, Place(w, in) - 1) = h \o Stream!Take(d, p - 1)
      BY <2>9
    <3> QED
      BY <3>1, <3>2, <3>3
  <2>12. /\ Stream!Feed[d][in].buffer = r.buffer
         /\ Stream!Feed[d][in].inside = r.inside
         /\ Stream!Feed[d][in].visible = Shown(in, Stream!Take(d, p - 1)) \o r.visible
    BY <1>2, <2>1, FeedFound DEF p
  <2> HIDE DEF r
  <2>13. /\ Shown(in, h \o Stream!Take(d, p - 1)) = Shown(in, h) \o Shown(in, Stream!Take(d, p - 1))
         /\ Shown(in, h) \in Stream!Texts /\ Shown(in, Stream!Take(d, p - 1)) \in Stream!Texts
    <3>1. /\ ShowsBoth(in, h, Stream!Take(d, p - 1))
          /\ Shown(in, h) \in Stream!Texts /\ Shown(in, Stream!Take(d, p - 1)) \in Stream!Texts
      BY <2>1, ShownParts
    <3> QED
      BY <3>1 DEF ShowsBoth
  <2>14. Stream!Feed[w][in].visible = Shown(in, h) \o Stream!Feed[d][in].visible
    <3> DEFINE a == Shown(in, h)
    <3> DEFINE e == Shown(in, Stream!Take(d, p - 1))
    <3> DEFINE v == r.visible
    <3>1. a \in Stream!Texts /\ e \in Stream!Texts /\ v \in Stream!Texts
      BY <2>10, <2>13
    <3>2. Stream!Feed[w][in].visible = (a \o e) \o v
      BY <2>11, <2>13
    <3>3. Stream!Feed[d][in].visible = e \o v
      BY <2>12
    <3> HIDE DEF a, e, v
    <3>4. (a \o e) \o v = a \o (e \o v)
      <4>1. Associate(a, e, v)
        BY <3>1, JoinedThree
      <4> QED
        BY <4>1 DEF Associate
    <3>5. Stream!Feed[w][in].visible = a \o Stream!Feed[d][in].visible
      BY <3>2, <3>3, <3>4
    <3> QED
      BY <3>5 DEF a
  <2> QED
    BY <1>2, <1>5, <2>11, <2>12, <2>14 DEF d
<1> QED
  BY <1>7, <1>8

\* The filter goes on from where a cut left it as if there had been no cut.
LEMMA CutFeed ==
    ASSUME NEW s \in Stream!Texts, NEW c \in Stream!Texts, NEW in \in BOOLEAN
    PROVE  LET f == Stream!Feed[s][in]
               g == Stream!Feed[f.buffer \o c][f.inside]
           IN  Stream!Feed[s \o c][in] =
                 [buffer |-> g.buffer, inside |-> g.inside, visible |-> f.visible \o g.visible]
<1> DEFINE Goes(x, m) ==
      LET f == Stream!Feed[x][m]
          g == Stream!Feed[f.buffer \o c][f.inside]
      IN  /\ Stream!Feed[x \o c][m].buffer = g.buffer
          /\ Stream!Feed[x \o c][m].inside = g.inside
          /\ Stream!Feed[x \o c][m].visible = f.visible \o g.visible
<1> DEFINE Wrong == {x \in Stream!Texts : \E m \in BOOLEAN : ~Goes(x, m)}
<1> DEFINE sizes == {Len(x) : x \in Wrong}
<1>1. ASSUME NEW x \in Stream!Texts, NEW m \in BOOLEAN, Place(x, m) = 0 PROVE Goes(x, m)
  <2> DEFINE f == Stream!Feed[x][m]
  <2>1. f = Kept(x, m)
    BY <1>1, FeedKept
  <2>2. f.inside = m
    BY <2>1 DEF Kept
  <2>3. /\ Stream!Feed[x \o c][m].buffer = Stream!Feed[f.buffer \o c][m].buffer
        /\ Stream!Feed[x \o c][m].inside = Stream!Feed[f.buffer \o c][m].inside
        /\ Stream!Feed[x \o c][m].visible = f.visible \o Stream!Feed[f.buffer \o c][m].visible
    BY <1>1, FeedGoesOn
  <2>4. Goes(x, m) <=>
          /\ Stream!Feed[x \o c][m].buffer = Stream!Feed[f.buffer \o c][f.inside].buffer
          /\ Stream!Feed[x \o c][m].inside = Stream!Feed[f.buffer \o c][f.inside].inside
          /\ Stream!Feed[x \o c][m].visible = f.visible \o Stream!Feed[f.buffer \o c][f.inside].visible
    OBVIOUS
  <2> HIDE DEF f, Goes
  <2> QED
    BY <2>2, <2>3, <2>4
<1>2. ASSUME NEW x \in Stream!Texts, NEW m \in BOOLEAN, Place(x, m) > 0,
             Goes(After(x, m), ~m)
      PROVE  Goes(x, m)
  <2> DEFINE y == After(x, m)
  <2> DEFINE f == Stream!Feed[y][~m]
  <2> DEFINE g == Stream!Feed[f.buffer \o c][f.inside]
  <2> DEFINE p == Shown(m, Stream!Take(x, Place(x, m) - 1))
  <2>1. y \in Stream!Texts /\ p \in Stream!Texts /\ x \o c \in Stream!Texts
    <3>1. y \in Stream!Texts /\ Stream!Take(x, Place(x, m) - 1) \in Stream!Texts
      BY <1>2, PlaceIs
    <3> QED
      BY <3>1, ShownParts, ConcatIs
  <2>2. f.visible \in Stream!Texts /\ g.visible \in Stream!Texts
    <3>1. f \in Fed
      BY <2>1, FeedType
    <3>2. f.buffer \o c \in Stream!Texts /\ f.inside \in BOOLEAN /\ f.visible \in Stream!Texts
      BY <3>1, ConcatIs DEF Fed
    <3>3. g \in Fed
      BY <3>2, FeedType
    <3> QED
      BY <3>2, <3>3 DEF Fed
  <2>3. /\ Stream!Feed[x][m].buffer = f.buffer
        /\ Stream!Feed[x][m].inside = f.inside
        /\ Stream!Feed[x][m].visible = p \o f.visible
    BY <1>2, FeedFound
  <2>4. Place(x \o c, m) > 0 /\ After(x \o c, m) = y \o c
        /\ Shown(m, Stream!Take(x \o c, Place(x \o c, m) - 1)) = p
    BY <1>2, FoundBefore
  <2>5. /\ Stream!Feed[x \o c][m].buffer = Stream!Feed[y \o c][~m].buffer
        /\ Stream!Feed[x \o c][m].inside = Stream!Feed[y \o c][~m].inside
        /\ Stream!Feed[x \o c][m].visible = p \o Stream!Feed[y \o c][~m].visible
    <3>1. /\ Stream!Feed[x \o c][m].buffer = Stream!Feed[After(x \o c, m)][~m].buffer
          /\ Stream!Feed[x \o c][m].inside = Stream!Feed[After(x \o c, m)][~m].inside
          /\ Stream!Feed[x \o c][m].visible =
               Shown(m, Stream!Take(x \o c, Place(x \o c, m) - 1))
                 \o Stream!Feed[After(x \o c, m)][~m].visible
      BY <2>1, <2>4, FeedFound
    <3> QED
      BY <2>4, <3>1
  <2>6. /\ Stream!Feed[y \o c][~m].buffer = g.buffer
        /\ Stream!Feed[y \o c][~m].inside = g.inside
        /\ Stream!Feed[y \o c][~m].visible = f.visible \o g.visible
    BY <1>2
  <2> DEFINE u == f.visible
  <2> DEFINE v == g.visible
  <2> HIDE DEF p
  <2>7. p \o (u \o v) = (p \o u) \o v
    <3>1. p \in Stream!Texts /\ u \in Stream!Texts /\ v \in Stream!Texts
      BY <2>1, <2>2
    <3> HIDE DEF u, v
    <3>2. Associate(p, u, v)
      BY <3>1, JoinedThree
    <3> QED
      BY <3>2 DEF Associate
  <2>8. Stream!Feed[x \o c][m].visible = Stream!Feed[x][m].visible \o g.visible
    BY <2>3, <2>5, <2>6, <2>7
  <2> QED
    BY <2>3, <2>5, <2>6, <2>8
<1> HIDE DEF Goes
<1>3. Wrong = {}
  <2>1. SUFFICES ASSUME Wrong # {} PROVE FALSE
    OBVIOUS
  <2>2. sizes \subseteq Nat /\ sizes # {}
    BY <2>1, TextOps
  <2> HIDE DEF sizes
  <2>3. PICK n \in sizes : \A i \in sizes : n <= i
    BY <2>2, Least
  <2>4. PICK x \in Wrong : Len(x) = n
    BY <2>3 DEF sizes
  <2>5. PICK m \in BOOLEAN : ~Goes(x, m)
    BY <2>4
  <2>6. x \in Stream!Texts /\ Place(x, m) > 0
    BY <1>1, <2>4, <2>5, PlaceIs
  <2>7. After(x, m) \in Stream!Texts /\ Len(After(x, m)) < n /\ Len(After(x, m)) \in Nat
    BY <2>4, <2>6, PlaceIs, TextOps
  <2>8. After(x, m) \notin Wrong
    <3>1. SUFFICES ASSUME After(x, m) \in Wrong PROVE FALSE
      OBVIOUS
    <3>2. Len(After(x, m)) \in sizes
      BY <3>1 DEF sizes
    <3> QED
      BY <2>2, <2>3, <2>7, <3>2
  <2>9. Goes(After(x, m), ~m)
    BY <2>7, <2>8
  <2> QED
    BY <1>2, <2>5, <2>6, <2>9
<1>4. Goes(s, in)
  BY <1>3
<1>5. Stream!Feed[s \o c][in] \in Fed
  BY ConcatIs, FeedType
<1> QED
  BY <1>4, <1>5 DEF Goes, Fed

-----------------------------------------------------------------------------
(* The whole text in one piece.                                            *)

\* The text that is shown when nothing is held back begins the whole answer.
LEMMA WholeBegins ==
    ASSUME NEW s \in Stream!Texts
    PROVE  /\ Stream!Whole(s) \in Stream!Texts
           /\ Stream!IsPrefix(Stream!Feed[s][FALSE].visible, Stream!Whole(s))
           /\ Stream!Whole(s) = <<>> => Stream!Feed[s][FALSE].visible = <<>>
<1> DEFINE v == Stream!Feed[s][FALSE].visible
<1> DEFINE e == IF Stream!Feed[s][FALSE].inside THEN <<>> ELSE Stream!Feed[s][FALSE].buffer
<1>1. v \in Stream!Texts /\ e \in Stream!Texts
  <2>1. Stream!Feed[s][FALSE] \in Fed
    BY FeedType
  <2> QED
    BY <2>1, TextOps DEF Fed
<1>2. Stream!Whole(s) = v \o e
  BY DEF Stream!Whole
<1> HIDE DEF v, e
<1>3. v \o e \in Stream!Texts /\ Len(v \o e) = Len(v) + Len(e) /\ Len(v) \in Nat /\ Len(e) \in Nat
  BY <1>1, ConcatIs, TextOps
<1>4. Len(v) \in 0..Len(v)
  BY <1>3
<1>5. Stream!Take(v \o e, Len(v)) = Stream!Take(v, Len(v))
  BY <1>1, <1>4, DropConcat
<1>6. Stream!IsPrefix(v, v \o e)
  BY <1>3, <1>5 DEF Stream!IsPrefix, Stream!Take
<1>7. v \o e = <<>> => v = <<>>
  <2>1. SUFFICES ASSUME v \o e = <<>> PROVE v = <<>>
    OBVIOUS
  <2>2. Len(v \o e) = 0
    BY <1>3, <2>1, TextOps
  <2>3. Len(v) = 0
    BY <1>3, <2>2
  <2> QED
    BY <1>1, <2>3, TextOps
<1> QED
  BY <1>2, <1>3, <1>6, <1>7 DEF v

-----------------------------------------------------------------------------
(* The streamed answer.                                                    *)

\* What the filter holds and what was shown is what the filter makes, in one
\* piece, of all that the model has sent.
Reads ==
    Stream!Feed[fed][FALSE] = [buffer |-> buffer, inside |-> inside, visible |-> shown]


StreamInv ==
    /\ streaming \in {"called", "retrieved", "generating", "ended"}
    /\ fed \in Stream!Texts /\ shown \in Stream!Texts \cup {Stream!FALLBACK}
    /\ streaming \in {"called", "retrieved"} =>
          fed = <<>> /\ buffer = <<>> /\ inside = FALSE /\ shown = <<>> /\ emitted = FALSE
    /\ streaming = "generating" => Reads /\ (emitted <=> shown # <<>>)
    /\ streaming # "ended" => "done" \notin items
    /\ streaming = "ended" =>
          IF "done" \in items /\ emitted
          THEN shown = IF Stream!Whole(fed) = <<>> THEN Stream!FALLBACK ELSE Stream!Whole(fed)
          ELSE shown = Stream!Feed[fed][FALSE].visible

\* Nothing is read before the model answers.
LEMMA NothingRead ==
    /\ Stream!Feed[<<>>][FALSE] = [buffer |-> <<>>, inside |-> FALSE, visible |-> <<>>]
    /\ Stream!Feed[<<>>][FALSE].visible = <<>>
<1>1. <<>> \in Stream!Texts /\ Len(<<>>) = 0
  BY DEF Stream!Texts
<1>2. Place(<<>>, FALSE) = 0
  <2> DEFINE i == Place(<<>>, FALSE)
  <2>1. i \in 0..Len(<<>>)
    BY <1>1, PlaceIs
  <2> HIDE DEF i
  <2>2. i = 0
    BY <1>1, <2>1
  <2> QED
    BY <2>2 DEF i
<1>3. PICK h \in Stream!Texts, b \in Stream!Texts :
         /\ <<>> = h \o b
         /\ Stream!Feed[<<>>][FALSE] = [buffer |-> b, inside |-> FALSE, visible |-> Shown(FALSE, h)]
  BY <1>1, <1>2, KeptParts
<1>4. h = <<>> /\ b = <<>>
  <2>1. Len(h \o b) = Len(h) + Len(b) /\ Len(h) \in Nat /\ Len(b) \in Nat
    BY ConcatIs, TextOps
  <2>2. Len(h) + Len(b) = 0
    BY <1>1, <1>3, <2>1
  <2>3. Len(h) = 0 /\ Len(b) = 0
    BY <2>1, <2>2
  <2> QED
    BY <2>3, TextOps
<1>5. Stream!Feed[<<>>][FALSE] = [buffer |-> <<>>, inside |-> FALSE, visible |-> <<>>]
  BY <1>3, <1>4 DEF Shown
<1> DEFINE f == Stream!Feed[<<>>][FALSE]
<1> HIDE DEF f
<1>6. f = [buffer |-> <<>>, inside |-> FALSE, visible |-> <<>>]
  BY <1>5 DEF f
<1>7. f.visible = <<>>
  BY <1>6
<1> QED
  BY <1>6, <1>7 DEF f

\* What the filter has shown of what was sent is what was shown.
LEMMA ShownSoFar ==
    ASSUME StreamInv, streaming # "ended"
    PROVE  shown = Stream!Feed[fed][FALSE].visible
<1>1. CASE streaming = "generating"
  <2> DEFINE f == Stream!Feed[fed][FALSE]
  <2>1. f = [buffer |-> buffer, inside |-> inside, visible |-> shown]
    BY <1>1 DEF StreamInv, Reads
  <2> HIDE DEF f
  <2>2. f.visible = shown
    BY <2>1
  <2> QED
    BY <2>2 DEF f
<1>2. CASE streaming \in {"called", "retrieved"}
  <2>1. fed = <<>> /\ shown = <<>>
    BY <1>2 DEF StreamInv
  <2>2. Stream!Feed[fed][FALSE] = Stream!Feed[<<>>][FALSE]
    BY <2>1
  <2> QED
    BY <2>1, <2>2, NothingRead
<1> QED
  BY <1>1, <1>2 DEF StreamInv

\* Once the model has answered, what was read is made of texts.
LEMMA ReadTexts ==
    ASSUME fed \in Stream!Texts, Reads
    PROVE  buffer \in Stream!Texts /\ inside \in BOOLEAN /\ shown \in Stream!Texts
<1>1. Stream!Feed[fed][FALSE] \in Fed
  BY FeedType
<1>2. [buffer |-> buffer, inside |-> inside, visible |-> shown] \in Fed
  BY <1>1 DEF Reads
<1> QED
  BY <1>2 DEF Fed

\* The model's text comes in pieces.
LEMMA ReceiveKeeps ==
    ASSUME StreamInv, Stream!Receive
    PROVE  StreamInv'
<1>1. /\ streaming = "generating" /\ fed \in Stream!Texts /\ Reads
      /\ (emitted <=> shown # <<>>) /\ "done" \notin items
  BY DEF StreamInv, Stream!Receive
<1>2. /\ buffer \in Stream!Texts /\ inside \in BOOLEAN /\ shown \in Stream!Texts
  BY <1>1, ReadTexts
<1>3. PICK n \in 1..MaxPiece : \E chunk \in [1..n -> Stream!Chars] :
         LET f == Stream!Feed[buffer \o chunk][inside] IN
         /\ fed' = fed \o chunk
         /\ buffer' = f.buffer
         /\ inside' = f.inside
         /\ shown' = shown \o f.visible
         /\ emitted' = (emitted \/ f.visible # <<>>)
         /\ items' = IF f.visible # <<>> THEN items \cup {"chunk"} ELSE items
  BY DEF Stream!Receive
<1>4. PICK chunk \in [1..n -> Stream!Chars] :
         LET f == Stream!Feed[buffer \o chunk][inside] IN
         /\ fed' = fed \o chunk
         /\ buffer' = f.buffer
         /\ inside' = f.inside
         /\ shown' = shown \o f.visible
         /\ emitted' = (emitted \/ f.visible # <<>>)
         /\ items' = IF f.visible # <<>> THEN items \cup {"chunk"} ELSE items
  BY <1>3
<1> DEFINE g == Stream!Feed[buffer \o chunk][inside]
<1>5. chunk \in Stream!Texts
  <2>1. n \in Nat
    BY <1>1, TextOps, TextAssumption
  <2> QED
    BY <2>1 DEF Stream!Texts
<1>6. fed \o chunk \in Stream!Texts /\ buffer \o chunk \in Stream!Texts
  BY <1>1, <1>2, <1>5, ConcatIs
<1>7. g.visible \in Stream!Texts
  <2>1. g \in Fed
    BY <1>2, <1>6, FeedType
  <2> QED
    BY <2>1 DEF Fed
<1>8. /\ Stream!Feed[fed][FALSE].buffer = buffer
      /\ Stream!Feed[fed][FALSE].inside = inside
      /\ Stream!Feed[fed][FALSE].visible = shown
  BY <1>1 DEF Reads
<1>9. Stream!Feed[fed \o chunk][FALSE] =
        [buffer |-> g.buffer, inside |-> g.inside, visible |-> shown \o g.visible]
  <2> DEFINE f == Stream!Feed[fed][FALSE]
  <2> DEFINE e == Stream!Feed[f.buffer \o chunk][f.inside]
  <2>1. Stream!Feed[fed \o chunk][FALSE] =
          [buffer |-> e.buffer, inside |-> e.inside, visible |-> f.visible \o e.visible]
    BY <1>1, <1>5, CutFeed
  <2>2. e = g
    BY <1>8
  <2> QED
    BY <1>8, <2>1, <2>2
<1>10. Reads'
  BY <1>4, <1>9 DEF Reads
<1>11. shown \o g.visible \in Stream!Texts /\ (shown \o g.visible # <<>> <=> shown # <<>> \/ g.visible # <<>>)
  <2> DEFINE v == g.visible
  <2> HIDE DEF v
  <2>1. v \in Stream!Texts
    BY <1>7 DEF v
  <2>2. shown \o v \in Stream!Texts
    BY <1>2, <2>1, ConcatIs
  <2>3. shown \o v # <<>> <=> shown # <<>> \/ v # <<>>
    BY <1>2, <2>1, ConcatEqualIffEmpty DEF Stream!Texts
  <2> QED
    BY <2>2, <2>3 DEF v
<1>12. emitted' <=> shown' # <<>>
  BY <1>1, <1>4, <1>11
<1>13. streaming' = "generating" /\ "done" \notin items'
  BY <1>1, <1>4 DEF Stream!Receive
<1> HIDE DEF g
<1>14. fed' \in Stream!Texts /\ shown' \in Stream!Texts
  BY <1>4, <1>6, <1>11 DEF g
<1> QED
  BY <1>10, <1>12, <1>13, <1>14 DEF StreamInv

\* What was held back is shown, or that there is nothing to show.
LEMMA FinishKeeps ==
    ASSUME StreamInv, Stream!Finish
    PROVE  StreamInv'
<1>1. /\ streaming = "generating" /\ fed \in Stream!Texts /\ Reads
      /\ (emitted <=> shown # <<>>) /\ "done" \notin items
  BY DEF StreamInv, Stream!Finish
<1>2. /\ buffer \in Stream!Texts /\ inside \in BOOLEAN /\ shown \in Stream!Texts
  BY <1>1, ReadTexts
<1>3. Stream!Left \in Stream!Texts
  BY <1>2, TextOps DEF Stream!Left
<1>4. Stream!Whole(fed) = shown \o Stream!Left
  BY <1>1 DEF Reads, Stream!Whole, Stream!Left
<1>5. /\ shown' = IF emitted \/ Stream!Left # <<>> THEN shown \o Stream!Left ELSE Stream!FALLBACK
      /\ items' = items \cup {"chunk", "done"} /\ emitted' = TRUE
      /\ streaming' = "ended" /\ fed' = fed
  BY DEF Stream!Finish
<1> DEFINE l == Stream!Left
<1> HIDE DEF l
<1>6. shown \o l \in Stream!Texts
  BY <1>2, <1>3, ConcatIs DEF l
<1>7. shown \o l = <<>> <=> shown = <<>> /\ l = <<>>
  <2>1. l \in Stream!Texts
    BY <1>3 DEF l
  <2> QED
    BY <1>2, <2>1, ConcatEqualIffEmpty DEF Stream!Texts
<1>8. shown' = IF Stream!Whole(fed) = <<>> THEN Stream!FALLBACK ELSE Stream!Whole(fed)
  BY <1>1, <1>4, <1>5, <1>7 DEF l
<1>9. shown' \in Stream!Texts \cup {Stream!FALLBACK}
  BY <1>4, <1>6, <1>8 DEF l
<1>10. Stream!Whole(fed') = Stream!Whole(fed)
  BY <1>5
<1> QED
  BY <1>1, <1>5, <1>8, <1>9, <1>10 DEF StreamInv

\* The invariant holds at the start.
LEMMA StreamInit ==
    ASSUME Stream!Init
    PROVE  StreamInv
<1>1. <<>> \in Stream!Texts
  BY DEF Stream!Texts
<1> QED
  BY <1>1 DEF Stream!Init, StreamInv

\* Every step keeps it.
LEMMA StreamStep ==
    ASSUME StreamInv, [Stream!Next]_(Stream!vars)
    PROVE  StreamInv'
<1>1. CASE Stream!Uninitialised
  BY <1>1, ShownSoFar DEF StreamInv, Stream!Uninitialised, Stream!Yield
<1>2. CASE Stream!Retrieve
  BY <1>2 DEF StreamInv, Stream!Retrieve, Stream!Yield
<1>3. CASE Stream!NothingFound
  BY <1>3, ShownSoFar DEF StreamInv, Stream!NothingFound
<1>4. CASE Stream!Generate
  BY <1>4, NothingRead DEF StreamInv, Stream!Generate, Reads
<1>5. CASE Stream!Receive
  BY <1>5, ReceiveKeeps
<1>6. CASE Stream!Finish
  BY <1>6, FinishKeeps
<1>7. CASE Stream!Fails
  <2>1. /\ streaming \in {"retrieved", "generating"} /\ streaming' = "ended" /\ items' = items \cup {"error"}
        /\ UNCHANGED <<buffer, inside, emitted, fed, shown>>
    BY <1>7 DEF Stream!Fails, Stream!Yield
  <2>2. "done" \notin items'
    BY <2>1 DEF StreamInv
  <2>3. shown = Stream!Feed[fed][FALSE].visible
    BY <2>1, ShownSoFar
  <2> QED
    BY <2>1, <2>2, <2>3 DEF StreamInv
<1>8. CASE UNCHANGED Stream!vars
  BY <1>8 DEF StreamInv, Stream!vars, Reads, Stream!Whole, Stream!FALLBACK
<1> QED
  BY <1>1, <1>2, <1>3, <1>4, <1>5, <1>6, <1>7, <1>8 DEF Stream!Next

\* It is all that CutsDoNotMatter says.
LEMMA StreamPromises ==
    ASSUME StreamInv
    PROVE  Stream!CutsDoNotMatter
<1>1. ASSUME ~Stream!Answered PROVE Stream!IsPrefix(shown, Stream!Whole(fed))
  <2>1. shown = Stream!Feed[fed][FALSE].visible
    <3>1. CASE streaming = "ended"
      BY <1>1, <3>1 DEF StreamInv, Stream!Answered
    <3>2. CASE streaming # "ended"
      BY <3>2, ShownSoFar
    <3> QED
      BY <3>1, <3>2
  <2>2. fed \in Stream!Texts
    BY DEF StreamInv
  <2> QED
    BY <2>1, <2>2, WholeBegins
<1>2. Stream!Answered => shown = IF Stream!Whole(fed) = <<>> THEN Stream!FALLBACK ELSE Stream!Whole(fed)
  BY DEF StreamInv, Stream!Answered
<1> QED
  BY <1>1, <1>2 DEF Stream!CutsDoNotMatter

\* However the model's answer is cut into pieces, the stream shows at any moment
\* the beginning of what the filter makes of the text so far in one piece, and
\* all of it in the end (ReasoningTraceStreamFilter.feed).
THEOREM StreamShowsWhole == Stream!Spec => []Stream!CutsDoNotMatter
<1>1. Stream!Init => StreamInv
  BY StreamInit
<1>2. StreamInv /\ [Stream!Next]_(Stream!vars) => StreamInv'
  BY StreamStep
<1>3. StreamInv => Stream!CutsDoNotMatter
  BY StreamPromises
<1> QED
  BY <1>1, <1>2, <1>3, PTL DEF Stream!Spec
=============================================================================
