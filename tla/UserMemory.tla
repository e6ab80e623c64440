----------------------------- MODULE UserMemory -----------------------------
(***************************************************************************)
(* The long-term memories of one user (user_memory.py): a hash for each    *)
(* memory and a sorted set, the index, that lists them.  Storing, evicting,*)
(* recalling and clearing are several statements to Redis with awaits in   *)
(* between, and each statement may fail.  The score in the index is the    *)
(* importance of the memory: it is written when the memory is stored or    *)
(* accessed, and at both moments the decay of its age is nil.  The keys    *)
(* hold the user, so the memories of another user are never touched.       *)
(***************************************************************************)
EXTENDS Naturals, FiniteSets

CONSTANTS
    Requests,       \* the operations that run, each once
    Memories,       \* the memories they may store
    Importance,     \* [Memories -> Nat]
    None,
    MaxMemories,    \* MAX_MEMORIES_PER_USER
    TopK            \* how many memories a recall wants

VARIABLES
    hash,       \* the hash of each memory: none, all its fields, or only some
    index,      \* the memories the sorted set lists
    at,         \* where each request is
    mine,       \* the memory a store adds, an eviction removes or a recall touches
    todo,       \* the memories a request still has to read, touch or delete
    got,        \* what a list or a recall has read
    gone,       \* ghost: the memories that were evicted or cleared
    before,     \* ghost: gone when the request began
    alone       \* whether the requests of the user follow one another

vars == <<hash, index, at, mine, todo, got, gone, before, alone>>

Storing == {"index", "count", "lowest", "evict", "unlist"}
Reading == {"list", "recall"}
Places == {"idle", "touch", "relist", "clear", "done", "failed"} \cup Storing \cup Reading

Init ==
    /\ index \in {S \in SUBSET Memories : Cardinality(S) <= MaxMemories}
    /\ hash = [i \in Memories |-> IF i \in index THEN "whole" ELSE "none"]
    /\ at = [r \in Requests |-> "idle"]
    /\ mine = [r \in Requests |-> None]
    /\ todo = [r \in Requests |-> {}]
    /\ got = [r \in Requests |-> {}]
    /\ gone = {}
    /\ before = [r \in Requests |-> {}]
    /\ alone \in BOOLEAN

Goto(r, place) == at' = [at EXCEPT ![r] = place]

Lowest(S) == {i \in S : \A j \in S : Importance[i] <= Importance[j]}
Highest(S) == {i \in S : \A j \in S : Importance[j] <= Importance[i]}

Quiet == \A r \in Requests : at[r] \in {"idle", "done", "failed"}

Begin(r) ==
    /\ at[r] = "idle"
    /\ alone => Quiet
    /\ before' = [before EXCEPT ![r] = gone]

-----------------------------------------------------------------------------
(* store_memory and _evict_lowest_scored                                   *)

StoreHash(r) ==
    /\ Begin(r)
    /\ \E i \in Memories :
         /\ hash[i] = "none"
         /\ i \notin gone
         /\ \A s \in Requests : mine[s] # i
         /\ hash' = [hash EXCEPT ![i] = "whole"]
         /\ mine' = [mine EXCEPT ![r] = i]
    /\ Goto(r, "index")
    /\ UNCHANGED <<index, todo, got, gone, alone>>

StoreIndex(r) ==
    /\ at[r] = "index"
    /\ index' = index \cup {mine[r]}
    /\ Goto(r, "count")
    /\ UNCHANGED <<hash, mine, todo, got, gone, before, alone>>

FullMut == Cardinality(index) > MaxMemories + 1
Full == Cardinality(index) > MaxMemories

Count(r) ==
    /\ at[r] = "count"
    /\ Goto(r, IF Full THEN "lowest" ELSE "done")
    /\ UNCHANGED <<hash, index, mine, todo, got, gone, before, alone>>

PickLowest(r) ==
    /\ at[r] = "lowest"
    /\ \/ /\ index = {}
          /\ Goto(r, "done")
          /\ UNCHANGED mine
       \/ /\ \E i \in Lowest(index) : mine' = [mine EXCEPT ![r] = i]
          /\ Goto(r, "evict")
    /\ UNCHANGED <<hash, index, todo, got, gone, before, alone>>

Evict(r) ==
    /\ at[r] = "evict"
    /\ hash' = [hash EXCEPT ![mine[r]] = "none"]
    /\ gone' = gone \cup {mine[r]}
    /\ Goto(r, "unlist")
    /\ UNCHANGED <<index, mine, todo, got, before, alone>>

Unlist(r) ==
    /\ at[r] = "unlist"
    /\ index' = index \ {mine[r]}
    /\ Goto(r, "done")
    /\ UNCHANGED <<hash, mine, todo, got, gone, before, alone>>

-----------------------------------------------------------------------------
(* list_memories and retrieve_relevant_memories                            *)

ReadIndex(r) ==
    /\ Begin(r)
    /\ \E op \in Reading : Goto(r, op)
    /\ todo' = [todo EXCEPT ![r] = index]
    /\ UNCHANGED <<hash, index, mine, got, gone, alone>>

\* A memory that is gone, or whose hash lacks a field, is left out.
ReadableMut(i) == hash[i] # "none"
Readable(i) == hash[i] = "whole"

ReadHash(r) ==
    /\ at[r] \in Reading
    /\ \E i \in Highest(todo[r]) :
         /\ todo' = [todo EXCEPT ![r] = @ \ {i}]
         /\ got' = IF Readable(i) THEN [got EXCEPT ![r] = @ \cup {i}] ELSE got
    /\ UNCHANGED <<hash, index, at, mine, gone, before, alone>>

ReadFails(r) ==
    /\ at[r] \in Reading
    /\ \E i \in Highest(todo[r]) : todo' = [todo EXCEPT ![r] = @ \ {i}]
    /\ UNCHANGED <<hash, index, at, mine, got, gone, before, alone>>

Listed(r) ==
    /\ at[r] = "list"
    /\ todo[r] = {}
    /\ Goto(r, "done")
    /\ UNCHANGED <<hash, index, mine, todo, got, gone, before, alone>>

\* The score depends on the question: any of those read may be the best.
Best(S) == {T \in SUBSET S : Cardinality(T) = (IF Cardinality(S) < TopK THEN Cardinality(S) ELSE TopK)}

Recalled(r) ==
    /\ at[r] = "recall"
    /\ todo[r] = {}
    /\ \E best \in Best(got[r]) : todo' = [todo EXCEPT ![r] = best]
    /\ Goto(r, "touch")
    /\ UNCHANGED <<hash, index, mine, got, gone, before, alone>>

\* _update_access: two fields of the hash, whether or not it is still there ...
TouchHash(r) ==
    /\ at[r] = "touch"
    /\ \E i \in todo[r] :
         /\ todo' = [todo EXCEPT ![r] = @ \ {i}]
         /\ mine' = [mine EXCEPT ![r] = i]
         /\ hash' = [hash EXCEPT ![i] = IF @ = "none" THEN "partial" ELSE @]
    /\ Goto(r, "relist")
    /\ UNCHANGED <<index, got, gone, before, alone>>

\* ... and the score in the index, again whether or not it is listed.
TouchIndex(r) ==
    /\ at[r] = "relist"
    /\ index' = index \cup {mine[r]}
    /\ Goto(r, "touch")
    /\ UNCHANGED <<hash, mine, todo, got, gone, before, alone>>

\* A failed access update is skipped, the answer stands.
TouchFails(r) ==
    /\ \/ at[r] = "relist" /\ UNCHANGED todo
       \/ /\ at[r] = "touch"
          /\ \E i \in todo[r] : todo' = [todo EXCEPT ![r] = @ \ {i}]
    /\ Goto(r, "touch")
    /\ UNCHANGED <<hash, index, mine, got, gone, before, alone>>

Touched(r) ==
    /\ at[r] = "touch"
    /\ todo[r] = {}
    /\ Goto(r, "done")
    /\ UNCHANGED <<hash, index, mine, todo, got, gone, before, alone>>

-----------------------------------------------------------------------------
(* clear_memories                                                          *)

ClearRead(r) ==
    /\ Begin(r)
    /\ todo' = [todo EXCEPT ![r] = index]
    /\ Goto(r, "clear")
    /\ UNCHANGED <<hash, index, mine, got, gone, alone>>

\* One transaction: the hashes that were listed, and the index as it is now.
ClearDelete(r) ==
    /\ at[r] = "clear"
    /\ hash' = [i \in Memories |-> IF i \in todo[r] THEN "none" ELSE hash[i]]
    /\ index' = {}
    /\ gone' = gone \cup todo[r]
    /\ Goto(r, "done")
    /\ UNCHANGED <<mine, todo, got, before, alone>>

-----------------------------------------------------------------------------
\* A statement of a store or a clear fails, or the index cannot be read.
Fails(r) ==
    /\ at[r] \in Storing \cup {"idle", "clear"}
    /\ at[r] = "idle" /\ alone => Quiet
    /\ Goto(r, "failed")
    /\ UNCHANGED <<hash, index, mine, todo, got, gone, before, alone>>

Store(r) == StoreHash(r) \/ StoreIndex(r) \/ Count(r) \/ PickLowest(r) \/ Evict(r) \/ Unlist(r)
List(r) == ReadIndex(r) \/ ReadHash(r) \/ ReadFails(r) \/ Listed(r)
Recall(r) == Recalled(r) \/ TouchHash(r) \/ TouchIndex(r) \/ TouchFails(r) \/ Touched(r)
Clear(r) == ClearRead(r) \/ ClearDelete(r)

Next == \E r \in Requests : Store(r) \/ List(r) \/ Recall(r) \/ Clear(r) \/ Fails(r)

Spec == Init /\ [][Next]_vars

-----------------------------------------------------------------------------
(* Properties.                                                             *)

\* Every variable stays within its set.
TypeOK ==
    /\ hash \in [Memories -> {"none", "whole", "partial"}]
    /\ index \subseteq Memories
    /\ at \in [Requests -> Places]
    /\ mine \in [Requests -> Memories \cup {None}]
    /\ todo \in [Requests -> SUBSET Memories]
    /\ got \in [Requests -> SUBSET Memories]
    /\ gone \subseteq Memories
    /\ before \in [Requests -> SUBSET Memories]
    /\ alone \in BOOLEAN

\* A memory that was evicted or cleared is not remembered by any request that
\* begins afterwards, although the access update of a recall that read it
\* before may write part of it back (_update_access).
StaysForgotten == \A r \in Requests : got[r] \cap before[r] = {}

\* If the requests of a user follow one another, the index is over its limit
\* by no more than a store that is still running, and one for each request that
\* failed: what an eviction misses is never made up for (_evict_lowest_scored).
CapHeld ==
    alone => Cardinality(index) <= MaxMemories
               + Cardinality({r \in Requests : at[r] \in Storing \cup {"failed"}})

\* user_memory.py:28: more memories than that are never kept.
CapKept ==
    Quiet /\ (\A r \in Requests : at[r] # "failed") => Cardinality(index) <= MaxMemories
=============================================================================
