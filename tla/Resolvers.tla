----------------------------- MODULE Resolvers -----------------------------
(***************************************************************************)
(* The resolvers: from a name to the id of a project or a member           *)
(* (param_resolver.py), and from a user's bookings to a work type, hours   *)
(* and projects to suggest (work_type_, hours_ and project_resolver.py).   *)
(* Each keeps what it found in a cache of the process: names for ever,     *)
(* suggestions until they expire.  Several requests run at once; the       *)
(* projects, the members and the bookings change, and a read may fail.     *)
(* An id given as a number is taken as it is and asks nothing.             *)
(***************************************************************************)
EXTENDS Naturals, Sequences, FiniteSets, SequencesExt

CONSTANTS
    Requests, Users, Names, Projects, Members, None,
    Shorter,        \* [Names -> Names \cup {None}]: a name without its last word
    Hits,           \* what a search of a kind for a name may find, a set of ids for each
    Score,          \* [Names -> [Projects -> Nat]]: 0 below the threshold
    Bookings,       \* records [user, project, type, hours] that may be booked
    Types, DefaultType, DefaultHours,
    TopK,
    MaxChanges      \* bound: changes in the backend

VARIABLES
    found,      \* backend: what a search for a name finds, by kind
    booked,     \* backend: the bookings of the last weeks
    known,      \* _resolve_cache
    suggested,  \* the caches of the three other resolvers
    asks,       \* what each request asks: its kind, the user, and a name or project
    at,         \* where each request is
    answer,     \* what each request was told
    ever,       \* ghost: found and booked, at any time
    changes

vars == <<found, booked, known, suggested, asks, at, answer, ever, changes>>
backend == <<found, booked, ever, changes>>

NameKinds == {"project", "member"}
Ids(kind) == IF kind = "project" THEN Projects ELSE Members
NameKeys == NameKinds \X Names

Init ==
    /\ found \in {f \in [NameKeys -> Projects \cup Members \cup {None}] :
                    \A k \in NameKeys : f[k] \in Hits[k] \cup {None}}
    /\ booked \in SUBSET Bookings
    /\ known = <<>>
    /\ suggested = <<>>
    /\ asks = [r \in Requests |-> None]
    /\ at = [r \in Requests |-> "idle"]
    /\ answer = [r \in Requests |-> <<>>]
    /\ ever = [found |-> {<<k, found[k]>> : k \in NameKeys}, booked |-> booked]
    /\ changes = 0

Goto(r, place) == at' = [at EXCEPT ![r] = place]

Tell(r, value) ==
    /\ answer' = [answer EXCEPT ![r] = <<value>>]
    /\ Goto(r, "done")

Ask(r, ask) ==
    /\ at[r] = "idle"
    /\ asks' = [asks EXCEPT ![r] = ask]

-----------------------------------------------------------------------------
(* resolve_project_id and resolve_member_id                                *)

KeyOfMut(ask) == <<"project", ask.of>>
KeyOf(ask) == <<ask.kind, ask.of>>
NameKey(r) == KeyOf(asks[r])

\* The cache with value under key.
With(cache, key, value) ==
    [k \in DOMAIN cache \cup {key} |-> IF k = key THEN value ELSE cache[k]]

Remember(r, value) ==
    /\ known' = With(known, NameKey(r), value)
    /\ Tell(r, value)

AskName(r) ==
    /\ \E ask \in [kind : NameKinds, user : Users, of : Names] :
         /\ Ask(r, ask)
         /\ IF KeyOf(ask) \in DOMAIN known
              THEN Tell(r, known[KeyOf(ask)])
              ELSE Goto(r, "search") /\ UNCHANGED answer
    /\ UNCHANGED <<backend, known, suggested>>

\* The next step of a search for a project that has found nothing yet.
NextSearch(r) ==
    /\ Goto(r, IF at[r] = "search" /\ Shorter[asks[r].of] # None THEN "shorter" ELSE "recent")
    /\ UNCHANGED <<known, answer>>

\* A search for a project that fails is not remembered, and an answer that
\* cannot be read found nothing.
SearchProject(r) ==
    /\ at[r] \in {"search", "shorter"}
    /\ asks[r].kind = "project"
    /\ LET name == IF at[r] = "search" THEN asks[r].of ELSE Shorter[asks[r].of]
           value == found[<<"project", name>>]
       IN \/ value # None /\ Remember(r, value)
          \/ NextSearch(r)
          \/ Tell(r, None) /\ UNCHANGED known
    /\ UNCHANGED <<backend, suggested, asks>>

\* That a member was not found is remembered whatever the reason.
LookupMember(r) ==
    /\ at[r] = "search"
    /\ asks[r].kind = "member"
    /\ Remember(r, found[<<"member", asks[r].of>>]) \/ Remember(r, None)
    /\ UNCHANGED <<backend, suggested, asks>>

Of(u) == {b \in booked : b.user = u}

\* _find_best_match among the projects the user booked lately.
BestMatches(u, name) ==
    LET ps == {b.project : b \in Of(u)}
    IN {p \in ps : Score[name][p] > 0 /\ \A q \in ps : Score[name][q] <= Score[name][p]}

Recent(r) ==
    /\ at[r] = "recent"
    /\ LET best == BestMatches(asks[r].user, asks[r].of)
       IN \/ \E p \in best : Remember(r, p)
          \/ Remember(r, None)
    /\ UNCHANGED <<backend, suggested, asks>>

-----------------------------------------------------------------------------
(* The suggestions.  _fetch_history answers a failed read with no records.  *)

History(u, p) == {b \in Of(u) : p # None => b.project = p}
Reads(u, p) == {History(u, p), {}}

Count(S, field(_), v) == Cardinality({b \in S : field(b) = v})
Modes(S) == LET type(b) == b.type
            IN {t \in {b.type : b \in S} : \A b \in S : Count(S, type, b.type) <= Count(S, type, t)}

\* Twice the median of the hours.
Median(S) ==
    LET hours == SetToSortSeq(S, LAMBDA a, b : a.hours < b.hours)
        n == Len(hours)
    IN hours[(n + 1) \div 2].hours + hours[(n + 2) \div 2].hours

\* The TopK projects booked most often.
Tops(S) == LET project(b) == b.project
               ps == {b.project : b \in S}
           IN {T \in SUBSET ps :
                 /\ Cardinality(T) = IF Cardinality(ps) < TopK THEN Cardinality(ps) ELSE TopK
                 /\ \A p \in T, q \in ps \ T : Count(S, project, q) <= Count(S, project, p)}

Keep(r, key, value) ==
    /\ suggested' = With(suggested, key, value)
    /\ Tell(r, value)

\* The cached suggestion for the key, or the read that comes next.
Cached(r, key, next) ==
    /\ IF key \in DOMAIN suggested
         THEN Tell(r, suggested[key])
         ELSE Goto(r, next) /\ UNCHANGED answer
    /\ UNCHANGED suggested

\* Keys of the caches, each with the user first.
Key(kind, r) == <<kind, asks[r].user, asks[r].of>>
UserKey(u) == <<"user", u, None>>

AskType(r) ==
    /\ \E ask \in [kind : {"type"}, user : Users, of : Projects \cup {None}] :
         /\ Ask(r, ask)
         /\ IF ask.of = None THEN Cached(r, UserKey(ask.user), "user")
            ELSE Cached(r, <<"pair", ask.user, ask.of>>, "pair")
    /\ UNCHANGED <<backend, known>>

AskHours(r) ==
    /\ \E ask \in [kind : {"hours"}, user : Users, of : Projects \cup {None}] :
         /\ Ask(r, ask)
         /\ Cached(r, <<"hours", ask.user, ask.of>>, "hours")
    /\ UNCHANGED <<backend, known>>

AskTop(r) ==
    /\ \E ask \in [kind : {"top"}, user : Users, of : {None}] :
         /\ Ask(r, ask)
         /\ Cached(r, <<"top", ask.user, None>>, "top")
    /\ UNCHANGED <<backend, known>>

PairHistory(r) ==
    /\ at[r] = "pair"
    /\ \E records \in Reads(asks[r].user, asks[r].of) :
         \/ \E t \in Modes(records) : Keep(r, Key("pair", r), t)
         \/ records = {} /\ Cached(r, UserKey(asks[r].user), "user")
    /\ UNCHANGED <<backend, known, asks>>

UserHistory(r) ==
    /\ at[r] = "user"
    /\ \E records \in Reads(asks[r].user, None) :
         \/ \E t \in Modes(records) : Keep(r, UserKey(asks[r].user), t)
         \/ records = {} /\ Goto(r, "infer") /\ UNCHANGED <<suggested, answer>>
    /\ UNCHANGED <<backend, known, asks>>

\* Mutant: the guess is kept.
InferMut(r) ==
    /\ at[r] = "infer"
    /\ \E t \in Types \cup {DefaultType} : Keep(r, UserKey(asks[r].user), t)
    /\ UNCHANGED <<backend, known, asks>>

\* The model's guess from the description, or the default.
Infer(r) ==
    /\ at[r] = "infer"
    /\ \E t \in Types \cup {DefaultType} : Tell(r, t)
    /\ UNCHANGED <<backend, known, suggested, asks>>

\* The pair, then the user; the default is kept like a median.
HoursHistory(r) ==
    /\ at[r] \in {"hours", "allhours"}
    /\ \E records \in Reads(asks[r].user, IF at[r] = "hours" THEN asks[r].of ELSE None) :
         IF records # {} THEN Keep(r, Key("hours", r), Median(records))
         ELSE IF at[r] = "hours" THEN Goto(r, "allhours") /\ UNCHANGED <<suggested, answer>>
         ELSE Keep(r, Key("hours", r), 2 * DefaultHours)
    /\ UNCHANGED <<backend, known, asks>>

TopHistory(r) ==
    /\ at[r] = "top"
    /\ \E records \in Reads(asks[r].user, None) :
         IF records = {} THEN Tell(r, {}) /\ UNCHANGED suggested
         ELSE \E top \in Tops(records) : Keep(r, Key("top", r), top)
    /\ UNCHANGED <<backend, known, asks>>

Expire ==
    /\ \E key \in DOMAIN suggested :
         suggested' = [k \in DOMAIN suggested \ {key} |-> suggested[k]]
    /\ UNCHANGED <<backend, known, asks, at, answer>>

-----------------------------------------------------------------------------
(* The backend, as others change it.                                       *)

Change ==
    /\ changes < MaxChanges
    /\ changes' = changes + 1
    /\ \/ /\ \E k \in NameKeys : \E id \in Hits[k] \cup {None} : found' = [found EXCEPT ![k] = id]
          /\ UNCHANGED booked
       \/ /\ \E b \in Bookings : booked' = IF b \in booked THEN booked \ {b} ELSE booked \cup {b}
          /\ UNCHANGED found
    /\ ever' = [found |-> ever.found \cup {<<k, found'[k]>> : k \in NameKeys},
                booked |-> ever.booked \cup booked']
    /\ UNCHANGED <<known, suggested, asks, at, answer>>

ResolveName(r) == AskName(r) \/ SearchProject(r) \/ LookupMember(r) \/ Recent(r)
ResolveType(r) == AskType(r) \/ PairHistory(r) \/ UserHistory(r) \/ Infer(r)
ResolveHours(r) == AskHours(r) \/ HoursHistory(r)
ResolveTop(r) == AskTop(r) \/ TopHistory(r)

Next ==
    \/ Change \/ Expire
    \/ \E r \in Requests : ResolveName(r) \/ ResolveType(r) \/ ResolveHours(r) \/ ResolveTop(r)

Spec == Init /\ [][Next]_vars

-----------------------------------------------------------------------------
(* Properties.                                                             *)

\* An id told for a name is of the kind asked for and was found at some time
\* under that name, under the name without its last word, or among somebody's
\* own bookings, whichever request put it in the cache (resolve_project_id).
Supported(kind, name, id) ==
    \/ <<<<kind, name>>, id>> \in ever.found
    \/ Shorter[name] # None /\ <<<<kind, Shorter[name]>>, id>> \in ever.found
    \/ kind = "project" /\ Score[name][id] > 0 /\ \E b \in ever.booked : b.project = id

NamesMatch ==
    \A r \in Requests :
        answer[r] # <<>> /\ asks[r].kind \in NameKinds /\ answer[r] # <<None>> =>
            /\ answer[r][1] \in Ids(asks[r].kind)
            /\ Supported(asks[r].kind, asks[r].of, answer[r][1])

\* A type or a project in the caches comes from bookings of the user it is kept
\* for, a type of a pair from that project: no guess, no default and nothing of
\* another user is kept, whatever failed (resolve_work_type).
OwnSuggestions ==
    \A k \in DOMAIN suggested :
        LET own == {b \in ever.booked : b.user = k[2]} IN
        /\ k[1] = "user" => \E b \in own : b.type = suggested[k]
        /\ k[1] = "pair" => \E b \in own : b.project = k[3] /\ b.type = suggested[k]
        /\ k[1] = "top" => suggested[k] # {} /\ \A p \in suggested[k] : \E b \in own : b.project = p
=============================================================================
