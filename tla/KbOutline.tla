------------------------------- MODULE KbOutline -------------------------------
(***************************************************************************)
(* get_outline and read_section (services/kb_navigator.py) of one process, *)
(* while others edit the knowledge base.  A document has a modification    *)
(* time and its section titles; the outline is cached under the newest     *)
(* time and the number of documents.  A document that cannot be read is    *)
(* left out of the outline, and of what is cached; that it is there, and   *)
(* its time, can always be told.  The calls of a process do not overlap:   *)
(* neither function awaits anything.                                       *)
(***************************************************************************)
EXTENDS Naturals, Sequences, FiniteSets, FiniteSetsExt

CONSTANTS
    None,
    Files, Titles,
    Contains,       \* which titles contain which: a set of pairs
    Contents,       \* bound: the sections a document may have
    MaxChanges,     \* bound: edits of the knowledge base
    NewestStays     \* TRUE: no edit takes the newest time away

VARIABLES
    at,
    kb,             \* the documents, None where there is none
    clock,          \* the newest time a document was given
    cache,          \* _OUTLINE_CACHE
    signature,      \* of the call
    unread,         \* the files a scan has not come to yet
    scanned,        \* what it has read of the others
    outline,        \* the answer
    since,          \* ghost: what each file was since the call began
    asked,          \* read_section: the file and the title
    section         \* the index of the section that is read, 0 for none

vars == <<at, kb, clock, cache, signature, unread, scanned, outline, since, asked, section>>

Document(time, titles) == [time |-> time, titles |-> titles]
Present == {f \in Files : kb[f] # None}
Nothing == [f \in Files |-> None]

\* Ghost: stands for a document that is not listed because it could not be read.
Skipped == Document(0, <<>>)

Init ==
    /\ at = "idle"
    /\ kb \in [Files -> {None} \cup {Document(1, c) : c \in Contents}]
    /\ clock = 1
    /\ cache = [signature |-> None, documents |-> Nothing]
    /\ signature = None /\ unread = {} /\ scanned = Nothing /\ outline = Nothing
    /\ since = [f \in Files |-> {}]
    /\ asked = None /\ section = 0

\* _scan_kb_signature
Signature == <<Max({0} \cup {kb[f].time : f \in Present}), Cardinality(Present)>>

\* get_outline: the signature is taken first.
Ask ==
    /\ at \in {"idle", "answered"}
    /\ signature' = Signature
    /\ since' = [f \in Files |-> {kb[f]}]
    /\ scanned' = Nothing
    /\ IF cache.signature = signature'
         THEN at' = "answered" /\ outline' = cache.documents /\ UNCHANGED unread
         ELSE at' = "scanning" /\ unread' = Files /\ UNCHANGED outline
    /\ UNCHANGED <<kb, clock, cache, asked, section>>

\* _scan_outline: file by file; what cannot be read is passed over.
Scan(f) ==
    /\ at = "scanning" /\ f \in unread
    /\ unread' = unread \ {f}
    /\ \E d \in {kb[f]} \cup (IF kb[f] = None THEN {} ELSE {Skipped}) :
         scanned' = [scanned EXCEPT ![f] = d]
    /\ UNCHANGED <<at, kb, clock, cache, signature, outline, since, asked, section>>

\* (In the mutant, kept under a signature taken after the scan.)
KeptMut == [signature |-> Signature, documents |-> scanned]
Kept == [signature |-> signature, documents |-> scanned]
Scanned ==
    /\ at = "scanning" /\ unread = {}
    /\ cache' = Kept
    /\ outline' = scanned
    /\ at' = "answered"
    /\ UNCHANGED <<kb, clock, signature, unread, scanned, since, asked, section>>

\* read_section: the title as it stands, or else the first that contains it or
\* is contained.  (In the mutant, the first that fits either way.)
Where(titles, wanted) == {i \in DOMAIN titles : titles[i] \in wanted}
Similar(titles, t) ==
    Where(titles, {x \in Titles : x = t \/ <<x, t>> \in Contains \/ <<t, x>> \in Contains})
FindMut(titles, t) == IF Similar(titles, t) = {} THEN 0 ELSE Min(Similar(titles, t))
Find(titles, t) ==
    LET exact == Where(titles, {t})
    IN IF exact # {} THEN Min(exact)
       ELSE IF Similar(titles, t) # {} THEN Min(Similar(titles, t)) ELSE 0

Read(f, t) ==
    /\ at = "answered" /\ asked = None
    /\ \E d \in {kb[f], None} :   \* None: it is not there, or cannot be read
         /\ asked' = [file |-> f, title |-> t, of |-> d]
         /\ section' = IF d = None THEN 0 ELSE Find(d.titles, t)
    /\ UNCHANGED <<at, kb, clock, cache, signature, unread, scanned, outline, since>>

\* An edit gives a document a time that none had; or a document is deleted.
Edit(f, d) ==
    /\ d # kb[f]
    /\ NewestStays /\ d = None => \E g \in Present \ {f} : kb[g].time = clock
    /\ kb' = [kb EXCEPT ![f] = d]
    /\ IF d = None THEN UNCHANGED clock
       ELSE clock <= MaxChanges /\ clock' = d.time
    /\ since' = [since EXCEPT ![f] = @ \cup {d}]
    /\ UNCHANGED <<at, cache, signature, unread, scanned, outline, asked, section>>

Next ==
    \/ Ask \/ Scanned
    \/ \E f \in Files :
         \/ Scan(f)
         \/ \E t \in Titles : Read(f, t)
         \/ \E d \in {None} \cup {Document(clock + 1, c) : c \in Contents} : Edit(f, d)

Spec == Init /\ [][Next]_vars

-----------------------------------------------------------------------------
\* Each document of an outline is listed as it was at some time since the
\* outline was asked for, although the outline may have been kept from a call
\* long ago: this is what kb_navigator.py:70 wants of the signature.  One that
\* was there all the time is missing only if the scan that made the outline
\* could not read it (:191-195); it stays missing, although it can be read
\* again, as long as the outline is kept.  It takes NewestStays: a newest
\* document that is scanned and then deleted brings an old signature back.
OutlineCurrent ==
    at = "answered" => \A f \in Files : outline[f] \in since[f] \cup {Skipped}

\* A section that the outline lists is the one that is read, unless the document
\* was edited in between.
ReadsListed ==
    asked # None /\ outline[asked.file] = asked.of /\ asked.of # None =>
        \A i \in DOMAIN asked.of.titles :
            asked.of.titles[i] = asked.title => asked.of.titles[section] = asked.title
=============================================================================
