----------------------------- MODULE EntityGraph -----------------------------
(***************************************************************************)
(* One user's graph of people and things, and everybody who rewrites it:   *)
(* the resolve step (resolve-step.handler.ts, entity-resolver.ts), merges  *)
(* and their undo (entity-merge.service.ts), edits, removals and rejected  *)
(* suggestions (entity-edit.service.ts), re-cut chunks, and the deletion   *)
(* of a meeting (meeting-deletion.service.ts).                             *)
(*                                                                         *)
(* Every writer but the rejection holds the user's advisory lock for its   *)
(* whole transaction, so a transaction is one action; what a resolve step  *)
(* looks up before it takes the lock is an action of its own.  Names are   *)
(* tier-1 keys and all entities have one type.  A chunk stands for its     *)
(* meeting.                                                                *)
(***************************************************************************)
EXTENDS Integers, Sequences, FiniteSets

CONSTANTS
  Names,       \* normalised names
  Chunks,      \* meetings of one chunk each
  Extraction,  \* Extraction[c]: [names, relations] found in chunk c
  MaxEntities, \* bound: entities ever created
  MaxMerges,   \* bound: merges
  MaxChanges   \* bound: renames, removals, rejections, and chunks re-cut by a re-index

Entities == 1..MaxEntities
None == 0

ASSUME GraphAssumption ==
  /\ MaxEntities \in Nat /\ MaxMerges \in Nat /\ MaxChanges \in Nat
  /\ Names \subseteq Nat /\ IsFiniteSet(Names) /\ None \notin Chunks
  /\ \A c \in Chunks : /\ Extraction[c].names \subseteq Names
                       /\ Extraction[c].relations \subseteq Extraction[c].names \X Extraction[c].names

VARIABLES
  created,     \* entities created so far: ids grow with created_at
  exists,      \* rows of entities
  canonical,   \* entities.normalized_name
  aliases,     \* entities.normalized_aliases
  into,        \* entities.merged_into_id
  userEdited,  \* entities.is_user_edited
  mentions,    \* entity_mentions: [cite, name, home, at]
  relations,   \* relations: [cite, pair, homes, ends]
  suggestions, \* entity_merge_suggestions: sets of two entities
  merges,      \* entity_merges, in order of creation, with their snapshots; an undone or deleted row is not `open`
  cut,         \* cut[c]: the id of c's chunk row, 0 once the meeting is deleted
  resolvedChunks, \* chunks with resolved_at
  vectors,     \* the resolve step's look-up: [chunk, names], names it embedded
  written,     \* history: relations as the resolve step wrote them
  tangled,     \* history: some merge was undone before a later one into the same entity
  changesLeft

graphVars == <<created, exists, canonical, aliases, into, userEdited, mentions, relations,
  suggestions, merges, cut, resolvedChunks, vectors, written, tangled, changesLeft>>

Live == {e \in exists : into[e] = None}
NoLook == [chunk |-> None, names |-> {}]
Cite(c) == <<c, cut[c]>>

\* Whom an entity stands for: itself, or what it was merged into.
Rep(e) == IF into[e] = None THEN e ELSE into[e]

GraphInit ==
  /\ created = 0 /\ exists = {}
  /\ canonical = [e \in Entities |-> None]
  /\ aliases = [e \in Entities |-> {}]
  /\ into = [e \in Entities |-> None]
  /\ userEdited = {} /\ mentions = {} /\ relations = {} /\ suggestions = {}
  /\ merges = <<>>
  /\ cut = [c \in Chunks |-> 1] /\ resolvedChunks = {} /\ vectors = NoLook
  /\ written = {} /\ tangled = FALSE
  /\ changesLeft = MaxChanges

-----------------------------------------------------------------------------
(* Resolve *)

Known(n) == {e \in Live : n = canonical[e] \/ n \in aliases[e]}

\* findExact: a canonical name before an alias, the oldest first; None if unknown.
FindExact(n) ==
  LET byName == {e \in Known(n) : canonical[e] = n}
      from == IF byName # {} THEN byName ELSE Known(n)
  IN IF from = {} THEN None ELSE CHOOSE e \in from : \A f \in from : e <= f

Unknown(c) == {n \in Extraction[c].names : FindExact(n) = None}

\* embedUnplaced, outside the lock.
Look(c) ==
  /\ c \notin resolvedChunks /\ cut[c] # 0 /\ vectors = NoLook
  /\ vectors' = [chunk |-> c, names |-> Unknown(c)]
  /\ UNCHANGED <<created, exists, canonical, aliases, into, userEdited, mentions, relations,
       suggestions, merges, cut, resolvedChunks, written, tangled, changesLeft>>

\* The transaction of resolveChunk.  A name that became unknown meanwhile has no
\* vector: resolve() throws, the step is retried and looks again.
ResolveChunk(c, proposed) ==
  LET new == Unknown(c)
      id(n) == created + Cardinality({k \in new : k <= n})
      place == [n \in Extraction[c].names |-> IF n \in new THEN id(n) ELSE FindExact(n)]
      added == {[cite |-> Cite(c), pair |-> r, homes |-> <<place[r[1]], place[r[2]]>>,
                 ends |-> <<place[r[1]], place[r[2]]>>] :
                   r \in {q \in Extraction[c].relations : place[q[1]] # place[q[2]]}}
  IN
  /\ vectors.chunk = c /\ cut[c] # 0
  /\ new \subseteq vectors.names
  /\ created + Cardinality(new) <= MaxEntities
  /\ created' = created + Cardinality(new)
  /\ exists' = exists \cup {id(n) : n \in new}
  /\ canonical' = [e \in Entities |-> IF \E n \in new : e = id(n)
                                      THEN CHOOSE n \in new : e = id(n) ELSE canonical[e]]
  /\ mentions' = mentions \cup
       {[cite |-> Cite(c), name |-> n, home |-> place[n], at |-> place[n]] : n \in Extraction[c].names}
  /\ relations' = relations \cup added
  /\ written' = written \cup added
  /\ suggestions' = suggestions \cup {{id(n), e} : n \in new, e \in proposed}
  /\ resolvedChunks' = resolvedChunks \cup {c}
  /\ vectors' = NoLook
  /\ UNCHANGED <<aliases, into, userEdited, merges, cut, tangled, changesLeft>>

ResolveFails(c) ==
  /\ vectors.chunk = c
  /\ cut[c] = 0 \/ ~(Unknown(c) \subseteq vectors.names)
  /\ vectors' = NoLook
  /\ UNCHANGED <<created, exists, canonical, aliases, into, userEdited, mentions, relations,
       suggestions, merges, cut, resolvedChunks, written, tangled, changesLeft>>

-----------------------------------------------------------------------------
(* Deleting rows *)

\* ON DELETE CASCADE from the entities in D to mentions, relations, suggestions
\* and merges, and SET NULL of merged_into_id; M and R are the citations left.
DeleteEntities(D, M, R) ==
  /\ exists' = exists \ D
  /\ into' = [e \in Entities |-> IF e \in D \/ into[e] \in D THEN None ELSE into[e]]
  /\ mentions' = {m \in M : m.at \notin D}
  /\ relations' = {r \in R : r.ends[1] \notin D /\ r.ends[2] \notin D}
  /\ suggestions' = {s \in suggestions : s \cap D = {}}
  /\ merges' = [i \in DOMAIN merges |-> [merges[i] EXCEPT !.open = @ /\ {merges[i].keep, merges[i].merged} \cap D = {}]]
  /\ userEdited' = userEdited \ D

Mentioned(M) == {m.at : m \in M}
Children(e) == {x \in exists : into[x] = e}

\* The end of the resolve step: entities nothing refers to any more go.
SweepUnmentioned ==
  LET orphans == {e \in Live \ userEdited : e \notin Mentioned(mentions) /\ Children(e) = {}}
  IN /\ orphans # {} /\ vectors = NoLook
     /\ DeleteEntities(orphans, mentions, relations)
     /\ UNCHANGED <<created, canonical, aliases, cut, resolvedChunks, vectors, written, tangled,
                    changesLeft>>

WithoutChunk(c, S) == {x \in S : x.cite # Cite(c)}

Change == changesLeft > 0 /\ changesLeft' = changesLeft - 1

\* A re-index found the chunk's text changed: a new row, the old one's citations gone.
\* It takes no lock; only the resolve step of the same meeting is not under way.
Recut(c) ==
  /\ Change /\ cut[c] # 0 /\ vectors.chunk # c
  /\ cut' = [cut EXCEPT ![c] = @ + 1]
  /\ mentions' = WithoutChunk(c, mentions)
  /\ relations' = WithoutChunk(c, relations)
  /\ resolvedChunks' = resolvedChunks \ {c}
  /\ UNCHANGED <<created, exists, canonical, aliases, into, userEdited, suggestions, merges,
                 vectors, written, tangled>>

\* What was merged into an orphan goes with it.
DeleteMeeting(c) ==
  LET left == WithoutChunk(c, mentions)
      orphans == {m.at : m \in mentions \ left} \ Mentioned(left)
  IN /\ cut[c] # 0
     /\ DeleteEntities(orphans \cup UNION {Children(e) : e \in orphans}, left, WithoutChunk(c, relations))
     /\ cut' = [cut EXCEPT ![c] = 0]
     /\ resolvedChunks' = resolvedChunks \ {c}
     /\ UNCHANGED <<created, canonical, aliases, vectors, written, tangled, changesLeft>>

-----------------------------------------------------------------------------
(* The user's hand *)

MoveEnd(r, i, from, to) == [r EXCEPT !.ends[i] = IF @ = from THEN to ELSE @]

BadRepointed_OnlyTheMerged(keep, merged) == [into EXCEPT ![merged] = keep]

\* What was merged into the merged entity follows it.
Repointed(keep, merged) ==
  [e \in Entities |-> IF e = merged \/ (e \in exists /\ into[e] = merged) THEN keep ELSE into[e]]

\* mergeOne; merging several at once is this, one after the other, under one lock.
Merge(keep, merged) ==
  LET dropped == {r \in relations : {r.ends[1], r.ends[2]} = {keep, merged}}
      moves == relations \ dropped
      names == ({canonical[merged]} \cup aliases[merged]) \ ({canonical[keep]} \cup aliases[keep])
  IN
  /\ {keep, merged} \subseteq Live /\ keep # merged /\ Len(merges) < MaxMerges
  /\ aliases' = [aliases EXCEPT ![keep] = @ \cup names]
  /\ relations' = {MoveEnd(MoveEnd(r, 1, merged, keep), 2, merged, keep) : r \in moves}
  /\ mentions' = {[m EXCEPT !.at = IF @ = merged THEN keep ELSE @] : m \in mentions}
  /\ into' = Repointed(keep, merged)
  /\ suggestions' = {s \in suggestions : merged \notin s}
  /\ merges' = Append(merges,
       [keep |-> keep, merged |-> merged, names |-> names, dropped |-> dropped, open |-> TRUE,
        mentions |-> {[cite |-> m.cite, name |-> m.name] : m \in {x \in mentions : x.at = merged}},
        sources |-> {[cite |-> r.cite, pair |-> r.pair] : r \in {x \in moves : x.ends[1] = merged}},
        targets |-> {[cite |-> r.cite, pair |-> r.pair] : r \in {x \in moves : x.ends[2] = merged}},
        children |-> Children(merged)])
  /\ userEdited' = userEdited \cup {keep}
  /\ UNCHANGED <<created, exists, canonical, cut, resolvedChunks, vectors, written, tangled,
                 changesLeft>>

BadMentionsBack_WholeChunks(g) ==
  {IF m.at = g.keep /\ \E x \in g.mentions : x.cite = m.cite
     THEN [m EXCEPT !.at = g.merged] ELSE m : m \in mentions}
MentionsBack(g) ==
  {IF m.at = g.keep /\ [cite |-> m.cite, name |-> m.name] \in g.mentions
     THEN [m EXCEPT !.at = g.merged] ELSE m : m \in mentions}

BadRestored_Nothing(g) == {}
Restored(g) == {r \in g.dropped : r.cite[2] = cut[r.cite[1]] /\ {r.ends[1], r.ends[2]} \subseteq exists}

\* The snapshot's rows that are still at `keep` go back, the dropped relations
\* return if chunk and entities still exist.  After 30 days none of this is
\* possible any more: a behaviour that never undoes the merge.
Undo(i) ==
  LET g == merges[i]
      at(r) == [cite |-> r.cite, pair |-> r.pair]
      back(r) == MoveEnd(IF at(r) \in g.sources THEN MoveEnd(r, 1, g.keep, g.merged) ELSE r,
                         2, IF at(r) \in g.targets THEN g.keep ELSE None, g.merged)
  IN
  /\ g.open /\ into[g.merged] = g.keep
  /\ into' = [e \in Entities |-> IF e = g.merged THEN None
                                 ELSE IF e \in g.children /\ into[e] = g.keep THEN g.merged ELSE into[e]]
  /\ mentions' = MentionsBack(g)
  /\ relations' = {back(r) : r \in relations} \cup Restored(g)
  /\ aliases' = [aliases EXCEPT ![g.keep] = @ \ g.names]
  /\ merges' = [merges EXCEPT ![i].open = FALSE]
  /\ tangled' = (tangled \/ \E j \in (i + 1)..Len(merges) : merges[j].open /\ merges[j].keep = g.keep)
  /\ UNCHANGED <<created, exists, canonical, userEdited, suggestions, cut, resolvedChunks, vectors,
                 written, changesLeft>>

\* update(): the old name stays as an alias.
Rename(e, n) ==
  /\ Change /\ e \in Live /\ n # canonical[e]
  /\ aliases' = [aliases EXCEPT ![e] = IF canonical[e] \in @ THEN @ \ {n} ELSE @ \cup {canonical[e]}]
  /\ canonical' = [canonical EXCEPT ![e] = n]
  /\ userEdited' = userEdited \cup {e}
  /\ UNCHANGED <<created, exists, into, mentions, relations, suggestions, merges, cut, resolvedChunks,
                 vectors, written, tangled>>

RemoveEntity(e) ==
  /\ Change /\ e \in Live
  /\ DeleteEntities({e} \cup Children(e), mentions, relations)
  /\ UNCHANGED <<created, canonical, aliases, cut, resolvedChunks, vectors, written, tangled>>

RejectSuggestion(s) ==
  /\ Change
  /\ suggestions' = suggestions \ {s}
  /\ UNCHANGED <<created, exists, canonical, aliases, into, userEdited, mentions, relations,
       merges, cut, resolvedChunks, vectors, written, tangled>>

-----------------------------------------------------------------------------
GraphNext ==
  \/ \E c \in Chunks : Look(c) \/ ResolveFails(c) \/ Recut(c) \/ DeleteMeeting(c)
  \/ \E c \in Chunks, proposed \in {{}} \cup {{e} : e \in Live} : ResolveChunk(c, proposed)
  \/ SweepUnmentioned
  \/ \E keep, merged \in Live : Merge(keep, merged)
  \/ \E i \in 1..Len(merges) : Undo(i)
  \/ \E e \in Live, n \in Names : Rename(e, n)
  \/ \E e \in Live : RemoveEntity(e)
  \/ \E s \in suggestions : RejectSuggestion(s)

GraphSpec == GraphInit /\ [][GraphNext]_graphVars

-----------------------------------------------------------------------------
(* Properties *)

GraphTypeOK ==
  /\ created \in 0..MaxEntities /\ exists \subseteq 1..created
  /\ into \in [Entities -> Entities \cup {None}]
  /\ userEdited \subseteq exists /\ resolvedChunks \subseteq Chunks
  /\ \A m \in mentions : m.home \in Entities /\ m.at \in Entities

\* Merging is never nested and nothing points into the void: an entity is merged
\* into a live one, and mentions, relations and suggestions are about live entities,
\* relations about two different ones.
GraphIsFlat ==
  /\ \A e \in exists : into[e] # None => into[e] \in Live
  /\ \A m \in mentions : m.at \in Live
  /\ \A r \in relations : {r.ends[1], r.ends[2]} \subseteq Live /\ r.ends[1] # r.ends[2]
  /\ \A s \in suggestions : s \subseteq Live /\ s # {} /\ \A e \in s : s # {e}

\* However merges, undos, deletions and runs follow one another, a mention is shown
\* under the entity it was found for, or under what that entity is merged into.
MentionsAtHome ==
  \A m \in mentions : m.home \in exists /\ m.at = Rep(m.home)

Relation(r) == [cite |-> r.cite, pair |-> r.pair, ends |-> <<Rep(r.homes[1]), Rep(r.homes[2])>>]
Shown == {[cite |-> r.cite, pair |-> r.pair, ends |-> r.ends] : r \in relations}
Expected ==
  {q \in {Relation(r) : r \in {w \in written : w.cite[2] = cut[w.cite[1]]
                                  /\ {w.homes[1], w.homes[2]} \subseteq exists}} : q.ends[1] # q.ends[2]}

\* Undo gives back exactly what the merge took (US-40): the relations shown are those
\* the transcript states, between the entities that stand for both sides.  And a name
\* the user saw merged is still found under the entity it was merged into.
UndoRestores ==
  /\ Shown = Expected
  /\ \A e \in exists : canonical[e] \in {canonical[Rep(e)]} \cup aliases[Rep(e)]

UndoRestoresInOrder == ~tangled => UndoRestores
=============================================================================
