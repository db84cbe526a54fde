------------------------- MODULE PondRegistryProofs -------------------------
(***************************************************************************)
(* What TLAPS proves of the registry, for every set of handlers, calls,    *)
(* nodes, ponds and entries, and any number of faults and crashes: a       *)
(* served registry has its whole schema, what a caller was told is in the  *)
(* database file, an answered entry is whole, and a listing misses nothing *)
(* but what the engine refused to look up.                                 *)
(*                                                                         *)
(* Each store, the connection's and the file's, is described alone: how    *)
(* far its schema is and what its rows may be (StoreOK).  The file is      *)
(* either fresh or has the whole schema, since only a served registry is   *)
(* ever copied to it; that is what makes every fall back to it harmless.   *)
(* A handler in the middle of a listing is tied to the store it reads by   *)
(* PondsListed and EntriesListed.                                          *)
(***************************************************************************)
EXTENDS PondRegistry, TLAPS

PondRow == [name : Ids \cup Names, node : Nodes, tier : {"medium", "large", "none"}]
EntryRec == [content : Contents, by : {"latiq", "subject", "claimed"}]
OrNone(S) == S \cup {None}

Store == [version : 0..7, applied : Nat,
          node : [Nodes -> {None, "active", "down"}], pond : [Ids -> OrNone(PondRow)],
          entry : [Entries -> OrNone(EntryRec)], tables : [Datasets -> OrNone(Contents)],
          tags : [Entries -> OrNone(Contents)], policy : {None, "seed", "set"}]

StoreTyped ==
  /\ up \in {"closed", "opening", "serving", "refused"} /\ next \in Nat \ {0} /\ step \in Nat \ {0}
  /\ db \in Store /\ disk \in Store
  /\ unflushed \in BOOLEAN /\ ambiguous \in BOOLEAN
  /\ minted \subseteq Ids

RequestTyped ==
  /\ pc \in [Requests -> {"idle", "identity", "body", "located", "lookup"}]
  /\ call \in [Requests -> OrNone(AllCalls)]
  /\ todo \in [Requests -> SUBSET (Ids \cup Entries)]
  /\ listed \in [Requests -> SUBSET (Ids \cup Entries)]
  /\ DOMAIN got = Requests /\ got = [r \in Requests |-> got[r]]
  /\ missed \in [Requests -> SUBSET (Ids \cup Entries)]

TypeOK == StoreTyped /\ RequestTyped

\* The row the fourth migration seeds.
SeedRow(e) == IF e \in Datasets THEN [content |-> Seed, by |-> "latiq"] ELSE None

\* Before the fourth migration is complete a store holds what its statements put
\* there; from then on what somebody added.
Seeding(d) ==
  LET done == IF d.version = 3 THEN d.applied ELSE 0
  IN  /\ \A e \in Entries : /\ d.entry[e] = IF done >= 6 THEN SeedRow(e) ELSE None
                            /\ d.tags[e] = IF done >= 8 /\ e \in Datasets THEN Seed ELSE None
      /\ \A e \in Datasets : d.tables[e] = IF done >= 7 THEN Seed ELSE None

\* The rows of an entry are of one add.
Whole(d) ==
  \A e \in Entries : d.entry[e] # None =>
     d.tags[e] = d.entry[e].content /\ (e \in Datasets => d.tables[e] = d.entry[e].content)

\* A store, given the history: the torn entries, the ids minted, and whether a pond
\* has been named like an id.
StoreOK(d, tornSet, ids, clashed) ==
  /\ d.version < 7 => d.applied <= Migrations[d.version + 1]
  /\ d.version = 7 => d.applied = 0
  /\ IF d.version < 4 THEN Seeding(d) ELSE Whole(d)
  /\ d.version < 7 => d.pond = [p \in Ids |-> None]
  /\ \A e \in Entries : d.tags[e] # None => d.entry[e] # None \/ e \in tornSet
  /\ \A p \in Ids : d.pond[p] # None => p \in ids
  /\ clashed \/ ~Clashing(d)

\* Where the migrations are, and that the file is fresh or whole.
SchemaInv ==
  /\ disk.version \in {0, 7} /\ disk.applied = 0
  /\ disk.version = 7 => db.version = 7
  /\ up = "serving" => db.version = 7
  /\ up = "opening" => \/ next = db.version + 1 /\ (step = db.applied + 1 \/ (step = 1 /\ "schema" \in torn))
                       \/ next = 1 /\ step = 1 /\ (db.applied = 0 \/ "schema" \in torn)
  /\ up \in {"closed", "refused"} => db.applied = 0 \/ "schema" \in torn
  /\ up = "refused" => "schema" \in torn \/ next <= db.version
  /\ up # "serving" => \A r \in Requests : pc[r] = "idle"

\* What was acknowledged is in the file.
FlushedInv ==
  unflushed \/
     /\ disk.pond = db.pond
     /\ \A e \in Entries \ torn :
          IF disk.version < 7 THEN db.version >= 4 => db.entry[e] = SeedRow(e)
          ELSE disk.entry[e] = db.entry[e] /\ disk.tags[e] = db.tags[e]

RowsInv == StoreOK(db, torn, minted, ambiguous) /\ StoreOK(disk, torn, minted, ambiguous)

StoreInv == TypeOK /\ RowsInv /\ SchemaInv /\ FlushedInv

WholeRow(g) == g.tables = g.content /\ g.tags = g.content

\* A handler that has not begun to look rows up has none; a busy one has a call.
QuietAt(r) ==
  /\ pc[r] # "lookup" => got[r] = {} /\ todo[r] = {}
  /\ pc[r] # "idle" => call[r] \in Calls

\* A listing of ponds has every pond that is still there and looked up.
PondsListed(r) ==
  (pc[r] = "lookup" /\ call[r].op \in PondListOps) =>
     /\ listed[r] \subseteq minted
     /\ ambiguous \/ \A p \in listed[r] \ todo[r] :
                        db.pond[p] # None => p \in missed[r] \/ [name |-> p] \in got[r]

\* A listing of entries misses one only if it was removed under it.
EntriesListed(r) ==
  (pc[r] = "lookup" /\ call[r].op \in ListOps) =>
     /\ \A e \in todo[r] : e \in Entries /\ (db.entry[e] # None \/ r \in raced \/ e \in torn)
     /\ \A g \in got[r] : WholeRow(g)

QuietInv == \A r \in Requests : QuietAt(r)
ListedInv == \A r \in Requests : PondsListed(r) /\ EntriesListed(r)
RequestInv == QuietInv /\ ListedInv

-----------------------------------------------------------------------------
(* The calls. *)

\* What a call of each kind names and asks for.
LEMMA CallShape ==
  ASSUME NEW c \in AllCalls
  PROVE  /\ c.op \in {"dataset_add", "dataset_remove", "get_dataset"}
              => c.ref \in Datasets /\ c.arg \in Contents \cup {None}
         /\ c.op \in {"catalog_add", "catalog_remove", "get_catalog"}
              => c.ref \in Catalogs /\ c.arg \in Contents \cup {None}
         /\ c.op \in {"create_pond_assignment", "local_create_pond"}
              => c.ref \in Names \cup {None, ""}
BY DEF AllCalls, ListOps, PondListOps

\* The other handlers are where they were.
Others(r) ==
  \A q \in Requests \ {r} : /\ pc'[q] = pc[q] /\ call'[q] = call[q] /\ todo'[q] = todo[q]
                            /\ listed'[q] = listed[q] /\ got'[q] = got[q]
                            /\ missed'[q] = missed[q]

\* The handler is free again.
Answered(r) == RequestTyped' /\ Others(r) /\ pc'[r] = "idle" /\ got'[r] = {} /\ todo'[r] = {}

\* The handler that answers is free again; the others are where they were.
LEMMA AnswerDoes ==
  ASSUME TypeOK, NEW r \in Requests, NEW answer, NEW rows, Answer(r, answer, rows)
  PROVE  /\ Answered(r)
         /\ last' = [op |-> call[r].op, answer |-> answer, rows |-> rows]
<1>0. RequestTyped
  BY DEF TypeOK
<1>1. pc' \in [Requests -> {"idle", "identity", "body", "located", "lookup"}] /\ pc'[r] = "idle"
  BY <1>0 DEF Answer, RequestTyped
<1>2. call' \in [Requests -> OrNone(AllCalls)]
  BY <1>0 DEF Answer, RequestTyped, OrNone
<1>3. todo' \in [Requests -> SUBSET (Ids \cup Entries)] /\ todo'[r] = {}
  BY <1>0 DEF Answer, RequestTyped
<1>4. listed' \in [Requests -> SUBSET (Ids \cup Entries)]
  BY <1>0 DEF Answer, RequestTyped
<1>5. DOMAIN got' = Requests /\ got' = [q \in Requests |-> got'[q]] /\ got'[r] = {}
  BY <1>0 DEF Answer, RequestTyped
<1>6. Others(r)
  BY <1>0 DEF Answer, RequestTyped, Others
<1>7. missed' \in [Requests -> SUBSET (Ids \cup Entries)]
  BY <1>0 DEF Answer, RequestTyped
<1> QED BY <1>1, <1>2, <1>3, <1>4, <1>5, <1>6, <1>7 DEF Answer, Answered, RequestTyped

-----------------------------------------------------------------------------
(* What the operations make of a store. *)

\* Everything but the named parts of the store is as it was.
SameSchema(d) == d.version = db.version /\ d.applied = db.applied
SamePonds(d) == d.pond = db.pond
SameEntries(d) == d.entry = db.entry /\ d.tables = db.tables /\ d.tags = db.tags

\* The tables of nodes and of policy are a matter of their own.
LEMMA SideStores ==
  ASSUME TypeOK
  PROVE  /\ \A n \in Nodes : LET d == NodeRegistered(n) IN d \in Store /\ SameSchema(d) /\ SamePonds(d) /\ SameEntries(d)
         /\ \A n \in Nodes : LET d == NodeBeat(n) IN d \in Store /\ SameSchema(d) /\ SamePonds(d) /\ SameEntries(d)
         /\ \A S : LET d == Reaped(S) IN d \in Store /\ SameSchema(d) /\ SamePonds(d) /\ SameEntries(d)
         /\ LET d == PolicyRow IN d \in Store /\ SameSchema(d) /\ SamePonds(d) /\ SameEntries(d)
<1> USE DEF SameSchema, SamePonds, SameEntries
<1>1. ASSUME NEW n \in Nodes
      PROVE  LET d == NodeRegistered(n) IN d \in Store /\ SameSchema(d) /\ SamePonds(d) /\ SameEntries(d)
  BY DEF NodeRegistered, TypeOK, StoreTyped, Store
<1>2. ASSUME NEW n \in Nodes
      PROVE  LET d == NodeBeat(n) IN d \in Store /\ SameSchema(d) /\ SamePonds(d) /\ SameEntries(d)
  BY DEF NodeBeat, TypeOK, StoreTyped, Store
<1>3. ASSUME NEW S
      PROVE  LET d == Reaped(S) IN d \in Store /\ SameSchema(d) /\ SamePonds(d) /\ SameEntries(d)
  BY DEF Reaped, TypeOK, StoreTyped, Store
<1>4. LET d == PolicyRow IN d \in Store /\ SameSchema(d) /\ SamePonds(d) /\ SameEntries(d)
  BY DEF PolicyRow, TypeOK, StoreTyped, Store
<1> QED BY <1>1, <1>2, <1>3, <1>4

\* The ponds of d are among those of db, under their names.
FewerPonds(d) ==
  \A p \in Ids : d.pond[p] = None \/ (db.pond[p] # None /\ d.pond[p].name = db.pond[p].name)

\* A tier, a drop or a forget changes no name and adds no pond.
LEMMA PondStores ==
  ASSUME TypeOK
  PROVE  /\ \A ref : \A tier \in {"medium", "large", "none"} :
              LET d == TierSet(ref, tier) IN d \in Store /\ SameSchema(d) /\ SameEntries(d) /\ FewerPonds(d)
         /\ \A p \in Ids : LET d == Forgotten(p) IN d \in Store /\ SameSchema(d) /\ SameEntries(d) /\ FewerPonds(d)
         /\ \A ref : LET d == Dropped(ref) IN d \in Store /\ SameSchema(d) /\ SameEntries(d) /\ FewerPonds(d)
<1> USE DEF SameSchema, SameEntries
<1>1. ASSUME NEW ref, NEW tier \in {"medium", "large", "none"}
      PROVE  LET d == TierSet(ref, tier) IN d \in Store /\ SameSchema(d) /\ SameEntries(d) /\ FewerPonds(d)
  <2> DEFINE d == TierSet(ref, tier)
             ponds == [p \in Ids |-> IF p \in Matches(ref) THEN [db.pond[p] EXCEPT !.tier = tier] ELSE db.pond[p]]
  <2>1. \A p \in Matches(ref) : p \in Ids /\ db.pond[p] \in PondRow
    BY DEF Matches, TypeOK, StoreTyped, Store, OrNone
  <2>2. \A p \in Matches(ref) : /\ [db.pond[p] EXCEPT !.tier = tier] \in PondRow
                                /\ [db.pond[p] EXCEPT !.tier = tier].name = db.pond[p].name
    BY <2>1 DEF PondRow
  <2>3. \A p \in Matches(ref) : db.pond[p] # None
    BY DEF Matches
  <2>4. ponds \in [Ids -> OrNone(PondRow)]
    BY <2>2 DEF TypeOK, StoreTyped, Store, OrNone
  <2>5. \A p \in Ids : ponds[p] = None \/ (db.pond[p] # None /\ ponds[p].name = db.pond[p].name)
    BY <2>2, <2>3
  <2>6. d = [db EXCEPT !.pond = ponds]
    BY DEF TierSet
  <2> HIDE DEF ponds, d
  <2>7. d \in Store /\ SameSchema(d) /\ SameEntries(d) /\ d.pond = ponds
    BY <2>4, <2>6 DEF TypeOK, StoreTyped, Store
  <2>8. FewerPonds(d)
    BY <2>5, <2>7 DEF FewerPonds
  <2> QED BY <2>7, <2>8 DEF d
<1>2. ASSUME NEW p \in Ids
      PROVE  LET d == Forgotten(p) IN d \in Store /\ SameSchema(d) /\ SameEntries(d) /\ FewerPonds(d)
  BY DEF Forgotten, TypeOK, StoreTyped, Store, OrNone, FewerPonds
<1>3. ASSUME NEW ref
      PROVE  LET d == Dropped(ref) IN d \in Store /\ SameSchema(d) /\ SameEntries(d) /\ FewerPonds(d)
  BY DEF Dropped, TypeOK, StoreTyped, Store, OrNone, FewerPonds
<1> QED BY <1>1, <1>2, <1>3

\* A create adds one row, under a name that is legal for it.
LEMMA CreateStore ==
  ASSUME TypeOK, NEW p \in Ids, NEW n \in Nodes, NEW c \in AllCalls,
         c.op \in {"create_pond_assignment", "local_create_pond"}, Refusal(c) = "ok"
  PROVE  LET d == PondCreated(p, n, c)
         IN  d \in Store /\ SameSchema(d) /\ SameEntries(d) /\ \A q \in Ids \ {p} : d.pond[q] = db.pond[q]
<1> DEFINE row == [name |-> IF c.ref \in {None, ""} THEN p ELSE c.ref,
                   node |-> n, tier |-> ParseForCreate(c.arg)]
<1>1. ParseForCreate(c.arg) \notin {None, "none"}
  BY DEF Refusal, Invalid
<1>2. ParseForCreate(c.arg) \in {"medium", "large", "none"}
  BY <1>1 DEF ParseForCreate, ParseTier
<1>3. (IF c.ref \in {None, ""} THEN p ELSE c.ref) \in Ids \cup Names
  BY CallShape
<1>4. row \in PondRow
  BY <1>2, <1>3 DEF PondRow
<1>5. PondCreated(p, n, c) = [db EXCEPT !.pond[p] = row]
  BY DEF PondCreated
<1> DEFINE d == PondCreated(p, n, c)
           ponds == [db.pond EXCEPT ![p] = row]
<1>6. d = [db EXCEPT !.pond = ponds]
  BY <1>5
<1>7. ponds \in [Ids -> OrNone(PondRow)] /\ \A q \in Ids \ {p} : ponds[q] = db.pond[q]
  BY <1>4 DEF TypeOK, StoreTyped, Store, OrNone
<1> HIDE DEF row, ponds, d
<1>8. d \in Store /\ SameSchema(d) /\ SameEntries(d) /\ d.pond = ponds
  BY <1>6, <1>7 DEF SameSchema, SameEntries, TypeOK, StoreTyped, Store
<1> QED BY <1>7, <1>8 DEF d

\* The rows of every entry but e are as they were.
OtherEntries(d, e) ==
  \A x \in Entries \ {e} : /\ d.entry[x] = db.entry[x] /\ d.tags[x] = db.tags[x]
                           /\ x \in Datasets => d.tables[x] = db.tables[x]

\* An add replaces all the rows of an entry.
LEMMA AddStores ==
  ASSUME TypeOK, NEW content \in Contents, NEW by \in {"subject", "claimed"}
  PROVE  /\ \A e \in Datasets :
              LET d == DatasetAdded(e, content, by)
              IN  /\ d \in Store /\ SameSchema(d) /\ SamePonds(d) /\ OtherEntries(d, e)
                  /\ d.entry[e] # None /\ d.entry[e].content = content
                  /\ d.tags[e] = content /\ d.tables[e] = content
         /\ \A e \in Catalogs :
              LET d == CatalogAdded(e, content, by)
              IN  /\ d \in Store /\ SameSchema(d) /\ SamePonds(d) /\ OtherEntries(d, e)
                  /\ d.entry[e] # None /\ d.entry[e].content = content /\ d.tags[e] = content
<1> DEFINE rec == [content |-> content, by |-> by]
<1>0. rec \in EntryRec /\ rec # None /\ rec.content = content
  BY RegistryAssumption DEF EntryRec
<1> HIDE DEF rec
<1>1. ASSUME NEW e \in Datasets
      PROVE  LET d == DatasetAdded(e, content, by)
             IN  /\ d \in Store /\ SameSchema(d) /\ SamePonds(d) /\ OtherEntries(d, e)
                 /\ d.entry[e] # None /\ d.entry[e].content = content
                 /\ d.tags[e] = content /\ d.tables[e] = content
  <2> DEFINE d == DatasetAdded(e, content, by)
  <2>1. d = [db EXCEPT !.entry = [@ EXCEPT ![e] = rec], !.tables = [@ EXCEPT ![e] = content],
                       !.tags = [@ EXCEPT ![e] = content]]
    BY DEF DatasetAdded, rec
  <2> HIDE DEF d
  <2>2. e \in Entries
    BY DEF Entries
  <2>3. d \in Store /\ SameSchema(d) /\ SamePonds(d)
    BY <1>0, <2>1 DEF SameSchema, SamePonds, TypeOK, StoreTyped, Store, OrNone
  <2>4. /\ d.entry = [db.entry EXCEPT ![e] = rec] /\ d.tables = [db.tables EXCEPT ![e] = content]
        /\ d.tags = [db.tags EXCEPT ![e] = content]
    BY <2>1 DEF TypeOK, StoreTyped, Store
  <2>5. OtherEntries(d, e)
    BY <2>4 DEF OtherEntries, TypeOK, StoreTyped, Store
  <2>6. d.entry[e] = rec /\ d.tags[e] = content /\ d.tables[e] = content
    BY <2>2, <2>4 DEF TypeOK, StoreTyped, Store
  <2> QED BY <1>0, <2>3, <2>5, <2>6 DEF d
<1>2. ASSUME NEW e \in Catalogs
      PROVE  LET d == CatalogAdded(e, content, by)
             IN  /\ d \in Store /\ SameSchema(d) /\ SamePonds(d) /\ OtherEntries(d, e)
                 /\ d.entry[e] # None /\ d.entry[e].content = content /\ d.tags[e] = content
  <2> DEFINE d == CatalogAdded(e, content, by)
  <2>1. d = [db EXCEPT !.entry = [@ EXCEPT ![e] = rec], !.tags = [@ EXCEPT ![e] = content]]
    BY DEF CatalogAdded, rec
  <2> HIDE DEF d
  <2>2. e \in Entries
    BY DEF Entries
  <2>3. d \in Store /\ SameSchema(d) /\ SamePonds(d)
    BY <1>0, <2>1 DEF SameSchema, SamePonds, TypeOK, StoreTyped, Store, OrNone
  <2>4. d.entry = [db.entry EXCEPT ![e] = rec] /\ d.tables = db.tables /\ d.tags = [db.tags EXCEPT ![e] = content]
    BY <2>1 DEF TypeOK, StoreTyped, Store
  <2>5. OtherEntries(d, e)
    BY <2>4 DEF OtherEntries, TypeOK, StoreTyped, Store
  <2>6. d.entry[e] = rec /\ d.tags[e] = content
    BY <2>2, <2>4 DEF TypeOK, StoreTyped, Store
  <2> QED BY <1>0, <2>3, <2>5, <2>6 DEF d
<1> QED BY <1>1, <1>2

\* A removal takes the row first, and all of them when it runs to its end.
LEMMA RemoveStore ==
  ASSUME TypeOK, NEW e \in Entries, NEW k \in Nat
  PROVE  LET d == Removed(e, k)
         IN  /\ d \in Store /\ SameSchema(d) /\ SamePonds(d) /\ OtherEntries(d, e)
             /\ d.entry[e] = None
             /\ k = Statements(e) => d.tags[e] = None
<1> DEFINE d == Removed(e, k)
           entry == [db.entry EXCEPT ![e] = None]
           tables == [db.tables EXCEPT ![e] = IF k >= 2 THEN None ELSE db.tables[e]]
           tags == [db.tags EXCEPT ![e] = IF k >= Statements(e) THEN None ELSE db.tags[e]]
<1>1. entry \in [Entries -> OrNone(EntryRec)] /\ entry[e] = None /\ \A x \in Entries \ {e} : entry[x] = db.entry[x]
  BY DEF TypeOK, StoreTyped, Store, OrNone
<1>2. /\ tables \in [Datasets -> OrNone(Contents)]
      /\ \A x \in Datasets \ {e} : tables[x] = db.tables[x]
  <2>1. db.tables \in [Datasets -> OrNone(Contents)]
    BY DEF TypeOK, StoreTyped, Store
  <2> QED BY <2>1 DEF OrNone
<1>3. /\ tags \in [Entries -> OrNone(Contents)] /\ \A x \in Entries \ {e} : tags[x] = db.tags[x]
      /\ k = Statements(e) => tags[e] = None
  BY DEF TypeOK, StoreTyped, Store, OrNone, Statements
<1>4. CASE e \in Datasets
  <2>1. d = [db EXCEPT !.entry = entry, !.tables = tables, !.tags = tags]
    BY <1>4 DEF Removed, DatasetRemoved, Statements
  <2> HIDE DEF d, entry, tables, tags
  <2>2. d \in Store /\ d.entry = entry /\ d.tables = tables /\ d.tags = tags /\ SameSchema(d) /\ SamePonds(d)
    BY <1>1, <1>2, <1>3, <2>1 DEF TypeOK, StoreTyped, Store, SameSchema, SamePonds
  <2>3. OtherEntries(d, e)
    BY <1>1, <1>2, <1>3, <2>2 DEF OtherEntries
  <2> QED BY <1>1, <1>3, <2>2, <2>3 DEF d
<1>5. CASE e \notin Datasets
  <2>1. d = [db EXCEPT !.entry = entry, !.tags = tags]
    BY <1>5 DEF Removed, CatalogRemoved, Statements
  <2> HIDE DEF d, entry, tables, tags
  <2>2. d \in Store /\ d.entry = entry /\ d.tables = db.tables /\ d.tags = tags /\ SameSchema(d) /\ SamePonds(d)
    BY <1>1, <1>3, <2>1 DEF TypeOK, StoreTyped, Store, SameSchema, SamePonds
  <2>3. OtherEntries(d, e)
    BY <1>1, <1>3, <2>2 DEF OtherEntries
  <2> QED BY <1>1, <1>3, <2>2, <2>3 DEF d
<1> QED BY <1>4, <1>5

-----------------------------------------------------------------------------
(* What a served step does to the store. *)

\* The CHECKPOINT took, or was refused.
Filed == (disk' = db' /\ unflushed' = unflushed) \/ (disk' = disk /\ unflushed' = TRUE)

NoMove == UNCHANGED <<db, disk, unflushed, torn, ambiguous, minted>>

\* A step on the nodes or the policy, flushed or not.
SideMove ==
  /\ db' \in Store /\ SameSchema(db') /\ SamePonds(db') /\ SameEntries(db')
  /\ disk' \in {disk, db'} /\ unflushed' \in {unflushed, TRUE}
  /\ UNCHANGED <<torn, ambiguous, minted>>

FewerPondsMove ==
  /\ db' \in Store /\ SameSchema(db') /\ SameEntries(db') /\ FewerPonds(db')
  /\ Filed /\ UNCHANGED <<torn, ambiguous, minted>>

CreateMove(p) ==
  /\ db' \in Store /\ SameSchema(db') /\ SameEntries(db')
  /\ p \notin minted /\ minted' = minted \cup {p}
  /\ \A q \in Ids \ {p} : db'.pond[q] = db.pond[q]
  /\ ambiguous' = (ambiguous \/ Clashing(db'))
  /\ Filed /\ UNCHANGED torn

EntryMove(e) ==
  /\ db' \in Store /\ SameSchema(db') /\ SamePonds(db') /\ OtherEntries(db', e)
  /\ UNCHANGED <<ambiguous, minted>>

AddMove(e) ==
  /\ EntryMove(e) /\ Filed
  /\ db'.entry[e] # None /\ db'.tags[e] = db'.entry[e].content
  /\ e \in Datasets => db'.tables[e] = db'.entry[e].content
  /\ torn' = torn \/ (torn' = torn \ {e} /\ disk' = db')

RemoveMove(e) ==
  /\ EntryMove(e) /\ Filed
  /\ db'.entry[e] = None /\ db'.tags[e] = None
  /\ UNCHANGED torn /\ Racing(e) \subseteq raced'

HalfMove(e) ==
  /\ EntryMove(e) /\ UNCHANGED <<disk, unflushed>>
  /\ db'.entry[e] = None
  /\ torn' = torn \cup {e}

Move ==
  \/ NoMove \/ SideMove \/ FewerPondsMove
  \/ \E p \in Ids : CreateMove(p)
  \/ \E e \in Entries : AddMove(e) \/ RemoveMove(e) \/ (HalfMove(e) /\ Racing(e) \subseteq raced')

\* What any step of a handler does to the others and to the store.
HandlerStep(r) ==
  /\ UNCHANGED <<up, next, step>> /\ RequestTyped' /\ Others(r)
  /\ raced \subseteq raced' /\ Move

\* A checkpointed write is filed, or unflushed.
LEMMA CheckpointedFiles ==
  ASSUME NEW d, Checkpointed(d)
  PROVE  db' = d /\ Filed
BY DEF Checkpointed, Filed

\* A handler that reads.
LEMMA ReadsDoes ==
  ASSUME TypeOK, NEW r \in Requests, NEW answer, Reads(r, answer)
  PROVE  HandlerStep(r) /\ Answered(r) /\ NoMove
<1>1. Answered(r)
  BY AnswerDoes DEF Reads, Finish
<1>2. NoMove /\ UNCHANGED <<up, next, step, raced>>
  BY DEF Reads, NoMove, storeVars, historyVars
<1> QED BY <1>1, <1>2 DEF HandlerStep, Answered, Move

\* A handler that writes.
LEMMA WritesDoes ==
  ASSUME TypeOK, NEW r \in Requests, NEW d, Writes(r, d),
         d \in Store, SameSchema(d), SameEntries(d), FewerPonds(d)
  PROVE  HandlerStep(r) /\ Answered(r)
<1>1. Answered(r)
  BY AnswerDoes DEF Writes, Finish
<1>2. db' = d /\ Filed /\ UNCHANGED <<up, next, step, raced, torn, ambiguous, minted>>
  BY CheckpointedFiles DEF Writes
<1>3. FewerPondsMove
  BY <1>2 DEF FewerPondsMove
<1> QED BY <1>1, <1>2, <1>3 DEF HandlerStep, Answered, Move

\* A removal.
LEMMA RemoveDoes ==
  ASSUME TypeOK, NEW r \in Requests, NEW e \in Entries, RemoveEntry(r, e)
  PROVE  HandlerStep(r) /\ Answered(r)
<1>1. CASE db.entry[e] = None
  BY <1>1, ReadsDoes DEF RemoveEntry
<1>2. CASE db.entry[e] # None
  <2>0. raced' = raced \cup Racing(e) /\ UNCHANGED <<up, next, step, ambiguous, minted>>
    BY <1>2 DEF RemoveEntry
  <2>1. CASE Checkpointed(Removed(e, Statements(e))) /\ Finish(r, "ok") /\ UNCHANGED torn
    <3>1. Statements(e) \in Nat
      BY DEF Statements
    <3>2. db' = Removed(e, Statements(e)) /\ Filed
      BY <2>1, CheckpointedFiles
    <3>3. RemoveMove(e)
      BY <2>0, <2>1, <3>1, <3>2, RemoveStore DEF RemoveMove, EntryMove
    <3>4. Answered(r)
      BY <2>1, AnswerDoes DEF Finish
    <3> QED BY <2>0, <3>3, <3>4 DEF HandlerStep, Answered, Move
  <2>2. CASE /\ \E k \in 1..(Statements(e) - 1) : db' = Removed(e, k)
             /\ torn' = torn \cup {e}
             /\ Finish(r, "internal")
             /\ UNCHANGED <<disk, unflushed>>
    <3>1. PICK k \in 1..(Statements(e) - 1) : db' = Removed(e, k)
      BY <2>2
    <3>2. k \in Nat
      BY DEF Statements
    <3>3. HalfMove(e)
      BY <2>0, <2>2, <3>1, <3>2, RemoveStore DEF HalfMove, EntryMove
    <3>4. Answered(r)
      BY <2>2, AnswerDoes DEF Finish
    <3> QED BY <2>0, <3>3, <3>4 DEF HandlerStep, Answered, Move
  <2> QED BY <1>2, <2>1, <2>2 DEF RemoveEntry
<1> QED BY <1>1, <1>2

\* An add, once its rows are known.
LEMMA AddDoes ==
  ASSUME TypeOK, NEW r \in Requests, NEW e \in Entries, NEW d, Checkpointed(d), Finish(r, "ok"),
         torn' = IF disk' = db' THEN torn \ {e} ELSE torn,
         UNCHANGED <<up, next, step, crashes, raced, ambiguous, minted>>,
         d \in Store, SameSchema(d), SamePonds(d), OtherEntries(d, e),
         d.entry[e] # None, d.tags[e] = d.entry[e].content,
         e \in Datasets => d.tables[e] = d.entry[e].content
  PROVE  HandlerStep(r) /\ Answered(r)
<1>1. Answered(r)
  BY AnswerDoes DEF Finish
<1>2. db' = d /\ Filed
  BY CheckpointedFiles
<1>3. AddMove(e)
  BY <1>2 DEF AddMove, EntryMove
<1> QED BY <1>1, <1>3 DEF HandlerStep, Answered, Move

\* The handlers that answer in one step.
Short(r) ==
  \/ StatementFails(r) \/ ListNodes(r) \/ DescribeNode(r) \/ PolicyGet(r) \/ PolicySet(r)
  \/ CreateLocated(r) \/ GetPondLocation(r) \/ GetPondInfo(r)
  \/ SetPondTier(r) \/ PondForget(r) \/ DropPondAssignment(r)
  \/ PondList(r) \/ ListPonds(r) \/ LocalListPonds(r)
  \/ AddDataset(r) \/ AddCatalog(r) \/ RemoveDataset(r) \/ RemoveCatalog(r)
  \/ GetDataset(r) \/ GetCatalog(r)
  \/ DatasetList(r) \/ ListDatasets(r) \/ CatalogList(r) \/ ListCatalogs(r)

\* An answer that leaves the store alone.
LEMMA PlainAnswer ==
  ASSUME TypeOK, NEW r \in Requests, NEW answer, NEW rows,
         Answer(r, answer, rows), UNCHANGED <<storeVars, historyVars>>
  PROVE  HandlerStep(r) /\ Answered(r) /\ NoMove
<1>1. Answered(r)
  BY AnswerDoes
<1>2. NoMove /\ UNCHANGED <<up, next, step, raced>>
  BY DEF NoMove, storeVars, historyVars
<1> QED BY <1>1, <1>2 DEF HandlerStep, Answered, Move

\* What they do.
LEMMA ShortDoes ==
  ASSUME TypeOK, QuietInv, NEW r \in Requests, Short(r)
  PROVE  HandlerStep(r) /\ Answered(r)
<1>c. ASSUME NEW ops, In(r, ops)
      PROVE  call[r] \in AllCalls /\ call[r].op \in ops
  BY <1>c, RegistryAssumption DEF In, QuietInv, QuietAt
<1>1. CASE StatementFails(r) \/ ListNodes(r) \/ CreateLocated(r)
  BY <1>1, PlainAnswer DEF StatementFails, ListNodes, CreateLocated, Finish
<1>2. CASE DescribeNode(r) \/ PolicyGet(r) \/ GetPondLocation(r) \/ GetPondInfo(r)
  BY <1>2, ReadsDoes DEF DescribeNode, PolicyGet, GetPondLocation, GetPondInfo
<1>3. CASE PolicySet(r)
  <2>1. Answered(r)
    BY <1>3, AnswerDoes DEF PolicySet, Finish
  <2>2. SideMove /\ UNCHANGED <<up, next, step, raced>>
    BY <1>3, SideStores DEF PolicySet, SideMove, historyVars
  <2> QED BY <2>1, <2>2 DEF HandlerStep, Answered, Move
<1>4. CASE SetPondTier(r)
  <2> DEFINE ref == call[r].ref
             tier == ParseTier(call[r].arg)
  <2>1. CASE \E a : Reads(r, a)
    BY <2>1, ReadsDoes
  <2>2. CASE tier # None /\ Writes(r, TierSet(ref, tier))
    <3>1. tier \in {"medium", "large", "none"}
      BY <2>2 DEF ParseTier
    <3> QED BY <2>2, <3>1, PondStores, WritesDoes
  <2>3. call[r].op = "pond_set_tier" => (~Invalid(call[r]) => tier # None)
    BY DEF Invalid
  <2> QED BY <1>4, <2>1, <2>2, <2>3 DEF SetPondTier, In
<1>5. CASE PondForget(r)
  <2>1. CASE \E a : Reads(r, a)
    BY <2>1, ReadsDoes
  <2>2. CASE \E p \in Ids : Writes(r, Forgotten(p))
    BY <2>2, PondStores, WritesDoes
  <2> QED BY <1>5, <2>1, <2>2 DEF PondForget, Matches
<1>6. CASE DropPondAssignment(r)
  <2>1. CASE \E a : Reads(r, a)
    BY <2>1, ReadsDoes
  <2>2. CASE Writes(r, Dropped(call[r].ref))
    BY <2>2, PondStores, WritesDoes
  <2> QED BY <1>6, <2>1, <2>2 DEF DropPondAssignment
<1>7. CASE PondList(r) \/ ListPonds(r) \/ LocalListPonds(r)
  BY <1>7, PlainAnswer DEF PondList, ListPonds, LocalListPonds, Listed
<1>8. CASE AddDataset(r)
  <2>0. call[r] \in AllCalls /\ call[r].op = "dataset_add" /\ call[r].ref \in Datasets
        /\ call[r].arg \in Contents \cup {None}
    BY <1>8, <1>c, CallShape, ZenonT(60) DEF AddDataset
  <2>1. CASE \E a : Reads(r, a)
    BY <2>1, ReadsDoes
  <2>2. CASE /\ ~Invalid(call[r])
             /\ Checkpointed(DatasetAdded(call[r].ref, call[r].arg, CreatedBy(call[r])))
             /\ Finish(r, "ok")
             /\ torn' = IF disk' = db' THEN torn \ {call[r].ref} ELSE torn
             /\ UNCHANGED <<up, next, step, crashes, raced, ambiguous, minted>>
    <3>1. call[r].arg \in Contents /\ CreatedBy(call[r]) \in {"subject", "claimed"}
      BY <2>0, <2>2 DEF CreatedBy, Invalid
    <3>2. call[r].ref \in Entries
      BY <2>0 DEF Entries
    <3> QED BY <2>0, <2>2, <3>1, <3>2, AddStores, AddDoes
  <2> QED BY <1>8, <2>1, <2>2 DEF AddDataset
<1>9. CASE AddCatalog(r)
  <2>0. call[r] \in AllCalls /\ call[r].op = "catalog_add" /\ call[r].ref \in Catalogs
        /\ call[r].arg \in Contents \cup {None}
    BY <1>9, <1>c, CallShape, ZenonT(60) DEF AddCatalog
  <2>1. CASE \E a : Reads(r, a)
    BY <2>1, ReadsDoes
  <2>2. CASE /\ ~Invalid(call[r])
             /\ Checkpointed(CatalogAdded(call[r].ref, call[r].arg, CreatedBy(call[r])))
             /\ Finish(r, "ok")
             /\ torn' = IF disk' = db' THEN torn \ {call[r].ref} ELSE torn
             /\ UNCHANGED <<up, next, step, crashes, raced, ambiguous, minted>>
    <3>1. call[r].arg \in Contents /\ CreatedBy(call[r]) \in {"subject", "claimed"}
      BY <2>0, <2>2 DEF CreatedBy, Invalid
    <3>2. call[r].ref \in Entries /\ call[r].ref \notin Datasets
      BY <2>0, RegistryAssumption DEF Entries
    <3> QED BY <2>0, <2>2, <3>1, <3>2, AddStores, AddDoes
  <2> QED BY <1>9, <2>1, <2>2 DEF AddCatalog
<1>10. CASE RemoveDataset(r) \/ RemoveCatalog(r)
  <2>1. call[r].ref \in Entries /\ RemoveEntry(r, call[r].ref)
    BY <1>10, <1>c, CallShape, ZenonT(60) DEF RemoveDataset, RemoveCatalog, Entries
  <2> QED BY <2>1, RemoveDoes
<1>11. CASE GetDataset(r) \/ GetCatalog(r)
  BY <1>11, PlainAnswer DEF GetDataset, GetCatalog, GetEntry, Finish
<1>12. CASE DatasetList(r) \/ ListDatasets(r) \/ CatalogList(r) \/ ListCatalogs(r)
  BY <1>12, PlainAnswer DEF DatasetList, ListDatasets, CatalogList, ListCatalogs, Listed
<1> QED BY <1>1, <1>2, <1>3, <1>4, <1>5, <1>6, <1>7, <1>8, <1>9, <1>10, <1>11, <1>12 DEF Short

\* A handler goes on: to its body, or to read back the pond it created.
GoesOn(r) ==
  /\ RequestTyped' /\ Others(r)
  /\ pc'[r] \in {"body", "located"} /\ call'[r] = call[r] /\ todo'[r] = todo[r] /\ got'[r] = got[r]
  /\ pc[r] \in {"identity", "body"}

\* The token is looked at.
LEMMA IdentityDoes ==
  ASSUME TypeOK, NEW r \in Requests, IdentityOf(r)
  PROVE  HandlerStep(r) /\ NoMove /\ (Answered(r) \/ GoesOn(r))
<1>1. CASE Finish(r, "unauthenticated")
  BY <1>1, PlainAnswer DEF IdentityOf, Finish
<1>2. CASE pc' = [pc EXCEPT ![r] = "body"] /\ UNCHANGED <<call, todo, listed, got, missed, last>>
  <2>1. GoesOn(r)
    BY <1>2 DEF IdentityOf, GoesOn, TypeOK, RequestTyped, Others
  <2>2. NoMove /\ UNCHANGED <<up, next, step, raced>>
    BY DEF IdentityOf, NoMove, storeVars, historyVars
  <2> QED BY <2>1, <2>2 DEF HandlerStep, GoesOn, Move
<1> QED BY <1>1, <1>2 DEF IdentityOf

\* A create is refused, or writes its row.
LEMMA CreateDoes ==
  ASSUME TypeOK, QuietInv, NEW r \in Requests, CreatePondAssignment(r) \/ LocalCreatePond(r)
  PROVE  HandlerStep(r) /\ (Answered(r) \/ GoesOn(r))
<1>0. pc[r] = "body" /\ call[r].op \in {"create_pond_assignment", "local_create_pond"} /\ CreateRow(r)
  BY DEF CreatePondAssignment, LocalCreatePond, In
<1>c. call[r] \in AllCalls
  BY <1>0, RegistryAssumption DEF QuietInv, QuietAt
<1>1. CASE Refusal(call[r]) # "ok"
  BY <1>0, <1>1, ReadsDoes DEF CreateRow
<1>2. CASE Refusal(call[r]) = "ok"
  <2>1. PICK p \in Ids, n \in Nodes :
          /\ p \notin minted
          /\ minted' = minted \cup {p}
          /\ Checkpointed(PondCreated(p, n, call[r]))
          /\ ambiguous' = (ambiguous \/ Clashing(PondCreated(p, n, call[r])))
          /\ listed' = [listed EXCEPT ![r] = {p}]
    BY <1>0, <1>2 DEF CreateRow
  <2>2. /\ pc' = [pc EXCEPT ![r] = "located"]
        /\ UNCHANGED <<up, next, step, call, calls, todo, got, missed, last, crashes, torn, raced>>
    BY <1>0, <1>2 DEF CreateRow
  <2>3. db' = PondCreated(p, n, call[r]) /\ Filed
    BY <2>1, CheckpointedFiles
  <2>4. CreateMove(p)
    BY <1>0, <1>c, <1>2, <2>1, <2>2, <2>3, CreateStore DEF CreateMove
  <2>5. listed' \in [Requests -> SUBSET (Ids \cup Entries)] /\ \A q \in Requests \ {r} : listed'[q] = listed[q]
    BY <2>1 DEF TypeOK, RequestTyped
  <2>6. GoesOn(r)
    BY <1>0, <2>2, <2>5 DEF GoesOn, TypeOK, RequestTyped, Others
  <2> QED BY <2>2, <2>4, <2>6 DEF HandlerStep, GoesOn, Move
<1> QED BY <1>1, <1>2

\* A listing begins, or looks one row up; the store is only read.
LEMMA ListingDoes ==
  ASSUME TypeOK, NEW r \in Requests,
         ListPondRows(r) \/ ListedPondInfo(r) \/ SearchNames(r) \/ Lookup(r)
  PROVE  HandlerStep(r) /\ NoMove
<1>0. RequestTyped
  BY DEF TypeOK
<1>1. CASE ListPondRows(r)
  <2>1. RequestTyped' /\ Others(r)
    BY <1>0, <1>1 DEF ListPondRows, RequestTyped, Others
  <2> QED BY <1>1, <2>1 DEF ListPondRows, HandlerStep, Move, NoMove, storeVars, historyVars
<1>2. CASE ListedPondInfo(r)
  <2>1. PICK p \in todo[r] : /\ todo' = [todo EXCEPT ![r] = @ \ {p}]
                             /\ UNCHANGED got \/ \E x : got' = [got EXCEPT ![r] = x]
                             /\ UNCHANGED missed \/ missed' = [missed EXCEPT ![r] = @ \cup {p}]
    BY <1>2 DEF ListedPondInfo
  <2>2. UNCHANGED <<pc, call, listed>>
    BY <1>2 DEF ListedPondInfo
  <2>3. todo' \in [Requests -> SUBSET (Ids \cup Entries)] /\ \A q \in Requests \ {r} : todo'[q] = todo[q]
    BY <1>0, <2>1 DEF RequestTyped
  <2>4. DOMAIN got' = Requests /\ got' = [q \in Requests |-> got'[q]] /\ \A q \in Requests \ {r} : got'[q] = got[q]
    BY <1>0, <2>1 DEF RequestTyped
  <2>m. missed' \in [Requests -> SUBSET (Ids \cup Entries)] /\ \A q \in Requests \ {r} : missed'[q] = missed[q]
    BY <1>0, <2>1 DEF RequestTyped
  <2>5. RequestTyped' /\ Others(r)
    BY <1>0, <2>2, <2>3, <2>4, <2>m DEF RequestTyped, Others
  <2> QED BY <1>2, <2>5 DEF ListedPondInfo, HandlerStep, Move, NoMove, storeVars, historyVars
<1>3. CASE SearchNames(r)
  <2> DEFINE names == Search(KindOf(call[r].op), call[r].arg)
  <2>0. names \subseteq Ids \cup Entries
    BY DEF Search, KindOf, Entries
  <2> HIDE DEF names
  <2>1. /\ todo' = [todo EXCEPT ![r] = names] /\ listed' = [listed EXCEPT ![r] = names]
        /\ pc' = [pc EXCEPT ![r] = "lookup"] /\ UNCHANGED <<call, got, missed>>
    BY <1>3 DEF SearchNames, names
  <2>2. RequestTyped' /\ Others(r)
    BY <1>0, <2>0, <2>1 DEF RequestTyped, Others
  <2> QED BY <1>3, <2>2 DEF SearchNames, HandlerStep, Move, NoMove, storeVars, historyVars
<1>4. CASE Lookup(r)
  <2>1. PICK e \in todo[r] :
          \/ /\ todo' = [todo EXCEPT ![r] = @ \ {e}]
             /\ got' = [got EXCEPT ![r] = @ \cup {EntryRow(e)}]
             /\ UNCHANGED <<pc, call, calls, listed, missed, last>>
          \/ \E answer : Finish(r, answer)
    BY <1>4 DEF Lookup
  <2>2. CASE \E answer : Finish(r, answer)
    BY <1>4, <2>2, PlainAnswer DEF Lookup, Finish
  <2>3. CASE /\ todo' = [todo EXCEPT ![r] = @ \ {e}]
             /\ got' = [got EXCEPT ![r] = @ \cup {EntryRow(e)}]
             /\ UNCHANGED <<pc, call, calls, listed, missed, last>>
    <3>1. RequestTyped' /\ Others(r)
      BY <1>0, <2>3 DEF RequestTyped, Others
    <3> QED BY <1>4, <3>1 DEF Lookup, HandlerStep, Move, NoMove, storeVars, historyVars
  <2> QED BY <2>1, <2>2, <2>3
<1> QED BY <1>1, <1>2, <1>3, <1>4

\* Every step of a handler.
LEMMA HandleDoes ==
  ASSUME TypeOK, QuietInv, NEW r \in Requests, Handle(r)
  PROVE  HandlerStep(r)
<1>1. CASE Short(r)
  BY <1>1, ShortDoes
<1>2. CASE IdentityOf(r)
  BY <1>2, IdentityDoes
<1>3. CASE CreatePondAssignment(r) \/ LocalCreatePond(r)
  BY <1>3, CreateDoes
<1>4. CASE ListPondRows(r) \/ ListedPondInfo(r) \/ SearchNames(r) \/ Lookup(r)
  BY <1>4, ListingDoes
<1> QED BY <1>1, <1>2, <1>3, <1>4 DEF Handle, Short

-----------------------------------------------------------------------------
(* The store. *)

\* The migrations there are.
LEMMA MigrationList ==
  /\ Len(Migrations) = 7 /\ Migrations[4] = 8
  /\ \A v \in 1..7 : Migrations[v] \in Nat \ {0}
BY DEF Migrations

\* More history only allows more.
LEMMA StoreOKWeakens ==
  ASSUME NEW d, NEW t, NEW m, NEW a, NEW t2, NEW m2, NEW a2, StoreOK(d, t, m, a),
         t \subseteq t2, m \subseteq m2, a => a2
  PROVE  StoreOK(d, t2, m2, a2)
BY DEF StoreOK

\* What every served move has to keep of the rows.
LEMMA RowsKept ==
  ASSUME StoreInv, db' \in Store, db.version = 7, SameSchema(db'), disk' \in {disk, db'},
         StoreOK(db', torn', minted', ambiguous'),
         disk' = disk => torn \subseteq torn',
         minted \subseteq minted', ambiguous => ambiguous'
  PROVE  RowsInv'
<1>1. StoreOK(disk', torn', minted', ambiguous')
  <2>1. CASE disk' = db'
    BY <2>1
  <2>2. CASE disk' = disk
    <3>1. StoreOK(disk, torn, minted, ambiguous)
      BY DEF StoreInv, RowsInv
    <3>2. StoreOK(disk, torn', minted', ambiguous')
      BY <2>2, <3>1, StoreOKWeakens
    <3> QED BY <2>2, <3>2
  <2> QED BY <2>1, <2>2
<1> QED BY <1>1 DEF RowsInv, StoreOK, Whole, Seeding, SeedRow, Clashing

\* A file that has just been written holds everything.
LEMMA FiledIsFlushed ==
  ASSUME db'.version = 7, Filed
  PROVE  FlushedInv'
BY DEF Filed, FlushedInv

\* Half a removal leaves the rows in order: what remains is known to be torn.
LEMMA HalfKeeps ==
  ASSUME StoreInv, db.version = 7, NEW e \in Entries, HalfMove(e)
  PROVE  RowsInv' /\ FlushedInv' /\ db'.version = 7 /\ db'.applied = 0 /\ db' \in Store
<1>0. /\ RowsInv /\ FlushedInv /\ Whole(db) /\ db.applied = 0
      /\ \A x \in Entries : db.tags[x] # None => db.entry[x] # None \/ x \in torn
      /\ \A p \in Ids : db.pond[p] # None => p \in minted
      /\ ambiguous \/ ~Clashing(db)
  BY DEF StoreInv, RowsInv, StoreOK
<1>1. /\ db' \in Store /\ db'.version = 7 /\ db'.applied = 0 /\ db'.pond = db.pond
      /\ disk' = disk /\ unflushed' = unflushed /\ torn' = torn \cup {e}
      /\ UNCHANGED <<ambiguous, minted>> /\ db'.entry[e] = None
      /\ \A x \in Entries \ {e} : db'.entry[x] = db.entry[x] /\ db'.tags[x] = db.tags[x]
      /\ \A x \in Datasets \ {e} : db'.tables[x] = db.tables[x]
  <2>1. Datasets \subseteq Entries
    BY DEF Entries
  <2> QED BY <1>0, <2>1 DEF HalfMove, EntryMove, SamePonds, SameSchema, OtherEntries
<1>2. Whole(db')
  BY <1>0, <1>1 DEF Whole
<1>3. \A x \in Entries : db'.tags[x] # None => db'.entry[x] # None \/ x \in torn'
  BY <1>0, <1>1
<1>4. ambiguous' \/ ~Clashing(db')
  BY <1>0, <1>1 DEF Clashing
<1>5. StoreOK(db', torn', minted', ambiguous')
  BY <1>0, <1>1, <1>2, <1>3, <1>4 DEF StoreOK
<1>6. RowsInv'
  BY <1>1, <1>5, RowsKept DEF HalfMove, EntryMove
<1>7. FlushedInv'
  BY <1>0, <1>1 DEF FlushedInv
<1> QED BY <1>1, <1>6, <1>7

\* A step of a served registry keeps the store in order.
LEMMA MoveKeeps ==
  ASSUME StoreInv, up = "serving", UNCHANGED <<up, next, step>>, RequestTyped', Move
  PROVE  StoreInv'
<1>0. TypeOK /\ RowsInv /\ SchemaInv /\ FlushedInv /\ db.version = 7
  BY DEF StoreInv, SchemaInv
<1>1. CASE NoMove
  <2>1. TypeOK'
    BY <1>0, <1>1 DEF NoMove, TypeOK, StoreTyped
  <2>2. RowsInv' /\ FlushedInv'
    BY <1>0, <1>1 DEF NoMove, RowsInv, FlushedInv
  <2>3. SchemaInv'
    BY <1>0, <1>1 DEF NoMove, SchemaInv
  <2> QED BY <2>1, <2>2, <2>3 DEF StoreInv
<1>m. ASSUME db' \in Store, SameSchema(db'), disk' \in {disk, db'}, unflushed' \in {unflushed, TRUE},
             minted \subseteq minted', minted' \subseteq Ids, ambiguous' \in BOOLEAN, ambiguous => ambiguous',
             disk' = disk => torn \subseteq torn',
             /\ Whole(db')
             /\ \A e \in Entries : db'.tags[e] # None => db'.entry[e] # None \/ e \in torn'
             /\ \A p \in Ids : db'.pond[p] # None => p \in minted'
             /\ ambiguous' \/ ~Clashing(db'),
             FlushedInv'
      PROVE  StoreInv'
  <2>1. db'.version = 7 /\ db'.applied = 0
    BY <1>0, <1>m DEF SameSchema, RowsInv, StoreOK
  <2>2. TypeOK'
    <3>1. disk' \in Store /\ unflushed' \in BOOLEAN
      BY <1>0, <1>m DEF TypeOK, StoreTyped
    <3>2. up' \in {"closed", "opening", "serving", "refused"} /\ next' \in Nat \ {0} /\ step' \in Nat \ {0}
      BY <1>0 DEF TypeOK, StoreTyped
    <3> QED BY <1>m, <3>1, <3>2 DEF TypeOK, StoreTyped
  <2>3. StoreOK(db', torn', minted', ambiguous')
    BY <1>m, <2>1 DEF StoreOK
  <2>4. RowsInv'
    BY <1>0, <1>m, <2>3, RowsKept
  <2>5. SchemaInv'
    BY <1>0, <1>m, <2>1 DEF SchemaInv
  <2> QED BY <1>m, <2>2, <2>4, <2>5 DEF StoreInv
<1>d. /\ Whole(db)
      /\ \A e \in Entries : db.tags[e] # None => db.entry[e] # None \/ e \in torn
      /\ \A p \in Ids : db.pond[p] # None => p \in minted
      /\ ambiguous \/ ~Clashing(db)
      /\ minted \subseteq Ids /\ ambiguous \in BOOLEAN
  BY <1>0 DEF RowsInv, StoreOK, TypeOK, StoreTyped
<1>2. CASE SideMove
  <2>1. Whole(db') /\ (ambiguous' \/ ~Clashing(db'))
    BY <1>2, <1>d DEF SideMove, SamePonds, SameEntries, Whole, Clashing
  <2>2. /\ \A e \in Entries : db'.tags[e] # None => db'.entry[e] # None \/ e \in torn'
        /\ \A p \in Ids : db'.pond[p] # None => p \in minted'
    BY <1>2, <1>d DEF SideMove, SamePonds, SameEntries
  <2>3. FlushedInv'
    <3>1. CASE disk' = db'
      BY <1>0, <1>2, <3>1 DEF SideMove, SameSchema, FlushedInv
    <3>2. CASE disk' = disk
      <4>1. /\ db'.pond = db.pond /\ db'.entry = db.entry /\ db'.tags = db.tags
            /\ db'.version = db.version /\ torn' = torn /\ unflushed' \in {unflushed, TRUE}
        BY <1>2 DEF SideMove, SameSchema, SamePonds, SameEntries
      <4>2. CASE unflushed' = TRUE
        BY <4>2 DEF FlushedInv
      <4>3. CASE unflushed' = unflushed
        <5>1. CASE unflushed
          BY <4>3, <5>1 DEF FlushedInv
        <5>2. CASE ~unflushed
          <6>1. disk'.pond = db'.pond
            BY <1>0, <3>2, <4>1, <5>2 DEF FlushedInv
          <6>2. ASSUME NEW e \in Entries \ torn'
                PROVE  IF disk'.version < 7 THEN db'.version >= 4 => db'.entry[e] = SeedRow(e)
                       ELSE disk'.entry[e] = db'.entry[e] /\ disk'.tags[e] = db'.tags[e]
            BY <1>0, <3>2, <4>1, <5>2 DEF FlushedInv
          <6> QED BY <6>1, <6>2 DEF FlushedInv
        <5> QED BY <5>1, <5>2
      <4> QED BY <4>1, <4>2, <4>3
    <3> QED BY <1>2, <3>1, <3>2 DEF SideMove
  <2> QED BY <1>2, <1>m, <1>d, <2>1, <2>2, <2>3 DEF SideMove
<1>3. CASE FewerPondsMove
  <2>1. Whole(db') /\ \A e \in Entries : db'.tags[e] # None => db'.entry[e] # None \/ e \in torn'
    BY <1>3, <1>d DEF FewerPondsMove, SameEntries, Whole
  <2>2. \A p \in Ids : db'.pond[p] # None => p \in minted'
    BY <1>3, <1>d DEF FewerPondsMove, FewerPonds
  <2>3. ambiguous' \/ ~Clashing(db')
    BY <1>3, <1>d DEF FewerPondsMove, FewerPonds, Clashing
  <2>4. FlushedInv'
    BY <1>0, <1>3, FiledIsFlushed DEF FewerPondsMove, SameSchema
  <2> QED BY <1>3, <1>m, <1>d, <2>1, <2>2, <2>3, <2>4 DEF FewerPondsMove, Filed
<1>4. ASSUME NEW p \in Ids, CreateMove(p)
      PROVE  StoreInv'
  <2>1. Whole(db') /\ \A e \in Entries : db'.tags[e] # None => db'.entry[e] # None \/ e \in torn'
    BY <1>4, <1>d DEF CreateMove, SameEntries, Whole
  <2>2. \A q \in Ids : db'.pond[q] # None => q \in minted'
    BY <1>4, <1>d DEF CreateMove
  <2>3. (ambiguous' \/ ~Clashing(db')) /\ ambiguous' \in BOOLEAN /\ (ambiguous => ambiguous')
    BY <1>4, <1>d DEF CreateMove
  <2>4. FlushedInv'
    BY <1>0, <1>4, FiledIsFlushed DEF CreateMove, SameSchema
  <2> QED BY <1>4, <1>m, <1>d, <2>1, <2>2, <2>3, <2>4 DEF CreateMove, Filed
<1>5. ASSUME NEW e \in Entries, EntryMove(e)
      PROVE  /\ \A p \in Ids : db'.pond[p] # None => p \in minted'
             /\ ambiguous' \/ ~Clashing(db')
             /\ db'.version = 7
             /\ \A x \in Entries \ {e} : db'.entry[x] = db.entry[x] /\ db'.tags[x] = db.tags[x]
             /\ \A x \in Datasets \ {e} : db'.tables[x] = db.tables[x]
  <2>1. Datasets \subseteq Entries
    BY DEF Entries
  <2> QED BY <1>0, <1>5, <1>d, <2>1 DEF EntryMove, SamePonds, SameSchema, OtherEntries, Clashing
<1>6. ASSUME NEW e \in Entries, AddMove(e)
      PROVE  StoreInv'
  <2>1. Whole(db')
    BY <1>5, <1>6, <1>d DEF AddMove, Whole
  <2>2. \A x \in Entries : db'.tags[x] # None => db'.entry[x] # None \/ x \in torn'
    BY <1>5, <1>6, <1>d DEF AddMove
  <2>3. FlushedInv'
    BY <1>5, <1>6, FiledIsFlushed DEF AddMove
  <2>4. disk' = disk => torn \subseteq torn' \/ disk' = db'
    BY <1>6 DEF AddMove
  <2>5. CASE torn \subseteq torn'
    BY <1>5, <1>6, <1>m, <1>d, <2>1, <2>2, <2>3, <2>5 DEF AddMove, EntryMove, Filed
  <2>6. CASE torn' = torn \ {e} /\ disk' = db'
    \* The file now is the connection's store, so nothing of the old file matters.
    <3>1. db'.version = 7 /\ db'.applied = 0
      BY <1>0, <1>6 DEF AddMove, EntryMove, SameSchema, RowsInv, StoreOK
    <3>2. StoreOK(db', torn', minted', ambiguous')
      BY <1>5, <1>6, <2>1, <2>2, <3>1 DEF StoreOK, AddMove
    <3>3. RowsInv'
      BY <2>6, <3>2 DEF RowsInv, StoreOK, Whole, Seeding, SeedRow, Clashing
    <3>4. SchemaInv'
      BY <2>6, <3>1 DEF SchemaInv
    <3>5. TypeOK'
      <4>1. up' \in {"closed", "opening", "serving", "refused"} /\ next' \in Nat \ {0} /\ step' \in Nat \ {0}
        BY <1>0 DEF TypeOK, StoreTyped
      <4>2. unflushed' \in BOOLEAN
        BY <1>0, <1>6 DEF AddMove, Filed, TypeOK, StoreTyped
      <4> QED BY <1>6, <1>d, <2>6, <4>1, <4>2 DEF AddMove, EntryMove, TypeOK, StoreTyped
    <3> QED BY <2>3, <3>3, <3>4, <3>5 DEF StoreInv
  <2> QED BY <1>6, <2>5, <2>6 DEF AddMove
<1>7. ASSUME NEW e \in Entries, RemoveMove(e)
      PROVE  StoreInv'
  <2>1. Whole(db')
    BY <1>5, <1>7, <1>d DEF RemoveMove, Whole
  <2>2. \A x \in Entries : db'.tags[x] # None => db'.entry[x] # None \/ x \in torn'
    BY <1>5, <1>7, <1>d DEF RemoveMove
  <2>3. FlushedInv'
    BY <1>5, <1>7, FiledIsFlushed DEF RemoveMove
  <2> QED BY <1>5, <1>7, <1>m, <1>d, <2>1, <2>2, <2>3 DEF RemoveMove, EntryMove, Filed
<1>8. ASSUME NEW e \in Entries, HalfMove(e)
      PROVE  StoreInv'
  <2>1. RowsInv' /\ FlushedInv' /\ db'.version = 7 /\ db'.applied = 0 /\ db' \in Store
    BY <1>0, <1>8, HalfKeeps
  <2>2. UNCHANGED <<disk, unflushed, ambiguous, minted>>
    BY <1>8 DEF HalfMove, EntryMove
  <2>3. TypeOK'
    BY <1>0, <2>1, <2>2 DEF TypeOK, StoreTyped
  <2>4. SchemaInv'
    BY <1>0, <2>1, <2>2 DEF SchemaInv
  <2> QED BY <2>1, <2>3, <2>4 DEF StoreInv
<1> QED BY <1>1, <1>2, <1>3, <1>4, <1>6, <1>7, <1>8 DEF Move

\* A store with more statements of a migration applied, and what they seed.
LEMMA SeededDoes ==
  ASSUME TypeOK, NEW k \in Nat
  PROVE  LET b == [db EXCEPT !.applied = k]
             d == Seeded(b)
         IN  /\ d \in Store /\ d.version = db.version /\ d.applied = k /\ d.pond = db.pond
             /\ db.version = 3 /\ k = 6 =>
                  (\A e \in Entries : d.entry[e] = IF e \in Datasets THEN [content |-> Seed, by |-> "latiq"] ELSE db.entry[e])
             /\ db.version = 3 /\ k = 7 => \A e \in Datasets : d.tables[e] = Seed
             /\ db.version = 3 /\ k = 8 =>
                  (\A e \in Entries : d.tags[e] = IF e \in Datasets THEN Seed ELSE db.tags[e])
             /\ ~(db.version = 3 /\ k = 6) => d.entry = db.entry
             /\ ~(db.version = 3 /\ k = 7) => d.tables = db.tables
             /\ ~(db.version = 3 /\ k = 8) => d.tags = db.tags
<1> DEFINE b == [db EXCEPT !.applied = k]
           d == Seeded(b)
<1>0. /\ b \in Store /\ b.version = db.version /\ b.applied = k /\ b.pond = db.pond
      /\ b.entry = db.entry /\ b.tables = db.tables /\ b.tags = db.tags
  BY DEF TypeOK, StoreTyped, Store
<1>s. Seed \in Contents /\ [content |-> Seed, by |-> "latiq"] \in EntryRec
  BY RegistryAssumption DEF EntryRec
<1> HIDE DEF b
<1>1. CASE b.version = 0 /\ b.applied = 5
  <2>1. d = [b EXCEPT !.policy = "seed"]
    BY <1>1 DEF Seeded
  <2> HIDE DEF d
  <2>2. /\ d \in Store /\ d.version = b.version /\ d.applied = b.applied /\ d.pond = b.pond
        /\ d.entry = b.entry /\ d.tables = b.tables /\ d.tags = b.tags
    BY <1>0, <2>1 DEF Store
  <2> QED BY <1>0, <1>1, <2>2 DEF d, b
<1>2. CASE b.version = 3 /\ b.applied = 6
  <2> DEFINE x == [e \in Entries |-> IF e \in Datasets THEN [content |-> Seed, by |-> "latiq"] ELSE b.entry[e]]
  <2>1. d = [b EXCEPT !.entry = x]
    BY <1>2 DEF Seeded
  <2>2. x \in [Entries -> OrNone(EntryRec)]
    BY <1>0, <1>s DEF Store, OrNone
  <2>3. \A e \in Entries : x[e] = IF e \in Datasets THEN [content |-> Seed, by |-> "latiq"] ELSE b.entry[e]
    OBVIOUS
  <2> HIDE DEF d, x
  <2>4. /\ d \in Store /\ d.version = b.version /\ d.applied = b.applied /\ d.pond = b.pond
        /\ d.entry = x /\ d.tables = b.tables /\ d.tags = b.tags
    BY <1>0, <2>1, <2>2 DEF Store
  <2> QED BY <1>0, <1>2, <2>3, <2>4 DEF d, b
<1>3. CASE b.version = 3 /\ b.applied = 7
  <2> DEFINE x == [e \in Datasets |-> Seed]
  <2>1. d = [b EXCEPT !.tables = x]
    BY <1>3 DEF Seeded
  <2>2. x \in [Datasets -> OrNone(Contents)] /\ \A e \in Datasets : x[e] = Seed
    BY <1>s DEF OrNone
  <2> HIDE DEF d, x
  <2>3. /\ d \in Store /\ d.version = b.version /\ d.applied = b.applied /\ d.pond = b.pond
        /\ d.entry = b.entry /\ d.tables = x /\ d.tags = b.tags
    BY <1>0, <2>1, <2>2 DEF Store
  <2> QED BY <1>0, <1>3, <2>2, <2>3 DEF d, b
<1>4. CASE b.version = 3 /\ b.applied = 8
  <2> DEFINE x == [e \in Entries |-> IF e \in Datasets THEN Seed ELSE b.tags[e]]
  <2>1. d = [b EXCEPT !.tags = x]
    BY <1>4 DEF Seeded
  <2>2. x \in [Entries -> OrNone(Contents)]
    BY <1>0, <1>s DEF Store, OrNone
  <2>3. \A e \in Entries : x[e] = IF e \in Datasets THEN Seed ELSE b.tags[e]
    OBVIOUS
  <2> HIDE DEF d, x
  <2>4. /\ d \in Store /\ d.version = b.version /\ d.applied = b.applied /\ d.pond = b.pond
        /\ d.entry = b.entry /\ d.tables = b.tables /\ d.tags = x
    BY <1>0, <2>1, <2>2 DEF Store
  <2> QED BY <1>0, <1>4, <2>3, <2>4 DEF d, b
<1>5. CASE ~(b.version = 0 /\ b.applied = 5) /\ ~(b.version = 3 /\ b.applied \in {6, 7, 8})
  <2>1. d = b
    BY <1>5 DEF Seeded
  <2> QED BY <1>0, <1>5, <2>1 DEF d, b
<1> QED BY <1>1, <1>2, <1>3, <1>4, <1>5

\* A statement of a migration.
LEMMA StatementKeeps ==
  ASSUME StoreInv, up = "opening", db.version < 7, next = db.version + 1,
         step <= Migrations[db.version + 1],
         step > db.applied \/ Repeatable(db.version + 1),
         db' = Seeded([db EXCEPT !.applied = step]), step' = step + 1,
         UNCHANGED <<up, next, disk, requestVars, historyVars>>
  PROVE  StoreInv'
<1>0. /\ TypeOK /\ RowsInv /\ SchemaInv /\ FlushedInv /\ step \in Nat /\ db.applied \in Nat
      /\ db.version \in 0..7 /\ StoreOK(db, torn, minted, ambiguous)
  BY DEF StoreInv, TypeOK, StoreTyped, Store, RowsInv
<1>u. UNCHANGED <<pc, call, todo, listed, got, missed, torn, minted, ambiguous, unflushed>>
  BY DEF requestVars, historyVars
<1>1. /\ db' \in Store /\ db'.version = db.version /\ db'.applied = step /\ db'.pond = db.pond
      /\ (db.version = 3 /\ step = 6) =>
           (\A e \in Entries : db'.entry[e] = IF e \in Datasets THEN [content |-> Seed, by |-> "latiq"] ELSE db.entry[e])
      /\ (db.version = 3 /\ step = 7) => \A e \in Datasets : db'.tables[e] = Seed
      /\ (db.version = 3 /\ step = 8) =>
           (\A e \in Entries : db'.tags[e] = IF e \in Datasets THEN Seed ELSE db.tags[e])
      /\ ~(db.version = 3 /\ step = 6) => db'.entry = db.entry
      /\ ~(db.version = 3 /\ step = 7) => db'.tables = db.tables
      /\ ~(db.version = 3 /\ step = 8) => db'.tags = db.tags
  BY <1>0, SeededDoes
<1>2. db.version = 3 => step = db.applied + 1 /\ step <= 8
  BY <1>0, MigrationList DEF SchemaInv, Repeatable
<1>3. disk.version = 0
  BY <1>0 DEF SchemaInv
<1>4. db.version < 4 => Seeding(db')
  <2> SUFFICES ASSUME db.version < 4 PROVE Seeding(db')
    OBVIOUS
  <2>0. Seeding(db)
    BY <1>0 DEF StoreOK
  <2>1. CASE db.version # 3
    BY <1>1, <2>0, <2>1 DEF Seeding
  <2>2. CASE db.version = 3 /\ step < 6
    BY <1>0, <1>1, <1>2, <2>0, <2>2 DEF Seeding
  <2>3. CASE db.version = 3 /\ step = 6
    BY <1>0, <1>1, <1>2, <2>0, <2>3 DEF Seeding, SeedRow
  <2>4. CASE db.version = 3 /\ step = 7
    BY <1>0, <1>1, <1>2, <2>0, <2>4 DEF Seeding
  <2>5. CASE db.version = 3 /\ step = 8
    BY <1>0, <1>1, <1>2, <2>0, <2>5 DEF Seeding
  <2> QED BY <1>0, <1>2, <2>1, <2>2, <2>3, <2>4, <2>5
<1>5. db.version >= 4 => db'.entry = db.entry /\ db'.tables = db.tables /\ db'.tags = db.tags
  BY <1>1
<1>6. IF db'.version < 4 THEN Seeding(db') ELSE Whole(db')
  BY <1>0, <1>1, <1>4, <1>5 DEF StoreOK, Whole
<1>7. \A e \in Entries : db'.tags[e] # None => db'.entry[e] # None \/ e \in torn
  <2>1. CASE db.version < 4
    <3>1. \A e \in Datasets : SeedRow(e) # None
      BY RegistryAssumption DEF SeedRow
    <3>2. \A e \in Entries : db'.tags[e] # None => db'.entry[e] = SeedRow(e) /\ e \in Datasets
      <4> DEFINE done == IF db'.version = 3 THEN db'.applied ELSE 0
      <4>1. done \in Nat
        BY <1>0, <1>1
      <4>2. done >= 8 => done >= 6
        BY <4>1
      <4> QED BY <1>4, <2>1, <4>2 DEF Seeding
    <3> QED BY <3>1, <3>2
  <2>2. CASE db.version >= 4
    BY <1>0, <1>5, <2>2 DEF StoreOK
  <2> QED BY <1>0, <2>1, <2>2
<1>8. StoreOK(db', torn', minted', ambiguous')
  <2>1. \A p \in Ids : db'.pond[p] # None => p \in minted
    BY <1>0, <1>1 DEF StoreOK
  <2>2. ambiguous \/ ~Clashing(db')
    BY <1>0, <1>1 DEF StoreOK, Clashing
  <2>3. db'.pond = [p \in Ids |-> None]
    BY <1>0, <1>1 DEF StoreOK
  <2> QED BY <1>0, <1>1, <1>u, <1>6, <1>7, <2>1, <2>2, <2>3 DEF StoreOK
<1>9. StoreOK(disk', torn', minted', ambiguous')
  BY <1>0, <1>u DEF RowsInv
<1>10. RowsInv'
  BY <1>8, <1>9 DEF RowsInv, StoreOK, Whole, Seeding, SeedRow, Clashing
<1>11. FlushedInv'
  <2>1. CASE unflushed
    BY <1>u, <2>1 DEF FlushedInv
  <2>2. CASE ~unflushed
    <3>1. disk'.pond = db'.pond
      BY <1>0, <1>1, <2>2 DEF FlushedInv
    <3>2. \A e \in Entries \ torn' : db'.version >= 4 => db'.entry[e] = SeedRow(e)
      BY <1>0, <1>1, <1>3, <1>5, <1>u, <2>2 DEF FlushedInv
    <3>3. disk'.version < 7
      BY <1>3
    <3> QED BY <3>1, <3>2, <3>3 DEF FlushedInv
  <2> QED BY <2>1, <2>2
<1>12. SchemaInv'
  BY <1>0, <1>1, <1>3, <1>u DEF SchemaInv
<1>13. TypeOK'
  BY <1>0, <1>1, <1>u DEF TypeOK, StoreTyped, RequestTyped
<1> QED BY <1>10, <1>11, <1>12, <1>13 DEF StoreInv

\* The row that records a version.
LEMMA VersionKeeps ==
  ASSUME StoreInv, up = "opening", db.version < 7, next = db.version + 1,
         step > Migrations[db.version + 1],
         db' = [db EXCEPT !.version = db.version + 1, !.applied = 0], step' = 1, next' = next + 1,
         UNCHANGED <<up, disk, requestVars, historyVars>>
  PROVE  StoreInv'
<1>0. /\ TypeOK /\ RowsInv /\ SchemaInv /\ FlushedInv /\ step \in Nat /\ db.applied \in Nat
      /\ db.version \in 0..7 /\ StoreOK(db, torn, minted, ambiguous)
  BY DEF StoreInv, TypeOK, StoreTyped, Store, RowsInv
<1>u. UNCHANGED <<pc, call, todo, listed, got, missed, torn, minted, ambiguous, unflushed>>
  BY DEF requestVars, historyVars
<1>1. /\ db' \in Store /\ db'.version = db.version + 1 /\ db'.applied = 0 /\ db'.pond = db.pond
      /\ db'.entry = db.entry /\ db'.tables = db.tables /\ db'.tags = db.tags
  <2> DEFINE v == db.version + 1
  <2>1. v \in 0..7
    BY <1>0
  <2>2. db' = [db EXCEPT !.version = v, !.applied = 0]
    OBVIOUS
  <2> DEFINE b == [db EXCEPT !.version = v]
  <2> HIDE DEF v
  <2>3. /\ b \in Store /\ b.version = v /\ b.pond = db.pond
        /\ b.entry = db.entry /\ b.tables = db.tables /\ b.tags = db.tags
    BY <1>0, <2>1 DEF TypeOK, StoreTyped, Store
  <2>4. db' = [b EXCEPT !.applied = 0]
    BY <2>2
  <2> HIDE DEF b
  <2> DEFINE c == [b EXCEPT !.applied = 0]
  <2>5. /\ c \in Store /\ c.version = b.version /\ c.applied = 0 /\ c.pond = b.pond
        /\ c.entry = b.entry /\ c.tables = b.tables /\ c.tags = b.tags
    BY <2>3 DEF Store
  <2> HIDE DEF c
  <2> QED BY <2>3, <2>4, <2>5 DEF v, c
<1>2. Migrations[db.version + 1] \in Nat \ {0} /\ db.applied <= Migrations[db.version + 1]
  BY <1>0, MigrationList DEF StoreOK
<1>3. db.applied = Migrations[db.version + 1]
  BY <1>0, <1>2 DEF SchemaInv
<1>4. disk.version = 0
  BY <1>0 DEF SchemaInv
<1>5. ASSUME db.version = 3, NEW e \in Entries
      PROVE  /\ db.entry[e] = SeedRow(e)
             /\ db.tags[e] = IF e \in Datasets THEN Seed ELSE None
             /\ e \in Datasets => db.tables[e] = Seed
  <2>1. db.applied = 8 /\ Seeding(db)
    BY <1>0, <1>3, <1>5, MigrationList DEF StoreOK
  <2> QED BY <1>5, <2>1 DEF Seeding
<1>6. IF db'.version < 4 THEN Seeding(db') ELSE Whole(db')
  <2>1. CASE db.version < 3
    <3>1. Seeding(db)
      BY <1>0, <2>1 DEF StoreOK
    <3> QED BY <1>0, <1>1, <2>1, <3>1 DEF Seeding
  <2>2. CASE db.version = 3
    <3>1. \A e \in Entries : SeedRow(e) # None => e \in Datasets /\ SeedRow(e).content = Seed
      BY DEF SeedRow
    <3>2. Whole(db')
      BY <1>1, <1>5, <2>2, <3>1 DEF Whole
    <3> QED BY <1>1, <2>2, <3>2
  <2>3. CASE db.version >= 4
    BY <1>0, <1>1, <2>3 DEF StoreOK, Whole
  <2> QED BY <1>0, <2>1, <2>2, <2>3
<1>7. StoreOK(db', torn', minted', ambiguous')
  <2>1. /\ \A p \in Ids : db'.pond[p] # None => p \in minted
        /\ \A e \in Entries : db'.tags[e] # None => db'.entry[e] # None \/ e \in torn
        /\ db'.pond = [p \in Ids |-> None]
    BY <1>0, <1>1 DEF StoreOK
  <2>2. ambiguous \/ ~Clashing(db')
    BY <1>0, <1>1 DEF StoreOK, Clashing
  <2>3. db'.version < 7 => db'.applied <= Migrations[db'.version + 1]
    <3>1. db'.version < 7 => Migrations[db'.version + 1] \in Nat
      BY <1>0, <1>1, MigrationList
    <3> QED BY <1>1, <3>1
  <2> QED BY <1>1, <1>u, <1>6, <2>1, <2>2, <2>3 DEF StoreOK
<1>8. StoreOK(disk', torn', minted', ambiguous')
  BY <1>0, <1>u DEF RowsInv
<1>9. RowsInv'
  BY <1>7, <1>8 DEF RowsInv, StoreOK, Whole, Seeding, SeedRow, Clashing
<1>10. FlushedInv'
  <2>1. CASE unflushed
    BY <1>u, <2>1 DEF FlushedInv
  <2>2. CASE ~unflushed
    <3>1. disk'.pond = db'.pond
      BY <1>0, <1>1, <2>2 DEF FlushedInv
    <3>2. \A e \in Entries \ torn' : db'.version >= 4 => db'.entry[e] = SeedRow(e)
      BY <1>0, <1>1, <1>4, <1>5, <1>u, <2>2 DEF FlushedInv
    <3>3. disk'.version < 7
      BY <1>4
    <3> QED BY <3>1, <3>2, <3>3 DEF FlushedInv
  <2> QED BY <2>1, <2>2
<1>11. SchemaInv'
  BY <1>0, <1>1, <1>4, <1>u DEF SchemaInv
<1>12. TypeOK'
  BY <1>0, <1>1, <1>u DEF TypeOK, StoreTyped, RequestTyped
<1> QED BY <1>9, <1>10, <1>11, <1>12 DEF StoreInv

\* A handler that takes a step is not idle, so the registry is served.
LEMMA HandlerIsServed ==
  ASSUME SchemaInv, NEW r \in Requests, Handle(r) \/ CrashInRemoval(r)
  PROVE  up = "serving"
<1>1. pc[r] # "idle"
  BY DEF Handle, IdentityOf, StatementFails, ListNodes, DescribeNode, PolicyGet, PolicySet,
         CreatePondAssignment, LocalCreatePond, CreateLocated, GetPondLocation, GetPondInfo,
         SetPondTier, PondForget, DropPondAssignment, ListPondRows, ListedPondInfo, PondList,
         ListPonds, LocalListPonds, AddDataset, AddCatalog, RemoveDataset, RemoveCatalog,
         GetDataset, GetCatalog, SearchNames, Lookup, DatasetList, ListDatasets, CatalogList,
         ListCatalogs, Listed, CrashInRemoval, In
<1> QED BY <1>1 DEF SchemaInv

\* A call arrives at an idle handler.
LEMMA ArriveDoes ==
  ASSUME TypeOK, NEW r \in Requests, Arrive(r)
  PROVE  /\ RequestTyped' /\ Others(r) /\ UNCHANGED <<storeVars, torn, ambiguous, minted, unflushed>>
         /\ up = "serving" /\ pc[r] = "idle" /\ pc'[r] \in {"identity", "body"} /\ call'[r] \in Calls
         /\ todo' = todo /\ got' = got /\ raced' = raced \ {r}
<1>1. PICK c \in Calls : /\ call' = [call EXCEPT ![r] = c]
                         /\ pc' = [pc EXCEPT ![r] = IF c.op \in AdminOps THEN "identity" ELSE "body"]
  BY DEF Arrive
<1>2. /\ UNCHANGED <<storeVars, todo, listed, got, missed, torn, ambiguous, minted, unflushed>>
      /\ up = "serving" /\ pc[r] = "idle" /\ raced' = raced \ {r}
  BY DEF Arrive
<1>3. c \in AllCalls
  BY RegistryAssumption
<1>4. call' \in [Requests -> OrNone(AllCalls)] /\ call'[r] = c
      /\ \A q \in Requests \ {r} : call'[q] = call[q]
  BY <1>1, <1>3 DEF TypeOK, RequestTyped, OrNone
<1>5. pc' \in [Requests -> {"idle", "identity", "body", "located", "lookup"}] /\ pc'[r] \in {"identity", "body"}
      /\ \A q \in Requests \ {r} : pc'[q] = pc[q]
  BY <1>1 DEF TypeOK, RequestTyped
<1> QED BY <1>2, <1>4, <1>5 DEF TypeOK, RequestTyped, Others

\* A crash empties every handler.
LEMMA CrashedTyped ==
  ASSUME pc' = [r \in Requests |-> "idle"], call' = [r \in Requests |-> None],
         todo' = [r \in Requests |-> {}], listed' = [r \in Requests |-> {}],
         got' = [r \in Requests |-> {}], missed' = [r \in Requests |-> {}]
  PROVE  RequestTyped' /\ \A r \in Requests : pc'[r] = "idle" /\ got'[r] = {} /\ todo'[r] = {}
BY DEF RequestTyped, OrNone

\* The steps of the nodes and of the reaper.
LEMMA SideDoes ==
  ASSUME TypeOK, ReapStaleNodes \/ \E n \in Nodes : RegisterNode(n) \/ Heartbeat(n)
  PROVE  /\ SideMove /\ up = "serving"
         /\ UNCHANGED <<up, next, step, pc, call, todo, listed, got, missed, raced>>
<1>1. /\ up = "serving"
      /\ UNCHANGED <<up, next, step, pc, call, todo, listed, got, missed, raced, torn, ambiguous, minted>>
  BY DEF ReapStaleNodes, RegisterNode, Heartbeat, requestVars, historyVars
<1>2. ASSUME NEW d, Checkpointed(d), d \in Store /\ SameSchema(d) /\ SamePonds(d) /\ SameEntries(d)
      PROVE  SideMove
  BY <1>1, <1>2, CheckpointedFiles DEF SideMove, Filed
<1>3. CASE ReapStaleNodes
  BY <1>1, <1>2, <1>3, SideStores DEF ReapStaleNodes
<1>4. ASSUME NEW n \in Nodes, RegisterNode(n)
      PROVE  SideMove
  BY <1>2, <1>4, SideStores DEF RegisterNode
<1>5. ASSUME NEW n \in Nodes, Heartbeat(n)
      PROVE  SideMove
  BY <1>1, <1>5, SideStores DEF Heartbeat, SideMove, historyVars
<1> QED BY <1>1, <1>3, <1>4, <1>5

\* Every step keeps the store in order.
LEMMA StoreStep ==
  ASSUME StoreInv, QuietInv, [Next]_vars
  PROVE  StoreInv'
<1>0. TypeOK /\ RowsInv /\ SchemaInv /\ FlushedInv
  BY DEF StoreInv
<1>1. CASE UNCHANGED vars
  <2>1. UNCHANGED <<up, next, step, db, disk, pc, call, todo, listed, got, missed, unflushed, torn, ambiguous, minted>>
    BY <1>1 DEF vars, storeVars, requestVars, historyVars
  <2> QED BY <1>0, <2>1 DEF StoreInv, TypeOK, StoreTyped, RequestTyped, RowsInv, SchemaInv, FlushedInv
<1>2. CASE Open
  <2>1. /\ UNCHANGED <<db, disk, pc, call, todo, listed, got, missed, unflushed, torn, ambiguous, minted>>
        /\ up \in {"closed", "refused"} /\ step' = 1
        /\ \/ up' = "opening" /\ (next' = db.version + 1 \/ next' = 1)
           \/ up' = "closed" /\ next' = next
    BY <1>2 DEF Open, requestVars, historyVars
  <2>2. db.version \in 0..7 /\ next \in Nat \ {0}
    BY <1>0 DEF TypeOK, StoreTyped, Store
  <2>3. next' \in Nat \ {0}
    BY <2>1, <2>2
  <2>4. TypeOK' /\ RowsInv' /\ FlushedInv'
    BY <1>0, <2>1, <2>3 DEF TypeOK, StoreTyped, RequestTyped, RowsInv, FlushedInv
  <2>5. SchemaInv'
    BY <1>0, <2>1, <2>2 DEF SchemaInv
  <2> QED BY <2>4, <2>5 DEF StoreInv
<1>3. CASE Migrate
  <2>0. /\ up = "opening" /\ next <= 7
        /\ UNCHANGED <<disk, requestVars, crashes, unflushed, raced, ambiguous, minted>>
    BY <1>3, MigrationList DEF Migrate
  <2>t. db.version \in 0..7 /\ next \in Nat \ {0} /\ step \in Nat \ {0} /\ db.applied \in Nat
    BY <1>0 DEF TypeOK, StoreTyped, Store
  <2>m. Migrations[1] = 5 /\ next \in 1..7
    BY <2>0, <2>t DEF Migrations
  <2>n. \/ next = db.version + 1
        \/ next = 1 /\ step = 1 /\ db.version > 0
    BY <1>0, <2>0, <2>t DEF SchemaInv
  <2>1. CASE /\ step <= Migrations[next] /\ (~Applied(next, step) \/ Repeatable(next))
             /\ db' = Seeded([db EXCEPT !.applied = step]) /\ step' = step + 1
             /\ UNCHANGED <<up, next, torn, faults>>
    <3>1. next = db.version + 1
      BY <2>n, <2>1, <2>t DEF Applied, Repeatable
    <3>2. step > db.applied \/ Repeatable(db.version + 1)
      BY <2>t, <2>1, <3>1 DEF Applied
    <3>3. db.version < 7 /\ UNCHANGED historyVars
      BY <2>0, <2>t, <2>1, <3>1 DEF historyVars
    <3> QED BY <2>0, <2>1, <3>1, <3>2, <3>3, StatementKeeps
  <2>2. CASE /\ step > Migrations[next] /\ db' = [db EXCEPT !.version = next, !.applied = 0]
             /\ next' = next + 1 /\ step' = 1 /\ UNCHANGED <<up, torn, faults>>
    <3>1. next = db.version + 1
      BY <2>n, <2>2, <2>m
    <3>2. db.version < 7 /\ UNCHANGED historyVars
      BY <2>0, <2>t, <2>2, <3>1 DEF historyVars
    <3> QED BY <2>0, <2>2, <3>1, <3>2, VersionKeeps
  <2>3. CASE Applied(next, step) /\ up' = "refused" /\ UNCHANGED <<next, db, step, torn, faults>>
    <3>1. UNCHANGED <<next, step, db, disk, pc, call, todo, listed, got, missed, unflushed, torn, ambiguous, minted>>
      BY <2>0, <2>3 DEF requestVars
    <3>2. TypeOK' /\ RowsInv' /\ FlushedInv'
      BY <1>0, <2>3, <3>1 DEF TypeOK, StoreTyped, RequestTyped, RowsInv, FlushedInv
    <3>3. next <= db.version \/ "schema" \in torn
      BY <1>0, <2>0, <2>t, <2>3 DEF SchemaInv, Applied
    <3>4. db.applied = 0 \/ "schema" \in torn
      BY <1>0, <2>0, <2>t, <2>3 DEF SchemaInv, Applied
    <3>5. SchemaInv'
      BY <1>0, <2>0, <2>3, <3>1, <3>3, <3>4 DEF SchemaInv
    <3> QED BY <3>2, <3>5 DEF StoreInv
  <2>4. CASE up' = "closed" /\ torn' = TornSchema /\ UNCHANGED <<next, db, step>>
    <3>1. UNCHANGED <<next, step, db, disk, pc, call, todo, listed, got, missed, unflushed, ambiguous, minted>>
      BY <2>0, <2>4 DEF requestVars
    <3>2. torn \subseteq torn' /\ (db.applied = 0 \/ "schema" \in torn')
      BY <2>t, <2>4 DEF TornSchema
    <3>3. TypeOK'
      BY <1>0, <2>4, <3>1 DEF TypeOK, StoreTyped, RequestTyped
    <3>4. StoreOK(db, torn', minted, ambiguous) /\ StoreOK(disk, torn', minted, ambiguous)
      BY <1>0, <3>2, StoreOKWeakens DEF RowsInv
    <3>5. RowsInv'
      BY <3>1, <3>4 DEF RowsInv, StoreOK, Whole, Seeding, SeedRow, Clashing
    <3>6. FlushedInv'
      BY <1>0, <3>1, <3>2 DEF FlushedInv
    <3>7. SchemaInv'
      BY <1>0, <2>0, <2>4, <3>1, <3>2 DEF SchemaInv
    <3> QED BY <3>3, <3>5, <3>6, <3>7 DEF StoreInv
  <2> QED BY <1>3, <2>1, <2>2, <2>3, <2>4 DEF Migrate
<1>4. CASE Serve
  <2>1. /\ UNCHANGED <<next, step, db, disk, pc, call, todo, listed, got, missed, unflushed, torn, ambiguous, minted>>
        /\ up = "opening" /\ next > 7 /\ up' = "serving"
    BY <1>4, MigrationList DEF Serve, requestVars, historyVars
  <2>0. db.version = 7
    <3>1. db.version \in 0..7 /\ next \in Nat
      BY <1>0 DEF TypeOK, StoreTyped, Store
    <3> QED BY <1>0, <2>1, <3>1 DEF SchemaInv
  <2>2. TypeOK' /\ RowsInv' /\ FlushedInv'
    BY <1>0, <2>1 DEF TypeOK, StoreTyped, RequestTyped, RowsInv, FlushedInv
  <2>3. SchemaInv'
    BY <1>0, <2>0, <2>1 DEF SchemaInv
  <2> QED BY <2>2, <2>3 DEF StoreInv
<1>5. CASE Crash
  <2>1. /\ up' = "closed" /\ UNCHANGED <<next, step, disk, unflushed, ambiguous, minted>>
        /\ (db' = db /\ torn' = IF db.applied > 0 THEN torn \cup {"schema"} ELSE torn)
             \/ (db' = disk /\ torn' = torn)
    BY <1>5 DEF Crash, TornSchema
  <2>2. RequestTyped' /\ \A r \in Requests : pc'[r] = "idle"
    BY <1>5, CrashedTyped DEF Crash
  <2>3. TypeOK'
    BY <1>0, <2>1, <2>2 DEF TypeOK, StoreTyped
  <2>4. torn \subseteq torn'
    BY <2>1
  <2>5. StoreOK(db', torn', minted', ambiguous') /\ StoreOK(disk', torn', minted', ambiguous')
    <3>1. StoreOK(db, torn', minted, ambiguous) /\ StoreOK(disk, torn', minted, ambiguous)
      BY <1>0, <2>4, StoreOKWeakens DEF RowsInv
    <3> QED BY <2>1, <3>1
  <2>6. RowsInv'
    BY <2>5 DEF RowsInv, StoreOK, Whole, Seeding, SeedRow, Clashing
  <2>7. FlushedInv'
    <3>1. CASE db' = db
      BY <1>0, <2>1, <2>4, <3>1 DEF FlushedInv
    <3>2. CASE db' = disk
      BY <1>0, <2>1, <3>2 DEF FlushedInv, SchemaInv
    <3> QED BY <2>1, <3>1, <3>2
  <2>8. SchemaInv'
    <3>1. db.applied \in Nat
      BY <1>0 DEF TypeOK, StoreTyped, Store
    <3> QED BY <1>0, <2>1, <2>2, <3>1 DEF SchemaInv
  <2> QED BY <2>3, <2>6, <2>7, <2>8 DEF StoreInv
<1>6. CASE ReapStaleNodes \/ \E n \in Nodes : RegisterNode(n) \/ Heartbeat(n)
  <2>1. SideMove /\ up = "serving" /\ UNCHANGED <<up, next, step, pc, call, todo, listed, got, missed>>
    BY <1>0, <1>6, SideDoes
  <2>2. RequestTyped'
    BY <1>0, <2>1 DEF TypeOK, RequestTyped
  <2> QED BY <2>1, <2>2, MoveKeeps DEF Move
<1>7. ASSUME NEW r \in Requests, Arrive(r)
      PROVE  StoreInv'
  <2>1. RequestTyped' /\ UNCHANGED <<storeVars, torn, ambiguous, minted, unflushed>> /\ up = "serving"
    BY <1>0, <1>7, ArriveDoes
  <2>2. NoMove
    BY <2>1 DEF NoMove, storeVars
  <2> QED BY <2>1, <2>2, MoveKeeps DEF Move, storeVars
<1>8. ASSUME NEW r \in Requests, Handle(r)
      PROVE  StoreInv'
  <2>1. up = "serving"
    BY <1>0, <1>8, HandlerIsServed
  <2> QED BY <1>0, <1>8, <2>1, HandleDoes, MoveKeeps DEF HandlerStep
<1>9. ASSUME NEW r \in Requests, CrashInRemoval(r)
      PROVE  StoreInv'
  <2> DEFINE e == call[r].ref
  <2>0. up = "serving" /\ db.version = 7
    BY <1>0, <1>9, HandlerIsServed DEF SchemaInv
  <2>1. e \in Entries
    <3>1. call[r] \in AllCalls /\ call[r].op \in {"dataset_remove", "catalog_remove"}
      BY <1>9, RegistryAssumption DEF CrashInRemoval, In, QuietInv, QuietAt
    <3> QED BY <3>1, CallShape DEF Entries
  <2> HIDE DEF e
  <2>2. PICK k \in 1..(Statements(e) - 1) : db' = Removed(e, k)
    BY <1>9 DEF CrashInRemoval, e
  <2>3. k \in Nat
    BY DEF Statements
  <2>4. torn' = torn \cup {e} /\ up' = "closed" /\ UNCHANGED <<next, step, disk, unflushed, ambiguous, minted>>
    BY <1>9 DEF CrashInRemoval, e
  <2>5. HalfMove(e)
    BY <1>0, <2>1, <2>2, <2>3, <2>4, RemoveStore DEF HalfMove, EntryMove
  <2>6. RowsInv' /\ FlushedInv' /\ db'.version = 7 /\ db'.applied = 0 /\ db' \in Store
    BY <2>0, <2>1, <2>5, HalfKeeps
  <2>7. RequestTyped' /\ \A q \in Requests : pc'[q] = "idle"
    BY <1>9, CrashedTyped DEF CrashInRemoval
  <2>8. TypeOK'
    BY <1>0, <2>4, <2>6, <2>7 DEF TypeOK, StoreTyped
  <2>9. SchemaInv'
    BY <1>0, <2>4, <2>6, <2>7 DEF SchemaInv
  <2> QED BY <2>6, <2>8, <2>9 DEF StoreInv
<1> QED BY <1>1, <1>2, <1>3, <1>4, <1>5, <1>6, <1>7, <1>8, <1>9 DEF Next

\* A handler is quiet until it lists, and busy with a call it may be given.
LEMMA QuietStep ==
  ASSUME StoreInv, QuietInv, [Next]_vars
  PROVE  QuietInv'
<1>0. TypeOK
  BY DEF StoreInv
<1>1. CASE Open \/ Migrate \/ Serve \/ ReapStaleNodes \/ (\E n \in Nodes : RegisterNode(n) \/ Heartbeat(n)) \/ UNCHANGED vars
  <2>1. UNCHANGED <<pc, call, todo, got>>
    BY <1>1 DEF Open, Migrate, Serve, ReapStaleNodes, RegisterNode, Heartbeat, requestVars, vars
  <2> QED BY <2>1 DEF QuietInv, QuietAt
<1>2. CASE Crash \/ \E r \in Requests : CrashInRemoval(r)
  <2>1. \A r \in Requests : pc'[r] = "idle" /\ got'[r] = {} /\ todo'[r] = {}
    BY <1>2, CrashedTyped DEF Crash, CrashInRemoval
  <2> QED BY <2>1 DEF QuietInv, QuietAt
<1>3. ASSUME NEW r \in Requests, Others(r), QuietAt(r)'
      PROVE  QuietInv'
  <2>1. ASSUME NEW q \in Requests \ {r} PROVE QuietAt(q)'
    BY <1>3 DEF Others, QuietInv, QuietAt
  <2> QED BY <1>3, <2>1 DEF QuietInv
<1>4. ASSUME NEW r \in Requests, Arrive(r)
      PROVE  QuietInv'
  <2>1. QuietAt(r)' /\ Others(r)
    BY <1>0, <1>4, ArriveDoes DEF QuietInv, QuietAt
  <2> QED BY <1>3, <2>1
<1>5. ASSUME NEW r \in Requests, Handle(r)
      PROVE  QuietInv'
  <2>0. HandlerStep(r) /\ Others(r)
    BY <1>0, <1>5, HandleDoes DEF HandlerStep
  <2>1. Answered(r) => QuietAt(r)'
    BY DEF Answered, QuietAt
  <2>2. GoesOn(r) => QuietAt(r)'
    BY DEF GoesOn, QuietAt, QuietInv
  <2>3. CASE Short(r)
    BY <1>0, <1>3, <2>0, <2>1, <2>3, ShortDoes
  <2>4. CASE IdentityOf(r) \/ CreatePondAssignment(r) \/ LocalCreatePond(r)
    BY <1>0, <1>3, <2>0, <2>1, <2>2, <2>4, IdentityDoes, CreateDoes
  <2>5. CASE ListPondRows(r) \/ SearchNames(r)
    <3>1. pc[r] = "body" /\ pc'[r] = "lookup" /\ call'[r] = call[r]
      BY <1>0, <2>5 DEF ListPondRows, SearchNames, In, TypeOK, RequestTyped
    <3>2. QuietAt(r)'
      BY <3>1 DEF QuietInv, QuietAt
    <3> QED BY <1>3, <2>0, <3>2
  <2>6. CASE ListedPondInfo(r)
    <3>1. QuietAt(r)'
      BY <2>6 DEF ListedPondInfo, QuietInv, QuietAt
    <3> QED BY <1>3, <2>0, <3>1
  <2>7. CASE Lookup(r)
    <3>1. CASE UNCHANGED <<pc, call>>
      <4>1. QuietAt(r)'
        BY <2>7, <3>1 DEF Lookup, QuietInv, QuietAt
      <4> QED BY <1>3, <2>0, <4>1
    <3>2. CASE \E answer \in {"not_found", "internal"} : Finish(r, answer)
      <4>1. Answered(r)
        BY <1>0, <3>2, AnswerDoes DEF Finish
      <4> QED BY <1>3, <2>0, <2>1, <4>1
    <3> QED BY <2>7, <3>1, <3>2 DEF Lookup
  <2> QED BY <1>5, <2>3, <2>4, <2>5, <2>6, <2>7 DEF Handle, Short
<1> QED BY <1>1, <1>2, <1>4, <1>5 DEF Next

\* The first states.
LEMMA StoreInit == Init => StoreInv /\ RequestInv
<1> SUFFICES ASSUME Init PROVE StoreInv /\ RequestInv
  OBVIOUS
<1>1. Fresh \in Store
  BY DEF Fresh, Store, OrNone
<1>2. /\ Fresh.version = 0 /\ Fresh.applied = 0 /\ Fresh.pond = [p \in Ids |-> None]
      /\ \A e \in Entries : Fresh.entry[e] = None /\ Fresh.tags[e] = None
      /\ \A e \in Datasets : Fresh.tables[e] = None
  BY DEF Fresh
<1>3. db = Fresh /\ disk = Fresh /\ up = "closed" /\ next = 1 /\ step = 1 /\ torn = {} /\ minted = {} /\ ambiguous = FALSE
      /\ unflushed = FALSE
  BY DEF Init
<1>4. Seeding(Fresh) /\ ~Clashing(Fresh)
  BY <1>2 DEF Seeding, Clashing
<1>5. StoreOK(Fresh, {}, {}, FALSE)
  BY <1>2, <1>4, MigrationList DEF StoreOK
<1>6. RequestTyped /\ \A r \in Requests : pc[r] = "idle" /\ got[r] = {} /\ todo[r] = {}
  BY DEF Init, RequestTyped, OrNone
<1>7. TypeOK
  <2>1. unflushed \in BOOLEAN /\ ambiguous \in BOOLEAN
    BY <1>3, Zenon
  <2>2. up \in {"closed", "opening", "serving", "refused"} /\ minted \subseteq Ids
    BY <1>3
  <2>3. next \in Nat \ {0} /\ step \in Nat \ {0} /\ db \in Store /\ disk \in Store
    BY <1>1, <1>3
  <2> QED BY <1>6, <2>1, <2>2, <2>3 DEF TypeOK, StoreTyped
<1>8. RowsInv /\ FlushedInv
  <2>1. RowsInv
    BY <1>3, <1>5 DEF RowsInv
  <2>2. db.pond = disk.pond /\ db.version = 0 /\ disk.version = 0
    BY <1>2, <1>3
  <2>3. ~(db.version >= 4)
    BY <2>2
  <2>4. FlushedInv
    BY <1>3, <2>2, <2>3 DEF FlushedInv
  <2> QED BY <2>1, <2>4
<1>9. SchemaInv
  BY <1>2, <1>3, <1>6 DEF SchemaInv
<1>10. RequestInv
  BY <1>6 DEF RequestInv, QuietInv, QuietAt, ListedInv, PondsListed, EntriesListed
<1> QED BY <1>7, <1>8, <1>9, <1>10 DEF StoreInv

\* The store's part of the inductive invariant.
LEMMA StoreAlways == Spec => [](StoreInv /\ QuietInv)
<1>1. Init => StoreInv /\ QuietInv
  BY StoreInit DEF RequestInv
<1>2. StoreInv /\ QuietInv /\ [Next]_vars => (StoreInv /\ QuietInv)'
  BY StoreStep, QuietStep
<1> QED BY <1>1, <1>2, PTL DEF Spec

\* A registry that is served has had every migration, to its last statement
\* (migrations.rs, run_migrations), whatever statement of an earlier or of this
\* start failed and even if the recorded version could not be read; and open is
\* refused by what is there already only after a process that ended in the middle
\* of a migration, or when the version could not be read.
THEOREM ServesWholeSchemaHolds == Spec => []ServesWholeSchema
<1>1. StoreInv => ServesWholeSchema
  BY MigrationList DEF StoreInv, SchemaInv, RowsInv, StoreOK, ServesWholeSchema
<1> QED BY <1>1, StoreAlways, PTL

\* What a caller was told is in the database file, so losing the log loses none
\* of it (registry.rs, the CHECKPOINT of every method): ponds, datasets and
\* catalogs, unless a checkpoint was refused or a removal stopped half way.
THEOREM AcknowledgedSurvivesHolds == Spec => []AcknowledgedSurvives
<1>1. StoreInv => AcknowledgedSurvives
  BY MigrationList DEF StoreInv, SchemaInv, FlushedInv, SeedRow, AcknowledgedSurvives
<1> QED BY <1>1, StoreAlways, PTL

\* The faults are counted.
FaultsTyped == faults \in Nat

\* They always are.
LEMMA FaultsCounted == Spec => []FaultsTyped
<1>1. Init => FaultsTyped
  BY DEF Init, FaultsTyped
<1>2. ASSUME FaultsTyped, [Next]_vars
      PROVE  FaultsTyped'
  <2> USE DEF FaultsTyped
  <2>c. \A d : Checkpointed(d) => faults' \in {faults, faults + 1}
    BY DEF Checkpointed
  <2>1. CASE Open \/ Migrate \/ Serve \/ Crash \/ UNCHANGED vars
    BY <1>2, <2>1 DEF Open, Migrate, Serve, Crash, vars
  <2>2. CASE ReapStaleNodes \/ \E n \in Nodes : RegisterNode(n) \/ Heartbeat(n)
    BY <1>2, <2>2, <2>c DEF ReapStaleNodes, RegisterNode, Heartbeat
  <2>3. CASE \E r \in Requests : Arrive(r) \/ CrashInRemoval(r)
    BY <1>2, <2>3 DEF Arrive, CrashInRemoval
  <2>4. ASSUME NEW r \in Requests, Handle(r)
        PROVE  faults' \in {faults, faults + 1}
    <3>1. \A answer : Reads(r, answer) => faults' = faults
      BY DEF Reads
    <3>2. \A d : Writes(r, d) => faults' \in {faults, faults + 1}
      BY <2>c DEF Writes
    <3>3. CASE IdentityOf(r) \/ StatementFails(r) \/ ListNodes(r) \/ PolicySet(r) \/ CreateLocated(r)
      BY <3>3 DEF IdentityOf, StatementFails, ListNodes, PolicySet, CreateLocated
    <3>4. CASE DescribeNode(r) \/ PolicyGet(r) \/ GetPondLocation(r) \/ GetPondInfo(r)
      BY <3>1, <3>4 DEF DescribeNode, PolicyGet, GetPondLocation, GetPondInfo
    <3>5. CASE SetPondTier(r) \/ PondForget(r) \/ DropPondAssignment(r)
      BY <3>1, <3>2, <3>5 DEF SetPondTier, PondForget, DropPondAssignment
    <3>6. CASE CreatePondAssignment(r) \/ LocalCreatePond(r)
      BY <2>c, <3>1, <3>6 DEF CreatePondAssignment, LocalCreatePond, CreateRow
    <3>7. CASE AddDataset(r) \/ AddCatalog(r)
      BY <2>c, <3>1, <3>7 DEF AddDataset, AddCatalog
    <3>8. CASE RemoveDataset(r) \/ RemoveCatalog(r)
      BY <2>c, <3>1, <3>8 DEF RemoveDataset, RemoveCatalog, RemoveEntry
    <3>9. CASE GetDataset(r) \/ GetCatalog(r) \/ ListPondRows(r) \/ ListedPondInfo(r) \/ SearchNames(r) \/ Lookup(r)
      BY <3>9 DEF GetDataset, GetCatalog, GetEntry, ListPondRows, ListedPondInfo, SearchNames, Lookup
    <3>10. CASE \/ PondList(r) \/ ListPonds(r) \/ LocalListPonds(r) \/ DatasetList(r)
                \/ ListDatasets(r) \/ CatalogList(r) \/ ListCatalogs(r)
      BY <3>10 DEF PondList, ListPonds, LocalListPonds, DatasetList, ListDatasets, CatalogList,
                   ListCatalogs, Listed
    <3> QED BY <2>4, <3>3, <3>4, <3>5, <3>6, <3>7, <3>8, <3>9, <3>10 DEF Handle
  <2> QED BY <1>2, <2>1, <2>2, <2>3, <2>4 DEF Next
<1> QED BY <1>1, <1>2, PTL DEF Spec

-----------------------------------------------------------------------------
(* The listings. *)

\* What a listing under way may rely on: ponds do not come back, and an entry goes
\* only with a trace.
LEMMA MoveLeavesTrace ==
  ASSUME TypeOK, Move
  PROVE  /\ minted \subseteq minted' /\ (ambiguous => ambiguous')
         /\ \A p \in minted : db'.pond[p] # None => db.pond[p] # None
         /\ \A e \in Entries : (db.entry[e] # None \/ e \in torn)
              => db'.entry[e] # None \/ e \in torn' \/ Racing(e) \subseteq raced'
<1>0. minted \subseteq Ids
  BY DEF TypeOK, StoreTyped
<1>1. CASE NoMove \/ SideMove
  <2>1. db'.pond = db.pond /\ db'.entry = db.entry /\ UNCHANGED <<torn, ambiguous, minted>>
    BY <1>1 DEF NoMove, SideMove, SamePonds, SameEntries
  <2> QED BY <2>1
<1>2. CASE FewerPondsMove
  BY <1>0, <1>2 DEF FewerPondsMove, SameEntries, FewerPonds
<1>3. ASSUME NEW p \in Ids, CreateMove(p)
      PROVE  /\ minted \subseteq minted' /\ (ambiguous => ambiguous')
             /\ \A q \in minted : db'.pond[q] = db.pond[q]
             /\ db'.entry = db.entry /\ torn' = torn
  BY <1>0, <1>3 DEF CreateMove, SameEntries
<1>4. ASSUME NEW x \in Entries, AddMove(x) \/ RemoveMove(x) \/ (HalfMove(x) /\ Racing(x) \subseteq raced')
      PROVE  /\ minted' = minted /\ ambiguous' = ambiguous /\ db'.pond = db.pond
             /\ \A e \in Entries : (db.entry[e] # None \/ e \in torn)
                  => db'.entry[e] # None \/ e \in torn' \/ Racing(e) \subseteq raced'
  <2>1. minted' = minted /\ ambiguous' = ambiguous /\ db'.pond = db.pond
    BY <1>4 DEF AddMove, RemoveMove, HalfMove, EntryMove, SamePonds
  <2>2. ASSUME NEW e \in Entries, e # x, db.entry[e] # None \/ e \in torn
        PROVE  db'.entry[e] # None \/ e \in torn'
    BY <1>4, <2>2 DEF AddMove, RemoveMove, HalfMove, EntryMove, OtherEntries
  <2>3. db'.entry[x] # None \/ Racing(x) \subseteq raced'
    BY <1>4 DEF AddMove, RemoveMove
  <2> QED BY <2>1, <2>2, <2>3
<1> QED BY <1>1, <1>2, <1>3, <1>4 DEF Move

\* A listing is not disturbed by what others do.
LEMMA ListingKept ==
  ASSUME TypeOK, Move, NEW q \in Requests, PondsListed(q), EntriesListed(q),
         pc'[q] = pc[q], call'[q] = call[q], todo'[q] = todo[q], listed'[q] = listed[q],
         got'[q] = got[q], missed'[q] = missed[q], q \in raced => q \in raced'
  PROVE  PondsListed(q)' /\ EntriesListed(q)'
<1>1. PondsListed(q)'
  <2> SUFFICES ASSUME pc[q] = "lookup", call[q].op \in PondListOps
               PROVE  /\ listed[q] \subseteq minted'
                      /\ ambiguous' \/ \A p \in listed[q] \ todo[q] :
                                        db'.pond[p] # None => p \in missed[q] \/ [name |-> p] \in got[q]
    BY DEF PondsListed
  <2> QED BY MoveLeavesTrace DEF PondsListed
<1>2. EntriesListed(q)'
  <2> SUFFICES ASSUME pc[q] = "lookup", call[q].op \in ListOps
               PROVE  /\ \A e \in todo[q] : e \in Entries /\ (db'.entry[e] # None \/ q \in raced' \/ e \in torn')
                      /\ \A g \in got[q] : WholeRow(g)
    BY DEF EntriesListed, WholeRow
  <2>1. ASSUME NEW e \in todo[q]
        PROVE  e \in Entries /\ (db'.entry[e] # None \/ q \in raced' \/ e \in torn')
    <3>1. e \in Entries /\ (db.entry[e] # None \/ q \in raced \/ e \in torn)
      BY DEF EntriesListed
    <3>2. q \in Racing(e)
      BY DEF Racing
    <3> QED BY <3>1, <3>2, MoveLeavesTrace
  <2> QED BY <2>1 DEF EntriesListed
<1> QED BY <1>1, <1>2

\* The row of an entry that is there is whole.
LEMMA EntryRowIsWhole ==
  ASSUME Whole(db), NEW e \in Entries, db.entry[e] # None
  PROVE  WholeRow(EntryRow(e))
<1>1. db.tags[e] = db.entry[e].content /\ (e \in Datasets => db.tables[e] = db.entry[e].content)
  BY DEF Whole
<1> QED BY <1>1 DEF WholeRow, EntryRow, DatasetRow, CatalogRow

\* As long as no pond is named like an id, an id finds its own pond.
LEMMA OwnPond ==
  ASSUME ~Clashing(db), NEW p \in Ids, db.pond[p] # None
  PROVE  PondInfo(p) = {p}
BY DEF PondInfo, Matches, Clashing

\* The ids are listed.
LEMMA PondsListingBegins ==
  ASSUME TypeOK, RowsInv, QuietInv, NEW r \in Requests, ListPondRows(r)
  PROVE  PondsListed(r)' /\ EntriesListed(r)'
<1> DEFINE ponds == {p \in Ids : db.pond[p] # None}
<1>1. ponds \subseteq minted
  BY DEF RowsInv, StoreOK
<1> HIDE DEF ponds
<1>2. listed' = [listed EXCEPT ![r] = ponds] /\ todo' = [todo EXCEPT ![r] = ponds] /\ UNCHANGED <<call, minted>>
  BY DEF ListPondRows, ponds, historyVars
<1>3. listed'[r] = ponds /\ todo'[r] = ponds /\ call'[r] = call[r] /\ minted' = minted
  BY <1>2 DEF TypeOK, RequestTyped
<1>4. PondsListed(r)'
  BY <1>1, <1>3 DEF PondsListed
<1>5. call'[r].op \notin ListOps
  BY <1>3 DEF ListPondRows, In, PondListOps, ListOps
<1> QED BY <1>4, <1>5 DEF EntriesListed

\* One listed pond is looked up.
LEMMA PondsListingGoesOn ==
  ASSUME TypeOK, RowsInv, NEW r \in Requests, PondsListed(r), ListedPondInfo(r)
  PROVE  PondsListed(r)' /\ EntriesListed(r)'
<1>0. /\ pc[r] = "lookup" /\ call[r].op \in PondListOps
      /\ UNCHANGED <<db, pc, call, listed, minted, ambiguous>>
  BY DEF ListedPondInfo, storeVars, historyVars
<1>1. PICK p \in todo[r] :
        /\ todo' = [todo EXCEPT ![r] = @ \ {p}]
        /\ \/ PondInfo(p) = {} /\ UNCHANGED <<got, missed>>
           \/ /\ \E q \in PondInfo(p) : got' = [got EXCEPT ![r] = @ \cup {[name |-> q]}]
              /\ UNCHANGED missed
           \/ missed' = [missed EXCEPT ![r] = @ \cup {p}] /\ UNCHANGED got
  BY DEF ListedPondInfo
<1>2. todo'[r] = todo[r] \ {p} /\ got[r] \subseteq got'[r] /\ missed[r] \subseteq missed'[r]
  BY <1>1 DEF TypeOK, RequestTyped
<1>3. listed[r] \subseteq minted /\ minted \subseteq Ids
  BY <1>0 DEF PondsListed, TypeOK, StoreTyped
<1>4. ASSUME ~ambiguous, p \in listed[r], db.pond[p] # None
      PROVE  p \in missed'[r] \/ [name |-> p] \in got'[r]
  <2>1. ~Clashing(db)
    BY <1>4 DEF RowsInv, StoreOK
  <2>2. PondInfo(p) = {p}
    BY <1>3, <1>4, <2>1, OwnPond
  <2>3. got' = [got EXCEPT ![r] = @ \cup {[name |-> p]}] \/ missed' = [missed EXCEPT ![r] = @ \cup {p}]
    BY <1>1, <2>2
  <2> QED BY <2>3 DEF TypeOK, RequestTyped
<1>5. ambiguous \/ \A x \in listed[r] \ todo'[r] :
                      db.pond[x] # None => x \in missed'[r] \/ [name |-> x] \in got'[r]
  BY <1>0, <1>2, <1>4 DEF PondsListed
<1>6. PondsListed(r)'
  BY <1>0, <1>3, <1>5 DEF PondsListed
<1>7. call'[r].op \notin ListOps
  BY <1>0 DEF PondListOps, ListOps
<1> QED BY <1>6, <1>7 DEF EntriesListed

\* The names are searched.
LEMMA EntriesListingBegins ==
  ASSUME TypeOK, RowsInv, QuietInv, NEW r \in Requests, SearchNames(r)
  PROVE  PondsListed(r)' /\ EntriesListed(r)'
<1> DEFINE names == Search(KindOf(call[r].op), call[r].arg)
<1>1. \A e \in names : e \in Entries /\ (db.entry[e] # None \/ e \in torn)
  BY DEF Search, KindOf, Entries, RowsInv, StoreOK
<1> HIDE DEF names
<1>2. todo' = [todo EXCEPT ![r] = names] /\ UNCHANGED <<db, call, got, torn>>
  BY DEF SearchNames, names, storeVars, historyVars
<1>3. todo'[r] = names
  BY <1>2 DEF TypeOK, RequestTyped
<1>4. got'[r] = {}
  BY <1>2 DEF SearchNames, In, QuietInv, QuietAt
<1>5. EntriesListed(r)'
  BY <1>1, <1>2, <1>3, <1>4 DEF EntriesListed
<1>6. call'[r].op \notin PondListOps
  BY <1>2 DEF SearchNames, In, PondListOps, ListOps
<1> QED BY <1>5, <1>6 DEF PondsListed

\* One found name is looked up.
LEMMA EntriesListingGoesOn ==
  ASSUME TypeOK, Whole(db), NEW r \in Requests, EntriesListed(r), Lookup(r), UNCHANGED <<pc, call>>
  PROVE  PondsListed(r)' /\ EntriesListed(r)'
<1>0. pc[r] = "lookup" /\ call[r].op \in ListOps /\ UNCHANGED <<db, torn, raced>>
  BY DEF Lookup, storeVars, historyVars
<1>1. pc'[r] # "idle"
  BY <1>0
<1>2. PICK e \in todo[r] : /\ db.entry[e] # None
                           /\ todo' = [todo EXCEPT ![r] = @ \ {e}]
                           /\ got' = [got EXCEPT ![r] = @ \cup {EntryRow(e)}]
  <2>1. \A answer : ~Finish(r, answer)
    BY <1>1, AnswerDoes DEF Finish, Answered
  <2> QED BY <2>1 DEF Lookup
<1>3. todo'[r] = todo[r] \ {e} /\ got'[r] = got[r] \cup {EntryRow(e)}
  BY <1>2 DEF TypeOK, RequestTyped
<1>4. WholeRow(EntryRow(e))
  BY <1>0, <1>2, EntryRowIsWhole DEF EntriesListed
<1>5. \A g \in got'[r] : WholeRow(g)
  BY <1>0, <1>3, <1>4 DEF EntriesListed
<1>6. EntriesListed(r)'
  BY <1>0, <1>3, <1>5 DEF EntriesListed, WholeRow
<1>7. call'[r].op \notin PondListOps
  BY <1>0 DEF PondListOps, ListOps
<1> QED BY <1>6, <1>7 DEF PondsListed

\* Every step keeps the listings under way in order.
LEMMA ListedStep ==
  ASSUME StoreInv, QuietInv, ListedInv, [Next]_vars
  PROVE  ListedInv'
<1>0. TypeOK /\ RowsInv /\ SchemaInv
  BY DEF StoreInv
<1>1. CASE Crash \/ \E r \in Requests : CrashInRemoval(r)
  <2>1. \A r \in Requests : pc'[r] = "idle"
    BY <1>1, CrashedTyped DEF Crash, CrashInRemoval
  <2> QED BY <2>1 DEF ListedInv, PondsListed, EntriesListed
<1>2. CASE Open \/ Migrate \/ Serve
  <2>1. up # "serving" /\ UNCHANGED pc
    BY <1>2 DEF Open, Migrate, Serve, requestVars
  <2>2. \A r \in Requests : pc'[r] = "idle"
    BY <1>0, <2>1 DEF SchemaInv
  <2> QED BY <2>2 DEF ListedInv, PondsListed, EntriesListed
<1>3. CASE ReapStaleNodes \/ (\E n \in Nodes : RegisterNode(n) \/ Heartbeat(n)) \/ UNCHANGED vars
  <2>1. Move /\ UNCHANGED <<pc, call, todo, listed, got, missed, raced>>
    BY <1>0, <1>3, SideDoes DEF Move, NoMove, vars, storeVars, requestVars, historyVars
  <2>2. ASSUME NEW q \in Requests
        PROVE  PondsListed(q)' /\ EntriesListed(q)'
    BY <1>0, <2>1, ListingKept DEF ListedInv
  <2> QED BY <2>2 DEF ListedInv
<1>4. ASSUME NEW r \in Requests, Move, Others(r), raced \ {r} \subseteq raced',
             PondsListed(r)' /\ EntriesListed(r)'
      PROVE  ListedInv'
  <2>1. ASSUME NEW q \in Requests \ {r}
        PROVE  PondsListed(q)' /\ EntriesListed(q)'
    <3>1. /\ pc'[q] = pc[q] /\ call'[q] = call[q] /\ todo'[q] = todo[q]
          /\ listed'[q] = listed[q] /\ got'[q] = got[q] /\ missed'[q] = missed[q] /\ (q \in raced => q \in raced')
      BY <1>4 DEF Others
    <3>2. PondsListed(q) /\ EntriesListed(q)
      BY DEF ListedInv
    <3> QED BY <1>0, <1>4, <3>1, <3>2, ListingKept
  <2> QED BY <1>4, <2>1 DEF ListedInv
<1>5. \A r \in Requests : pc'[r] # "lookup" => PondsListed(r)' /\ EntriesListed(r)'
  BY DEF PondsListed, EntriesListed
<1>6. ASSUME NEW r \in Requests, Arrive(r)
      PROVE  ListedInv'
  <2>1. /\ Others(r) /\ pc'[r] \in {"identity", "body"} /\ raced' = raced \ {r}
        /\ UNCHANGED <<storeVars, torn, ambiguous, minted, unflushed>>
    BY <1>0, <1>6, ArriveDoes
  <2>2. Move
    BY <2>1 DEF Move, NoMove, storeVars
  <2> QED BY <1>4, <1>5, <2>1, <2>2
<1>7. ASSUME NEW r \in Requests, Handle(r)
      PROVE  ListedInv'
  <2>0. Move /\ Others(r) /\ raced \subseteq raced'
    BY <1>0, <1>7, HandleDoes DEF HandlerStep
  <2>1. SUFFICES PondsListed(r)' /\ EntriesListed(r)'
    BY <1>4, <2>0
  <2>2. CASE Short(r)
    BY <1>0, <1>5, <2>2, ShortDoes DEF Answered
  <2>3. CASE IdentityOf(r) \/ CreatePondAssignment(r) \/ LocalCreatePond(r)
    BY <1>0, <1>5, <2>3, IdentityDoes, CreateDoes DEF Answered, GoesOn
  <2>4. CASE ListPondRows(r)
    BY <1>0, <2>4, PondsListingBegins
  <2>5. CASE ListedPondInfo(r)
    BY <1>0, <2>5, PondsListingGoesOn DEF ListedInv
  <2>6. CASE SearchNames(r)
    BY <1>0, <2>6, EntriesListingBegins
  <2>7. CASE Lookup(r)
    <3>1. Whole(db)
      BY <1>0, <1>7, HandlerIsServed DEF SchemaInv, RowsInv, StoreOK
    <3>2. CASE UNCHANGED <<pc, call>>
      BY <1>0, <2>7, <3>1, <3>2, EntriesListingGoesOn DEF ListedInv
    <3>3. CASE \E answer \in {"not_found", "internal"} : Finish(r, answer)
      <4>1. Answered(r)
        BY <1>0, <3>3, AnswerDoes DEF Finish
      <4> QED BY <1>5, <4>1 DEF Answered
    <3> QED BY <2>7, <3>2, <3>3 DEF Lookup
  <2> QED BY <1>7, <2>2, <2>3, <2>4, <2>5, <2>6, <2>7 DEF Handle, Short
<1> QED BY <1>1, <1>2, <1>3, <1>6, <1>7 DEF Next

\* The whole inductive invariant.
LEMMA RequestAlways == Spec => [](StoreInv /\ QuietInv /\ ListedInv)
<1>1. Init => StoreInv /\ QuietInv /\ ListedInv
  BY StoreInit DEF RequestInv
<1>2. StoreInv /\ QuietInv /\ ListedInv /\ [Next]_vars => (StoreInv /\ QuietInv /\ ListedInv)'
  BY StoreStep, QuietStep, ListedStep
<1> QED BY <1>1, <1>2, PTL DEF Spec

\* An answer is whole if its rows are, or if it is not about entries.
LEMMA AnswerIsWhole ==
  ASSUME NEW r \in Requests, NEW answer, NEW rows, Answer(r, answer, rows),
         call[r].op \in ListOps \cup {"get_dataset", "get_catalog"} => \A g \in rows : WholeRow(g)
  PROVE  AnswersAreWhole'
BY DEF Answer, AnswersAreWhole, WholeRow

\* An answered dataset is one that somebody registered: its tables and its tags
\* come from the same add (registry.rs, add_dataset in one transaction).
THEOREM AnswersAreWholeHolds == Spec => []AnswersAreWhole
<1>1. Init => AnswersAreWhole
  BY DEF Init, AnswersAreWhole
<1>2. ASSUME StoreInv, QuietInv, ListedInv, AnswersAreWhole, [Next]_vars
      PROVE  AnswersAreWhole'
  <2>0. TypeOK /\ RowsInv /\ SchemaInv
    BY <1>2 DEF StoreInv
  <2>u. UNCHANGED last \/ last' = None => AnswersAreWhole'
    BY <1>2 DEF AnswersAreWhole
  <2>1. CASE Open \/ Migrate \/ Serve \/ Crash \/ ReapStaleNodes \/ UNCHANGED vars
    BY <2>1, <2>u DEF Open, Migrate, Serve, Crash, ReapStaleNodes, requestVars, vars
  <2>2. CASE \/ \E n \in Nodes : RegisterNode(n) \/ Heartbeat(n)
             \/ \E r \in Requests : Arrive(r) \/ CrashInRemoval(r)
    BY <2>2, <2>u DEF RegisterNode, Heartbeat, Arrive, CrashInRemoval, requestVars
  <2>3. ASSUME NEW r \in Requests, Handle(r)
        PROVE  AnswersAreWhole'
    <3>f. ASSUME NEW answer, Finish(r, answer)
          PROVE  AnswersAreWhole'
      BY <3>f, AnswerIsWhole DEF Finish
    <3>r. ASSUME NEW answer, Reads(r, answer)
          PROVE  AnswersAreWhole'
      BY <3>r, <3>f DEF Reads
    <3>w. ASSUME NEW d, Writes(r, d)
          PROVE  AnswersAreWhole'
      BY <3>w, <3>f DEF Writes
    <3>0. Whole(db)
      BY <2>0, <2>3, HandlerIsServed DEF SchemaInv, RowsInv, StoreOK
    <3>1. CASE IdentityOf(r) \/ StatementFails(r) \/ PolicySet(r) \/ CreateLocated(r)
      BY <3>1, <3>f, <2>u DEF IdentityOf, StatementFails, PolicySet, CreateLocated
    <3>2. CASE DescribeNode(r) \/ PolicyGet(r) \/ GetPondLocation(r) \/ GetPondInfo(r)
      BY <3>2, <3>r DEF DescribeNode, PolicyGet, GetPondLocation, GetPondInfo
    <3>3. CASE SetPondTier(r) \/ PondForget(r) \/ DropPondAssignment(r)
      BY <3>3, <3>r, <3>w DEF SetPondTier, PondForget, DropPondAssignment
    <3>4. CASE ListNodes(r)
      BY <3>4, AnswerIsWhole DEF ListNodes, In, ListOps
    <3>5. CASE CreatePondAssignment(r) \/ LocalCreatePond(r)
      BY <3>5, <3>r, <2>u DEF CreatePondAssignment, LocalCreatePond, CreateRow
    <3>6. CASE ListPondRows(r) \/ ListedPondInfo(r) \/ SearchNames(r)
      BY <3>6, <2>u DEF ListPondRows, ListedPondInfo, SearchNames
    <3>7. CASE PondList(r) \/ ListPonds(r) \/ LocalListPonds(r)
      BY <3>7, AnswerIsWhole DEF PondList, ListPonds, LocalListPonds, Listed, ListOps
    <3>8. CASE AddDataset(r) \/ AddCatalog(r)
      BY <3>8, <3>f, <3>r DEF AddDataset, AddCatalog
    <3>9. CASE RemoveDataset(r) \/ RemoveCatalog(r)
      BY <3>9, <3>f, <3>r DEF RemoveDataset, RemoveCatalog, RemoveEntry
    <3>10. CASE GetDataset(r) \/ GetCatalog(r)
      <4> DEFINE e == call[r].ref
      <4>1. call[r] \in AllCalls /\ call[r].op \in {"get_dataset", "get_catalog"}
        BY <1>2, <3>10, RegistryAssumption DEF GetDataset, GetCatalog, In, QuietInv, QuietAt
      <4>2. e \in Entries
        BY <4>1, CallShape DEF Entries
      <4>3. CASE Finish(r, "not_found")
        BY <3>f, <4>3
      <4>4. CASE db.entry[e] # None /\ Answer(r, "ok", {EntryRow(e)})
        <5>1. \A g \in {EntryRow(e)} : WholeRow(g)
          BY <3>0, <4>2, <4>4, EntryRowIsWhole
        <5> QED BY <4>4, <5>1, AnswerIsWhole
      <4> QED BY <3>10, <4>3, <4>4 DEF GetDataset, GetCatalog, GetEntry
    <3>11. CASE Lookup(r)
      BY <3>11, <3>f, <2>u DEF Lookup
    <3>12. CASE DatasetList(r) \/ ListDatasets(r) \/ CatalogList(r) \/ ListCatalogs(r)
      <4>1. pc[r] = "lookup" /\ call[r].op \in ListOps /\ Answer(r, "ok", got[r])
        BY <3>12 DEF DatasetList, ListDatasets, CatalogList, ListCatalogs, Listed, ListOps
      <4>2. \A g \in got[r] : WholeRow(g)
        BY <1>2, <4>1 DEF ListedInv, EntriesListed
      <4> QED BY <4>1, <4>2, AnswerIsWhole
    <3> QED BY <2>3, <3>1, <3>2, <3>3, <3>4, <3>5, <3>6, <3>7, <3>8, <3>9, <3>10, <3>11, <3>12 DEF Handle
  <2> QED BY <1>2, <2>1, <2>2, <2>3 DEF Next
<1> QED BY <1>1, <1>2, RequestAlways, PTL DEF Spec

\* What a step that ends the listing of r has to answer.
ListingEnd(r) ==
  (pc[r] = "lookup" /\ pc'[r] = "idle" /\ last' # None)
    => /\ (last'.answer = "ok" /\ last'.op \in PondListOps /\ ~ambiguous)
             => \A p \in listed[r] \ missed[r] : db.pond[p] # None => [name |-> p] \in last'.rows
       /\ last'.answer = "not_found" => r \in raced \/ todo[r] \cap torn # {} \/ faults' # faults

\* A handler ends its own listing.
LEMMA OwnListingEnds ==
  ASSUME TypeOK, FaultsTyped, NEW r \in Requests, PondsListed(r), EntriesListed(r), Handle(r)
  PROVE  ListingEnd(r)
<1>1. CASE PondList(r) \/ ListPonds(r) \/ LocalListPonds(r)
  <2>0. /\ pc[r] = "lookup" /\ call[r].op \in PondListOps /\ todo[r] = {}
        /\ Answer(r, "ok", got[r])
    BY <1>1 DEF PondList, ListPonds, LocalListPonds, Listed, PondListOps
  <2>1. last'.answer = "ok" /\ last'.rows = got[r]
    BY <2>0 DEF Answer
  <2>2. ambiguous \/ \A p \in listed[r] \ missed[r] : db.pond[p] # None => [name |-> p] \in got[r]
    BY <2>0 DEF PondsListed
  <2> QED BY <2>1, <2>2 DEF ListingEnd
<1>2. CASE DatasetList(r) \/ ListDatasets(r) \/ CatalogList(r) \/ ListCatalogs(r)
  <2>1. call[r].op \in ListOps /\ Answer(r, "ok", got[r])
    BY <1>2 DEF DatasetList, ListDatasets, CatalogList, ListCatalogs, Listed, ListOps
  <2>2. last'.answer = "ok" /\ last'.op \notin PondListOps
    BY <2>1 DEF Answer, ListOps, PondListOps
  <2> QED BY <2>2 DEF ListingEnd
<1>3. CASE Lookup(r)
  <2>0. pc[r] = "lookup" /\ call[r].op \in ListOps
    BY <1>3 DEF Lookup
  <2>1. CASE UNCHANGED pc
    BY <2>0, <2>1 DEF ListingEnd
  <2>2. CASE \E e \in todo[r] : db.entry[e] = None /\ Finish(r, "not_found")
    <3>1. last'.answer = "not_found"
      BY <2>2 DEF Finish, Answer
    <3>2. r \in raced \/ todo[r] \cap torn # {}
      BY <2>0, <2>2 DEF EntriesListed
    <3> QED BY <3>1, <3>2 DEF ListingEnd
  <2>3. CASE /\ faults' = faults + 1 /\ faults < MaxFaults
             /\ \E answer \in {"not_found", "internal"} : Finish(r, answer)
    <3>1. PICK answer \in {"not_found", "internal"} : Finish(r, answer)
      BY <2>3
    <3>2. last'.answer = answer
      BY <3>1 DEF Finish, Answer
    <3>3. faults' # faults
      BY <2>3 DEF FaultsTyped
    <3> QED BY <3>2, <3>3 DEF ListingEnd
  <2> QED BY <1>3, <2>1, <2>2, <2>3 DEF Lookup
<1>4. CASE ListedPondInfo(r)
  <2>1. pc[r] = "lookup" /\ UNCHANGED pc
    BY <1>4 DEF ListedPondInfo
  <2> QED BY <2>1 DEF ListingEnd
<1>5. CASE pc[r] # "lookup"
  BY <1>5 DEF ListingEnd
<1>6. \/ PondList(r) \/ ListPonds(r) \/ LocalListPonds(r) \/ DatasetList(r) \/ ListDatasets(r)
      \/ CatalogList(r) \/ ListCatalogs(r) \/ Lookup(r) \/ ListedPondInfo(r) \/ pc[r] # "lookup"
  BY DEF Handle, IdentityOf, StatementFails, ListNodes, DescribeNode, PolicyGet, PolicySet,
         CreatePondAssignment, LocalCreatePond, CreateLocated, GetPondLocation, GetPondInfo,
         SetPondTier, PondForget, DropPondAssignment, ListPondRows, AddDataset, AddCatalog,
         RemoveDataset, RemoveCatalog, GetDataset, GetCatalog, SearchNames, In
<1> QED BY <1>1, <1>2, <1>3, <1>4, <1>5, <1>6

\* A listing raced by removals (control_service.rs and registry.rs: the names first,
\* then one lookup each): one of ponds holds every pond that was there from its
\* first read to its answer, as long as no pond is named like an id, save one whose
\* own lookup was refused by the engine; one of entries says "not found" only for an
\* entry removed in between, for one whose removal stopped half way, or for a
\* statement refused there and then.
THEOREM ListingIsCompleteHolds == Spec => ListingIsComplete
<1>1. ASSUME StoreInv, QuietInv, ListedInv, FaultsTyped, [Next]_vars, NEW r \in Requests
      PROVE  ListingEnd(r)
  <2>0. TypeOK
    BY <1>1 DEF StoreInv
  <2>1. CASE UNCHANGED pc \/ last' = None
    BY <2>1 DEF ListingEnd
  <2>2. ASSUME Handle(r)
        PROVE  ListingEnd(r)
    BY <1>1, <2>0, <2>2, OwnListingEnds DEF ListedInv
  <2>3. ASSUME NEW q \in Requests, q # r, Handle(q)
        PROVE  ListingEnd(r)
    <3>1. pc'[r] = pc[r]
      BY <1>1, <2>0, <2>3, HandleDoes DEF HandlerStep, Others
    <3> QED BY <3>1 DEF ListingEnd
  <2>4. CASE \/ Open \/ Migrate \/ Serve \/ Crash \/ ReapStaleNodes \/ UNCHANGED vars
             \/ \E n \in Nodes : RegisterNode(n) \/ Heartbeat(n)
             \/ \E q \in Requests : Arrive(q) \/ CrashInRemoval(q)
    BY <2>1, <2>4 DEF Open, Migrate, Serve, Crash, ReapStaleNodes, RegisterNode, Heartbeat,
       Arrive, CrashInRemoval, requestVars, vars
  <2> QED BY <1>1, <2>2, <2>3, <2>4 DEF Next
<1>2. StoreInv /\ QuietInv /\ ListedInv /\ FaultsTyped /\ [Next]_vars => [\A r \in Requests : ListingEnd(r)]_vars
  BY <1>1
<1>3. ListingIsComplete <=> [][\A r \in Requests : ListingEnd(r)]_vars
  BY DEF ListingIsComplete, ListingEnd
<1> QED BY <1>2, <1>3, RequestAlways, FaultsCounted, PTL DEF Spec

=============================================================================
