----------------------------- MODULE FaceEnroll -----------------------------
(***************************************************************************)
(* The enrolment of faces and the naming of compared ones in               *)
(* src/src/face_recognition.c.  The thread that delivers the server's      *)
(* messages takes the face in view (face_recog) and gives it a name        *)
(* (face_owner): an embedding file, then the index file, which is read,    *)
(* truncated and written anew, then the cache of names.  The compare       *)
(* thread and the capture thread look up the files the engine finds alike: *)
(* in the cache first, then in the index, which no lock protects.          *)
(*                                                                         *)
(* The flash may be full and the power may be cut.  Neither is noticed     *)
(* where it matters: no write of the index and no fclose is checked, and   *)
(* nothing is synchronised, so a power cut may take any file back to what  *)
(* it was at any time since the power came on.                             *)
(*                                                                         *)
(* The id of a file is the wall clock in milliseconds, so the entries of   *)
(* the index, which are kept in order and extended at the end, have        *)
(* growing ids: the set of them says all.  Two embeddings are of the same  *)
(* person when the engine takes them for the same.                         *)
(***************************************************************************)
EXTENDS Naturals

CONSTANTS
  People,      \* the faces the engine tells apart
  Names,       \* the names of face_owner messages
  Readers,     \* the compare thread and the capture thread
  CacheMax,    \* ZH_FACE_CACHE_MAX
  MaxIds,      \* bound on the embedding files
  MaxFaults,   \* bound on power cuts, full flashes and failed reads
  Nobody, NoName

ASSUME EnrollAssumption ==
  /\ CacheMax \in Nat \ {0} /\ MaxIds \in Nat /\ MaxFaults \in Nat
  /\ Nobody \notin People /\ NoName \notin Names

Ids   == 1 .. MaxIds
Slots == 0 .. CacheMax - 1
Entry == [id : Ids, name : Names]

VARIABLES
  files,       \* the embedding files: the face in each
  index,       \* index.json as a reader finds it
  versions,    \* what index.json has held, complete, since the power came on
  unsaved,     \* the embedding files written since then
  stored,      \* g_face_enroll_emb, Nobody when it is not valid
  agent,       \* zh_face_enroll_on_owner: its place, face, name, file, and the index it read
  cache,       \* g_face_cache: file and name of each slot, 0 for an empty one
  cachePos,    \* g_face_cache_pos
  reader,      \* zh_face_do_compare_and_report, zh_face_detect_name_for_commit
  lastId,      \* the last id taken
  faults,      \* power cuts, full flashes and failed reads of the index so far
  \* history
  shown,       \* the face the latest face_recog saw
  given,       \* the names that were given to that face by face_owner
  crossed      \* the readers whose lookups met a rewrite of the index, or failed

flash   == <<files, index, versions, unsaved>>
history == <<shown, given, crossed>>
vars    == <<flash, stored, agent, cache, cachePos, reader, lastId, faults, history>>

NoItem == [id |-> 0, name |-> NoName]
Idle   == [at |-> "idle", face |-> Nobody, name |-> NoName, id |-> 0, old |-> {}]
Away   == [at |-> "away", who |-> Nobody, todo |-> {}, file |-> 0, seen |-> {}, best |-> NoName,
           found |-> NoName]

Init ==
  /\ files = [i \in Ids |-> Nobody] /\ index = {} /\ versions = {{}} /\ unsaved = {}
  /\ stored = Nobody /\ agent = Idle
  /\ cache = [s \in Slots |-> NoItem] /\ cachePos = 0
  /\ reader = [r \in Readers |-> Away]
  /\ lastId = 0 /\ faults = 0
  /\ shown = Nobody /\ given = {} /\ crossed = {}

-----------------------------------------------------------------------------
(* The enrolment.                                                          *)

\* Mutant: a face_recog without a face leaves the flag of the last one set.
OnRecogKeepsFace(seen) ==
  /\ agent.at = "idle"
  /\ stored' = IF seen = Nobody THEN stored ELSE seen
  /\ shown' = seen
  /\ UNCHANGED <<flash, agent, cache, cachePos, reader, lastId, faults, given, crossed>>

\* face_recog: the engine averages the face in view, or sees none and what was
\* stored is no longer valid.
OnRecog(seen) ==
  /\ agent.at = "idle"
  /\ stored' = seen
  /\ shown' = seen
  /\ UNCHANGED <<flash, agent, cache, cachePos, reader, lastId, faults, given, crossed>>

\* face_owner: the stored face is copied under the mutex and stays valid, so a
\* second name can be given to it.  Without one the answer is 1004.
OnOwner(n) ==
  /\ agent.at = "idle"
  /\ stored # Nobody
  /\ lastId < MaxIds
  /\ lastId' = lastId + 1
  /\ agent' = [Idle EXCEPT !.at = "emb", !.face = stored, !.name = n, !.id = lastId + 1]
  /\ given' = given \cup ({shown} \X {n})
  /\ UNCHANGED <<flash, stored, cache, cachePos, reader, faults, shown, crossed>>

\* The embedding is smaller than stdio's buffer: it is written by fclose, whose
\* result nobody looks at.  On a full flash the file stays empty.
WriteEmb ==
  /\ agent.at = "emb"
  /\ \/ /\ files' = [files EXCEPT ![agent.id] = agent.face]
        /\ unsaved' = unsaved \cup {agent.id}
        /\ UNCHANGED faults
     \/ /\ faults < MaxFaults /\ faults' = faults + 1
        /\ UNCHANGED <<files, unsaved>>
  /\ agent' = [agent EXCEPT !.at = "open"]
  /\ UNCHANGED <<index, versions, stored, cache, cachePos, reader, lastId, history>>

\* The embedding file or the index cannot be opened, or the failure of a write
\* is noticed: 1004.
OpenFails ==
  /\ agent.at \in {"emb", "open"}
  /\ agent' = Idle
  /\ UNCHANGED <<flash, stored, cache, cachePos, reader, lastId, faults, history>>

\* The entries of other names are kept, the new one goes behind them.
Upserted == {e \in agent.old : e.name # agent.name} \cup {[id |-> agent.id, name |-> agent.name]}

\* Mutant: the index is opened for writing before it is read.
OpenBeforeReading ==
  /\ agent.at = "open"
  /\ agent' = [agent EXCEPT !.at = "write"]
  /\ index' = {}
  /\ crossed' = Readers
  /\ UNCHANGED <<files, versions, unsaved, stored, cache, cachePos, reader, lastId, faults,
                 shown, given>>

\* zh_upsert_index_json reads the index and truncates it.  For want of memory, or
\* when the read fails, it goes on without the entries it did not get.
OpenIndex ==
  /\ agent.at = "open"
  /\ \/ /\ agent' = [agent EXCEPT !.at = "write", !.old = index]
        /\ UNCHANGED faults
     \/ /\ faults < MaxFaults /\ faults' = faults + 1
        /\ \E got \in SUBSET index : agent' = [agent EXCEPT !.at = "write", !.old = got]
  /\ index' = {}
  /\ crossed' = Readers
  /\ UNCHANGED <<files, versions, unsaved, stored, cache, cachePos, reader, lastId,
                 shown, given>>

\* The beginning of an index: entries are in the order of their ids.
Before(entries, k) == {e \in entries : e.id < k}

\* stdio writes a full buffer to the file, never the end of the text.
FlushIndex ==
  /\ agent.at = "write"
  /\ \E k \in Ids : /\ k <= agent.id /\ index \subseteq Before(Upserted, k)
                    /\ index' = Before(Upserted, k)
  /\ UNCHANGED <<files, versions, unsaved, stored, agent, cache, cachePos, reader, lastId,
                 faults, history>>

CloseIndex ==
  /\ agent.at = "write"
  /\ index' = Upserted
  /\ versions' = versions \cup {Upserted}
  /\ agent' = [agent EXCEPT !.at = "cache", !.old = {}]
  /\ UNCHANGED <<files, unsaved, stored, cache, cachePos, reader, lastId, faults, history>>

\* No write of the index is checked: on a full flash the enrolment goes on with
\* what is there.
FlashFull ==
  /\ agent.at = "write"
  /\ faults < MaxFaults
  /\ faults' = faults + 1
  /\ versions' = versions \cup {index}
  /\ agent' = [agent EXCEPT !.at = "cache", !.old = {}]
  /\ UNCHANGED <<files, index, unsaved, stored, cache, cachePos, reader, lastId, history>>

\* zh_face_cache_set: the ring's next slot, whatever the other slots hold.
CacheSet(i, n) ==
  /\ cache' = [cache EXCEPT ![cachePos] = [id |-> i, name |-> n]]
  /\ cachePos' = (cachePos + 1) % CacheMax

\* The new name is cached, 1003 reported.
CacheOwner ==
  /\ agent.at = "cache"
  /\ CacheSet(agent.id, agent.name)
  /\ agent' = Idle
  /\ UNCHANGED <<flash, stored, reader, lastId, faults, history>>

-----------------------------------------------------------------------------
(* The naming of a compared face.                                          *)

Becomes(r, state) == reader' = [reader EXCEPT ![r] = state]

\* The engine answers with the files it takes for the face in view.
Compare(r, p) ==
  /\ reader[r].at = "away"
  /\ Becomes(r, [Away EXCEPT !.at = "look", !.who = p, !.todo = {i \in Ids : files[i] = p}])
  /\ crossed' = IF agent.at = "write" THEN crossed \cup {r} ELSE crossed \ {r}
  /\ UNCHANGED <<flash, stored, agent, cache, cachePos, lastId, faults, shown, given>>

\* The nearest file wins; how near each is, is the engine's to say.
Better(best, n) == IF best = NoName THEN {n} ELSE {best, n}

\* zh_face_cache_get: the first slot with the file.
Hit(i, s) == cache[s].id = i /\ \A t \in Slots : t < s => cache[t].id # i

\* Mutant: a file that is not in the cache is not looked up.
LookCacheOnly(r) ==
  /\ reader[r].at = "look"
  /\ \E i \in reader[r].todo :
       \/ \E s \in Slots, b \in Names :
            /\ Hit(i, s)
            /\ b \in Better(reader[r].best, cache[s].name)
            /\ Becomes(r, [reader[r] EXCEPT !.todo = @ \ {i}, !.best = b])
       \/ /\ \A s \in Slots : ~Hit(i, s)
          /\ Becomes(r, [reader[r] EXCEPT !.todo = @ \ {i}])
  /\ UNCHANGED <<flash, stored, agent, cache, cachePos, lastId, faults, history>>

LookCache(r) ==
  /\ reader[r].at = "look"
  /\ \E i \in reader[r].todo :
       \/ \E s \in Slots, b \in Names :
            /\ Hit(i, s)
            /\ b \in Better(reader[r].best, cache[s].name)
            /\ Becomes(r, [reader[r] EXCEPT !.todo = @ \ {i}, !.best = b])
       \/ /\ \A s \in Slots : ~Hit(i, s)
          /\ Becomes(r, [reader[r] EXCEPT !.at = "read", !.file = i])
  /\ UNCHANGED <<flash, stored, agent, cache, cachePos, lastId, faults, history>>

\* The index is opened and its length taken; then as many bytes are read, without
\* a lock in between.
Measure(r) ==
  /\ reader[r].at = "read"
  /\ Becomes(r, [reader[r] EXCEPT !.at = "fetch", !.seen = index])
  /\ UNCHANGED <<flash, stored, agent, cache, cachePos, lastId, faults, history>>

\* What the reader gets: the index, or, if that has changed since, the beginning
\* of the new one or nothing, if that is shorter.
Fetched(r) ==
  IF reader[r].seen = index THEN {index}
  ELSE {Before(index, k) : k \in Ids} \cup {index, {}}

\* The loop goes on to the next file.
Skips(r) ==
  Becomes(r, [reader[r] EXCEPT !.at = "look", !.file = 0, !.seen = {},
                               !.todo = @ \ {reader[r].file}])

\* A file without an entry has no name.
FetchIndex(r) ==
  /\ reader[r].at = "fetch"
  /\ \E got \in Fetched(r) :
       \/ \E e \in got :
            /\ e.id = reader[r].file
            /\ Becomes(r, [reader[r] EXCEPT !.at = "set", !.seen = {}, !.found = e.name])
       \/ (\A e \in got : e.id # reader[r].file) /\ Skips(r)
  /\ UNCHANGED <<flash, stored, agent, cache, cachePos, lastId, faults, history>>

\* The index cannot be opened or read, or there is no memory for it.
ReadFails(r) ==
  /\ reader[r].at \in {"read", "fetch"}
  /\ Skips(r)
  /\ crossed' = crossed \cup {r}
  /\ UNCHANGED <<flash, stored, agent, cache, cachePos, lastId, faults, shown, given>>

\* The name found is cached, then compared with the best so far.
SetCache(r) ==
  /\ reader[r].at = "set"
  /\ CacheSet(reader[r].file, reader[r].found)
  /\ \E b \in Better(reader[r].best, reader[r].found) :
       Becomes(r, [reader[r] EXCEPT !.at = "look", !.best = b, !.file = 0, !.found = NoName,
                                 !.todo = @ \ {reader[r].file}])
  /\ UNCHANGED <<flash, stored, agent, lastId, faults, history>>

\* 1000 with the best name, or 1001.
Named(r) == reader[r].at = "look" /\ reader[r].todo = {}

Report(r) ==
  /\ Named(r)
  /\ Becomes(r, Away)
  /\ UNCHANGED <<flash, stored, agent, cache, cachePos, lastId, faults, history>>

-----------------------------------------------------------------------------
\* Nothing was synchronised: of the embedding files written since the power came
\* on any may be empty, and the index may be, as far as it goes, any that there
\* was.
PowerCut ==
  /\ faults < MaxFaults
  /\ faults' = faults + 1
  /\ \E lost \in SUBSET unsaved :
       files' = [i \in Ids |-> IF i \in lost THEN Nobody ELSE files[i]]
  /\ \E v \in versions \cup {index}, k \in 1 .. MaxIds + 1 : index' = Before(v, k)
  /\ versions' = {index'} /\ unsaved' = {}
  /\ stored' = Nobody /\ agent' = Idle
  /\ cache' = [s \in Slots |-> NoItem] /\ cachePos' = 0
  /\ reader' = [r \in Readers |-> Away]
  /\ shown' = Nobody /\ crossed' = {}
  /\ UNCHANGED <<lastId, given>>

Next ==
  \/ \E p \in People \cup {Nobody} : OnRecog(p)
  \/ \E n \in Names : OnOwner(n)
  \/ WriteEmb
  \/ OpenFails
  \/ OpenIndex
  \/ FlushIndex
  \/ CloseIndex
  \/ FlashFull
  \/ CacheOwner
  \/ \E r \in Readers, p \in People : Compare(r, p)
  \/ \E r \in Readers : LookCache(r)
  \/ \E r \in Readers : Measure(r) \/ FetchIndex(r) \/ ReadFails(r)
  \/ \E r \in Readers : SetCache(r)
  \/ \E r \in Readers : Report(r)
  \/ PowerCut

Spec == Init /\ [][Next]_vars

-----------------------------------------------------------------------------
(* Properties.                                                             *)

AgentState == [at : {"idle", "emb", "open", "write", "cache"}, face : People \cup {Nobody},
               name : Names \cup {NoName}, id : {0} \cup Ids, old : SUBSET Entry]
ReaderState == [at : {"away", "look", "read", "fetch", "set"}, who : People \cup {Nobody},
                todo : SUBSET Ids, file : {0} \cup Ids, seen : SUBSET Entry,
                best : Names \cup {NoName}, found : Names \cup {NoName}]

\* The types of the state.
TypeOK ==
  /\ files \in [Ids -> People \cup {Nobody}]
  /\ index \in SUBSET Entry /\ versions \in SUBSET SUBSET Entry /\ unsaved \in SUBSET Ids
  /\ stored \in People \cup {Nobody}
  /\ agent \in AgentState
  /\ cache \in [Slots -> [id : {0} \cup Ids, name : Names \cup {NoName}]]
  /\ cachePos \in Slots
  /\ reader \in [Readers -> ReaderState]
  /\ lastId \in 0 .. MaxIds /\ faults \in 0 .. MaxFaults
  /\ shown \in People \cup {Nobody} /\ given \in SUBSET (People \X Names)
  /\ crossed \in SUBSET Readers

\* A person is greeted only by a name that somebody gave to that person's own
\* face: not by the name meant for whom the failed or the previous face_recog
\* saw, not by the name another file left in the cache.
NamesAreGiven ==
  \A r \in Readers : reader[r].best # NoName => <<reader[r].who, reader[r].best>> \in given

\* Whoever is in the index is reported by name (1000), unless the index was
\* being rewritten during the lookups or one of them failed; the cache, empty
\* after a restart, full or stale, makes no difference.
EnrolledAreKnown ==
  \A r \in Readers :
    Named(r) /\ reader[r].best = NoName /\ r \notin crossed
      => \A e \in index : files[e.id] # reader[r].who

\* The faces an index gives to each name; an empty embedding is nobody's.
FacesOf(entries) ==
  [n \in Names |-> {files[e.id] : e \in {x \in entries : x.name = n}} \ {Nobody}]

\* Until the rewriting is complete what was read of the old index counts.
Book == IF agent.at = "write" THEN agent.old ELSE index

\* The owner who is enrolled replaces whoever had the name and nobody else, at
\* once.  A name is lost only by a fault, at the fault or with the enrolment it
\* hit, and none goes to a face that did not have it; a power cut leaves what
\* there was at some time since the power came on, without some of its names.
Directory == INSTANCE FaceDirectory WITH
  dir  <- FacesOf(Book),
  past <- {FacesOf(v) : v \in versions},
  vain <- agent.at \in {"open", "write"} /\ files[agent.id] = Nobody
ImplementsDirectory == Directory!DSpec
=============================================================================
