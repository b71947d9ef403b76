------------------------- MODULE FaceEnroll_proofs --------------------------
(***************************************************************************)
(* The enrolment keeps its directory and the names it reports are right,   *)
(* for any number of people, names, readers, cache slots, files and        *)
(* faults.                                                                 *)
(***************************************************************************)
EXTENDS FaceEnroll, TLAPS

\* The enrolment under way has a face and a name that belong together, and the
\* newest file, which holds that face or nothing.
AgentInv ==
  /\ stored = shown
  /\ agent.at # "idle" => /\ agent.face \in People /\ agent.name \in Names
                          /\ agent.id = lastId /\ agent.id \in Ids
                          /\ <<agent.face, agent.name>> \in given
  /\ \A i \in Ids : i > lastId => files[i] = Nobody
  /\ agent.at = "emb" => files[agent.id] = Nobody
  /\ agent.at \in {"open", "write", "cache"} => files[agent.id] \in {agent.face, Nobody}

\* An entry is not about a file that is still to come; the face in its file was
\* given this name.  A name has one entry.
SoundEntry(e) ==
  /\ e.id <= lastId
  /\ agent.at = "emb" => e.id # agent.id
  /\ files[e.id] # Nobody => <<files[e.id], e.name>> \in given
OnePerName(entries) == \A e, f \in entries : e.name = f.name => e = f
Sound(entries) == OnePerName(entries) /\ \A e \in entries : SoundEntry(e)

\* What is in the index, and what was read of it, is part of a version.
IndexInv ==
  /\ \A v \in versions : Sound(v)
  /\ agent.at # "write" => index \in versions /\ agent.old = {}
  /\ agent.at = "write" => /\ \E v \in versions : agent.old \subseteq v
                           /\ \A e \in index : e \in agent.old /\ e.name # agent.name

CacheInv ==
  \A s \in Slots : cache[s].id # 0 =>
    cache[s].name \in Names /\ SoundEntry(cache[s])

\* A reader compares files of the person it looks at; what it has found so far
\* are names of that person.
ReaderOK(state) ==
  /\ state.at = "away" => state.best = NoName
  /\ state.at # "away" =>
       state.who \in People /\ \A i \in state.todo : files[i] = state.who
  /\ state.at \in {"read", "fetch", "set"} => state.file \in state.todo
  /\ state.at = "set" => state.found \in Names /\ <<state.who, state.found>> \in given
  /\ state.best # NoName => <<state.who, state.best>> \in given

ReaderInv == \A r \in Readers : ReaderOK(reader[r])

\* A reader that met no rewriting still has to look up, or has found, every
\* indexed file of its person.
Unmissed(state) ==
  \A e \in index : files[e.id] = state.who => e.id \in state.todo \/ state.best # NoName

KnownInv ==
  \A r \in Readers : reader[r].at # "away" =>
    /\ agent.at = "write" => r \in crossed
    /\ r \notin crossed => /\ Unmissed(reader[r])
                           /\ reader[r].at = "fetch" => reader[r].seen = index

IInv == TypeOK /\ AgentInv /\ IndexInv /\ CacheInv /\ ReaderInv /\ KnownInv

-----------------------------------------------------------------------------
\* The position in the ring wraps.
LEMMA NextSlot == ASSUME NEW s \in Slots PROVE (s + 1) % CacheMax \in Slots
BY EnrollAssumption DEF Slots

\* A reader gets entries of the index, and if that has not changed since it took
\* the length, all of them.
LEMMA FetchedEntries ==
  ASSUME TypeOK, NEW r \in Readers, NEW got \in Fetched(r)
  PROVE  /\ got \subseteq index /\ got \in SUBSET Entry
         /\ reader[r].seen = index => got = index
BY DEF Fetched, Before, TypeOK

LEMMA InitIInv == Init => IInv
<1> SUFFICES ASSUME Init PROVE IInv
  OBVIOUS
<1> USE EnrollAssumption DEF Init, Idle, Away, NoItem
<1>1. TypeOK
  BY DEF TypeOK, Ids, Slots, Entry, AgentState, ReaderState
<1>2. AgentInv
  BY DEF AgentInv
<1>3. IndexInv
  BY DEF IndexInv, Sound, OnePerName
<1>4. CacheInv
  BY DEF CacheInv
<1>5. ReaderInv
  BY DEF ReaderInv, ReaderOK
<1>6. KnownInv
  BY DEF KnownInv
<1> QED
  BY <1>1, <1>2, <1>3, <1>4, <1>5, <1>6 DEF IInv

\* The states a reader goes to.
LEMMA ReaderTypes ==
  ASSUME NEW state \in ReaderState
  PROVE  /\ \A i \in Ids, b \in Names :
              [state EXCEPT !.todo = @ \ {i}, !.best = b] \in ReaderState
         /\ \A i \in Ids : [state EXCEPT !.at = "read", !.file = i] \in ReaderState
         /\ \A v \in SUBSET Entry : [state EXCEPT !.at = "fetch", !.seen = v] \in ReaderState
         /\ \A n \in Names :
              [state EXCEPT !.at = "set", !.seen = {}, !.found = n] \in ReaderState
         /\ [state EXCEPT !.at = "look", !.file = 0, !.seen = {},
                          !.todo = @ \ {state.file}] \in ReaderState
         /\ \A b \in Names \cup {NoName} :
              [state EXCEPT !.at = "look", !.best = b, !.file = 0, !.found = NoName,
                            !.todo = @ \ {state.file}] \in ReaderState
<1> USE DEF ReaderState
<1>1. \A i \in Ids, b \in Names : [state EXCEPT !.todo = @ \ {i}, !.best = b] \in ReaderState
  OBVIOUS
<1>2. \A i \in Ids : [state EXCEPT !.at = "read", !.file = i] \in ReaderState
  OBVIOUS
<1>3. \A v \in SUBSET Entry : [state EXCEPT !.at = "fetch", !.seen = v] \in ReaderState
  OBVIOUS
<1>4. \A n \in Names : [state EXCEPT !.at = "set", !.seen = {}, !.found = n] \in ReaderState
  OBVIOUS
<1>5. [state EXCEPT !.at = "look", !.file = 0, !.seen = {}, !.todo = @ \ {state.file}]
        \in ReaderState
  OBVIOUS
<1>6. \A b \in Names \cup {NoName} :
        [state EXCEPT !.at = "look", !.best = b, !.file = 0, !.found = NoName,
                      !.todo = @ \ {state.file}] \in ReaderState
  OBVIOUS
<1> QED
  BY <1>1, <1>2, <1>3, <1>4, <1>5, <1>6

\* Types.  The position wraps by NextSlot; what an enrolment writes into the
\* index is an entry by AgentInv.
LEMMA TypeStep == IInv /\ [Next]_vars => TypeOK'
<1> SUFFICES ASSUME IInv, [Next]_vars PROVE TypeOK'
  OBVIOUS
<1> USE EnrollAssumption DEF TypeOK, flash, history
<1> TypeOK
  BY DEF IInv
<1>1. ASSUME NEW p \in People \cup {Nobody}, OnRecog(p) PROVE TypeOK'
  BY <1>1 DEF OnRecog
<1>2. ASSUME NEW n \in Names, OnOwner(n) PROVE TypeOK'
  <2>1. stored \in People /\ shown = stored
    BY <1>2 DEF OnOwner, IInv, AgentInv
  <2>2. lastId + 1 \in Ids /\ lastId' \in 0 .. MaxIds
    BY <1>2 DEF OnOwner, Ids
  <2>3. agent' \in AgentState
    BY <1>2, <2>1, <2>2 DEF OnOwner, Idle, AgentState
  <2>4. given' \in SUBSET (People \X Names)
    BY <1>2, <2>1 DEF OnOwner
  <2> QED
    BY <1>2, <2>2, <2>3, <2>4 DEF OnOwner
<1>3. CASE WriteEmb
  <2>1. agent' \in AgentState
    BY <1>3 DEF WriteEmb, AgentState
  <2>2. files' \in [Ids -> People \cup {Nobody}] /\ unsaved' \in SUBSET Ids
    BY <1>3 DEF WriteEmb, AgentState, IInv, AgentInv
  <2> QED
    BY <1>3, <2>1, <2>2 DEF WriteEmb
<1>4. CASE OpenFails
  BY <1>4 DEF OpenFails, Idle, AgentState
<1>5. CASE OpenIndex
  <2>1. agent' \in AgentState
    <3>1. PICK got \in SUBSET index : agent' = [agent EXCEPT !.at = "write", !.old = got]
      BY <1>5 DEF OpenIndex
    <3>2. agent \in AgentState /\ got \in SUBSET Entry
      OBVIOUS
    <3> QED
      BY <3>1, <3>2 DEF AgentState
  <2>2. faults' \in 0 .. MaxFaults
    <3>1. faults' = faults \/ (faults < MaxFaults /\ faults' = faults + 1)
      BY <1>5 DEF OpenIndex
    <3> QED
      BY <3>1
  <2>3. index' \in SUBSET Entry /\ crossed' \in SUBSET Readers
    BY <1>5 DEF OpenIndex
  <2>4. UNCHANGED <<files, versions, unsaved, stored, cache, cachePos, reader, lastId,
                    shown, given>>
    BY <1>5 DEF OpenIndex
  <2> QED
    BY <2>1, <2>2, <2>3, <2>4
<1>6. CASE FlushIndex \/ CloseIndex
  <2>1. Upserted \in SUBSET Entry
    BY <1>6 DEF IInv, AgentInv, Upserted, Entry, FlushIndex, CloseIndex, AgentState
  <2>2. agent' \in AgentState
    BY <1>6 DEF FlushIndex, CloseIndex, AgentState
  <2>3. index' \in SUBSET Entry /\ versions' \in SUBSET SUBSET Entry
    BY <1>6, <2>1 DEF FlushIndex, CloseIndex, Before
  <2> QED
    BY <1>6, <2>2, <2>3 DEF FlushIndex, CloseIndex
<1>7. CASE FlashFull
  <2>1. faults' \in 0 .. MaxFaults
    BY <1>7 DEF FlashFull
  <2>2. agent' \in AgentState
    BY <1>7 DEF FlashFull, AgentState
  <2> QED
    BY <1>7, <2>1, <2>2 DEF FlashFull
<1>8. CASE CacheOwner
  <2>1. [id |-> agent.id, name |-> agent.name] \in [id : {0} \cup Ids, name : Names \cup {NoName}]
    BY DEF AgentState
  <2>2. cache' \in [Slots -> [id : {0} \cup Ids, name : Names \cup {NoName}]] /\ cachePos' \in Slots
    BY <1>8, <2>1, NextSlot DEF CacheOwner, CacheSet
  <2>3. agent' \in AgentState
    BY <1>8 DEF CacheOwner, Idle, AgentState
  <2> QED
    BY <1>8, <2>2, <2>3 DEF CacheOwner
<1>a. ASSUME NEW r \in Readers, NEW s \in ReaderState, Becomes(r, s)
      PROVE  reader' \in [Readers -> ReaderState]
  BY <1>a DEF Becomes
<1>b. \A r \in Readers : reader[r] \in ReaderState
  OBVIOUS
<1>9. ASSUME NEW r \in Readers, NEW p \in People, Compare(r, p) PROVE TypeOK'
  <2>1. [Away EXCEPT !.at = "look", !.who = p, !.todo = {i \in Ids : files[i] = p}] \in ReaderState
    BY DEF Away, ReaderState
  <2> QED
    BY <1>9, <1>a, <2>1 DEF Compare
<1>10. ASSUME NEW r \in Readers, LookCache(r) PROVE TypeOK'
  <2>1. PICK i \in reader[r].todo :
          \/ \E b \in Names : Becomes(r, [reader[r] EXCEPT !.todo = @ \ {i}, !.best = b])
          \/ Becomes(r, [reader[r] EXCEPT !.at = "read", !.file = i])
    BY <1>10 DEF LookCache
  <2>2. i \in Ids
    BY <1>b DEF ReaderState
  <2>3. reader' \in [Readers -> ReaderState]
    BY <1>a, <1>b, <2>1, <2>2, ReaderTypes
  <2> QED
    BY <1>10, <2>3 DEF LookCache
<1>11. ASSUME NEW r \in Readers, Measure(r) \/ FetchIndex(r) \/ ReadFails(r) PROVE TypeOK'
  <2>1. CASE Measure(r)
    BY <1>a, <1>b, <2>1, ReaderTypes DEF Measure
  <2>2. ASSUME Skips(r) PROVE reader' \in [Readers -> ReaderState]
    BY <1>a, <1>b, <2>2, ReaderTypes DEF Skips
  <2>3. CASE FetchIndex(r)
    <3>1. PICK got \in Fetched(r) :
            \/ \E e \in got :
                 Becomes(r, [reader[r] EXCEPT !.at = "set", !.seen = {}, !.found = e.name])
            \/ Skips(r)
      BY <2>3 DEF FetchIndex
    <3>2. \A e \in got : e.name \in Names
      BY FetchedEntries DEF Entry
    <3>3. reader' \in [Readers -> ReaderState]
      BY <1>a, <1>b, <2>2, <3>1, <3>2, ReaderTypes
    <3> QED
      BY <2>3, <3>3 DEF FetchIndex
  <2>4. CASE ReadFails(r)
    BY <2>2, <2>4 DEF ReadFails
  <2> QED
    BY <1>11, <2>1, <2>3, <2>4
<1>12. ASSUME NEW r \in Readers, SetCache(r) PROVE TypeOK'
  <2>1. cache' \in [Slots -> [id : {0} \cup Ids, name : Names \cup {NoName}]] /\ cachePos' \in Slots
    BY <1>12, NextSlot DEF SetCache, CacheSet, ReaderState
  <2>2. PICK b \in Better(reader[r].best, reader[r].found) :
          Becomes(r, [reader[r] EXCEPT !.at = "look", !.best = b, !.file = 0, !.found = NoName,
                                       !.todo = @ \ {reader[r].file}])
    BY <1>12 DEF SetCache
  <2>3. b \in Names \cup {NoName}
    BY <1>b DEF Better, ReaderState
  <2>4. reader' \in [Readers -> ReaderState]
    BY <1>a, <1>b, <2>2, <2>3, ReaderTypes
  <2> QED
    BY <1>12, <2>1, <2>4 DEF SetCache
<1>13. ASSUME NEW r \in Readers, Report(r) PROVE TypeOK'
  BY <1>13, <1>a DEF Report, Away, ReaderState
<1>14. CASE PowerCut
  <2>1. index' \in SUBSET Entry
    BY <1>14 DEF PowerCut, Before
  <2>2. files' \in [Ids -> People \cup {Nobody}]
    BY <1>14 DEF PowerCut
  <2>3. Idle \in AgentState /\ Away \in ReaderState
    BY DEF Idle, Away, AgentState, ReaderState
  <2>4. faults' \in 0 .. MaxFaults
    BY <1>14 DEF PowerCut
  <2> QED
    BY <1>14, <2>1, <2>2, <2>3, <2>4 DEF PowerCut, NoItem, Slots
<1>15. CASE UNCHANGED vars
  BY <1>15 DEF vars
<1> QED
  BY <1>1, <1>2, <1>3, <1>4, <1>5, <1>6, <1>7, <1>8, <1>9, <1>10, <1>11, <1>12, <1>13,
     <1>14, <1>15 DEF Next

-----------------------------------------------------------------------------
\* What the readers leave alone.
Reading ==
  \E r \in Readers : \/ \E p \in People : Compare(r, p)
                     \/ LookCache(r) \/ Measure(r) \/ FetchIndex(r) \/ ReadFails(r)
                     \/ SetCache(r) \/ Report(r)

LEMMA ReadingOnlyReads ==
  Reading => UNCHANGED <<flash, stored, agent, lastId, faults, shown, given>>
BY DEF Reading, Compare, LookCache, Measure, FetchIndex, ReadFails, SetCache, Report, history

LEMMA AgentStep == IInv /\ [Next]_vars => AgentInv'
<1> SUFFICES ASSUME IInv, [Next]_vars PROVE AgentInv'
  OBVIOUS
<1> TypeOK /\ AgentInv
  BY DEF IInv
<1>1. ASSUME NEW p \in People \cup {Nobody}, OnRecog(p) PROVE AgentInv'
  BY <1>1 DEF OnRecog, flash, AgentInv
<1>2. ASSUME NEW n \in Names, OnOwner(n) PROVE AgentInv'
  <2>1. stored \in People /\ shown = stored
    BY <1>2 DEF OnOwner, AgentInv, TypeOK
  <2>2. lastId + 1 \in Ids /\ lastId' = lastId + 1 /\ lastId + 1 > lastId
    BY <1>2, EnrollAssumption DEF OnOwner, Ids, TypeOK
  <2>3. /\ agent'.at = "emb" /\ agent'.face = stored /\ agent'.name = n
        /\ agent'.id = lastId + 1
    BY <1>2 DEF OnOwner, Idle
  <2>4. \A i \in Ids : i > lastId' => i > lastId
    BY <2>2 DEF Ids, TypeOK
  <2>5. <<stored, n>> \in given'
    BY <1>2, <2>1 DEF OnOwner
  <2> QED
    BY <1>2, <2>1, <2>2, <2>3, <2>4, <2>5 DEF OnOwner, flash, AgentInv
<1>3. CASE WriteEmb
  <2>1. agent.id \in Ids /\ agent.id = lastId /\ agent.face \in People
    BY <1>3 DEF WriteEmb, AgentInv
  <2>2. /\ files'[agent.id] \in {agent.face, Nobody}
        /\ \A i \in Ids : i # agent.id => files'[i] = files[i]
    BY <1>3, <2>1 DEF WriteEmb, AgentInv, TypeOK
  <2>3. /\ agent'.at = "open" /\ agent'.face = agent.face /\ agent'.name = agent.name
        /\ agent'.id = agent.id
    BY <1>3 DEF WriteEmb, TypeOK, AgentState
  <2>4. \A i \in Ids : i > lastId => i # agent.id
    BY <2>1 DEF Ids, TypeOK
  <2> QED
    BY <1>3, <2>1, <2>2, <2>3, <2>4 DEF WriteEmb, history, AgentInv
<1>4. CASE OpenFails \/ CacheOwner
  BY <1>4 DEF OpenFails, CacheOwner, Idle, flash, history, AgentInv
<1>5. CASE OpenIndex \/ FlushIndex \/ CloseIndex \/ FlashFull
  <2>1. /\ agent.at \in {"open", "write"} /\ agent'.at \in {"write", "cache"}
        /\ agent'.face = agent.face /\ agent'.name = agent.name /\ agent'.id = agent.id
        /\ UNCHANGED <<files, stored, shown, given, lastId>>
    BY <1>5 DEF OpenIndex, FlushIndex, CloseIndex, FlashFull, history, TypeOK, AgentState
  <2> QED
    BY <2>1 DEF AgentInv
<1>6. CASE Reading
  BY <1>6, ReadingOnlyReads DEF flash, AgentInv
<1>7. CASE PowerCut
  BY <1>7 DEF PowerCut, Idle, AgentInv, TypeOK
<1>8. CASE UNCHANGED vars
  BY <1>8 DEF vars, flash, history, AgentInv
<1> QED
  BY <1>1, <1>2, <1>3, <1>4, <1>5, <1>6, <1>7, <1>8 DEF Next, Reading

\* A file that holds a face keeps it, unless the power is cut.
LEMMA FilesKept ==
  ASSUME IInv, [Next]_vars
  PROVE  /\ given \subseteq given'
         /\ PowerCut \/ \A i \in Ids : files[i] # Nobody => files'[i] = files[i]
         /\ PowerCut => \A i \in Ids : files'[i] \in {files[i], Nobody}
<1>5. PowerCut => \A i \in Ids : files'[i] \in {files[i], Nobody}
  BY DEF PowerCut
<1>1. ASSUME NEW n \in Names, OnOwner(n)
      PROVE  files' = files /\ given \subseteq given'
  BY <1>1 DEF OnOwner, flash
<1>2. CASE WriteEmb
  <2>1. agent.at = "emb" /\ files[agent.id] = Nobody /\ UNCHANGED given
    BY <1>2 DEF WriteEmb, history, IInv, AgentInv
  <2>2. \A i \in Ids : i # agent.id => files'[i] = files[i]
    BY <1>2 DEF WriteEmb, IInv, TypeOK
  <2> QED
    BY <1>5, <2>1, <2>2
<1>3. CASE Reading
  BY <1>3, ReadingOnlyReads DEF flash
<1>4. CASE PowerCut
  BY <1>4 DEF PowerCut
<1> QED
  BY <1>1, <1>2, <1>3, <1>4, <1>5 DEF Next, Reading, vars, flash, history, OnRecog,
     OpenFails, OpenIndex, FlushIndex, CloseIndex, FlashFull, CacheOwner

\* An entry stays sound: its file is kept or emptied, and the id of the next
\* enrolment is a new one.
LEMMA EntriesStaySound ==
  ASSUME IInv, [Next]_vars, NEW e \in Entry, SoundEntry(e)
  PROVE  SoundEntry(e)'
<1> e.id \in Ids /\ TypeOK
  BY DEF Entry, IInv
<1>1. ASSUME NEW n \in Names, OnOwner(n) PROVE SoundEntry(e)'
  <2>1. agent'.id = lastId + 1 /\ lastId' = lastId + 1 /\ files' = files /\ given \subseteq given'
    BY <1>1 DEF OnOwner, Idle, flash
  <2>2. e.id <= lastId' /\ e.id # agent'.id
    BY <2>1 DEF SoundEntry, Ids, TypeOK
  <2> QED
    BY <2>1, <2>2 DEF SoundEntry
<1>2. CASE WriteEmb
  <2>1. files'[e.id] = files[e.id] /\ agent.at = "emb" /\ agent'.at = "open"
        /\ agent'.id = agent.id /\ UNCHANGED <<lastId, given>>
    BY <1>2 DEF WriteEmb, history, SoundEntry, TypeOK, AgentState
  <2> QED
    BY <2>1 DEF SoundEntry
<1>3. CASE PowerCut
  <2>1. /\ files'[e.id] \in {files[e.id], Nobody} /\ agent'.at = "idle"
        /\ UNCHANGED <<lastId, given>>
    BY <1>3 DEF PowerCut, Idle
  <2> QED
    BY <2>1 DEF SoundEntry
<1>4. ASSUME UNCHANGED <<files, lastId, given>>, agent'.at # "emb" \/ UNCHANGED agent
      PROVE  SoundEntry(e)'
  BY <1>4 DEF SoundEntry
<1>5. CASE OpenFails \/ CacheOwner
  BY <1>4, <1>5 DEF OpenFails, CacheOwner, Idle, flash, history
<1>6. CASE OpenIndex \/ FlushIndex \/ CloseIndex \/ FlashFull
  <2>1. agent'.at # "emb" /\ UNCHANGED <<files, lastId, given>>
    BY <1>6 DEF OpenIndex, FlushIndex, CloseIndex, FlashFull, history, TypeOK, AgentState
  <2> QED
    BY <1>4, <2>1
<1>7. CASE Reading
  BY <1>4, <1>7, ReadingOnlyReads DEF flash
<1>8. ASSUME NEW p \in People \cup {Nobody}, OnRecog(p) PROVE SoundEntry(e)'
  BY <1>4, <1>8 DEF OnRecog, flash
<1>9. CASE UNCHANGED vars
  BY <1>4, <1>9 DEF vars, flash, history
<1> QED
  BY <1>1, <1>2, <1>3, <1>5, <1>6, <1>7, <1>8, <1>9 DEF Next, Reading

\* The index is part of a version, even while it is rewritten.
LEMMA IndexOfAVersion ==
  ASSUME IInv
  PROVE  \E v \in versions : index \subseteq v
BY DEF IInv, IndexInv

LEMMA PartsStaySound ==
  ASSUME IInv, [Next]_vars, NEW v \in SUBSET Entry, NEW part \in SUBSET v, Sound(v)
  PROVE  Sound(part)'
<1>1. \A e \in part : SoundEntry(e)'
  BY EntriesStaySound DEF Sound
<1> QED
  BY <1>1 DEF Sound, OnePerName

LEMMA IndexStep == IInv /\ [Next]_vars => IndexInv'
<1> SUFFICES ASSUME IInv, [Next]_vars PROVE IndexInv'
  OBVIOUS
<1> TypeOK /\ AgentInv /\ IndexInv
  BY DEF IInv
<1>1. /\ \A v \in versions : Sound(v)'
      /\ \A v \in versions : \A part \in SUBSET v : Sound(part)'
  BY PartsStaySound DEF IndexInv, TypeOK
<1>2. ASSUME UNCHANGED <<index, versions, agent>> PROVE IndexInv'
  BY <1>1, <1>2 DEF IndexInv
<1>3. ASSUME UNCHANGED <<index, versions>>, agent.at # "write", agent'.at # "write",
             agent'.old = {}
      PROVE  IndexInv'
  BY <1>1, <1>3 DEF IndexInv
<1>4. ASSUME NEW n \in Names, OnOwner(n) PROVE IndexInv'
  BY <1>3, <1>4 DEF OnOwner, Idle, flash
<1>5. CASE WriteEmb
  <2>1. agent.at = "emb" /\ agent'.at = "open" /\ agent'.old = agent.old
    BY <1>5 DEF WriteEmb, TypeOK, AgentState
  <2> QED
    BY <1>3, <1>5, <2>1 DEF WriteEmb, IndexInv
<1>6. CASE OpenFails \/ CacheOwner
  BY <1>3, <1>6 DEF OpenFails, CacheOwner, Idle, flash
<1>7. CASE OpenIndex
  <2>1. /\ agent'.old \subseteq index /\ agent'.at = "write" /\ agent.at = "open"
        /\ index' = {} /\ UNCHANGED versions
    BY <1>7 DEF OpenIndex, TypeOK, AgentState
  <2> QED
    BY <1>1, <2>1 DEF IndexInv
<1>8. CASE FlushIndex
  <2>1. PICK k \in Ids : k <= agent.id /\ index' = Before(Upserted, k)
    BY <1>8 DEF FlushIndex
  <2>2. \A e \in index' : e \in agent.old /\ e.name # agent.name
    BY <1>8, <2>1 DEF Before, Upserted, FlushIndex, AgentInv, Ids
  <2> QED
    BY <1>1, <1>8, <2>2 DEF FlushIndex, IndexInv
<1>9. CASE CloseIndex
  <2>1. /\ agent.at = "write" /\ index' = Upserted /\ versions' = versions \cup {Upserted}
        /\ agent'.at = "cache" /\ agent'.old = {} /\ UNCHANGED <<files, lastId, given>>
    BY <1>9 DEF CloseIndex, history, TypeOK, AgentState
  <2>2. PICK v \in versions : agent.old \subseteq v
    BY <2>1 DEF IndexInv
  <2>3. OnePerName(v) /\ \A e \in agent.old : SoundEntry(e)'
    BY <1>1, <2>2 DEF IndexInv, Sound
  <2>4. ASSUME NEW e \in Upserted PROVE SoundEntry(e)'
    <3>1. CASE e \in agent.old
      BY <2>3, <3>1
    <3>2. CASE e = [id |-> agent.id, name |-> agent.name]
      BY <2>1, <3>2 DEF SoundEntry, AgentInv, Ids, TypeOK
    <3> QED
      BY <3>1, <3>2 DEF Upserted
  <2>5. OnePerName(Upserted)
    BY <2>2, <2>3 DEF OnePerName, Upserted
  <2>6. Sound(index)'
    <3>1. OnePerName(index)'
      BY <2>1, <2>5 DEF OnePerName
    <3> QED
      BY <2>1, <2>4, <3>1 DEF Sound
  <2> QED
    BY <1>1, <2>1, <2>6 DEF IndexInv
<1>10. CASE FlashFull
  <2>1. /\ agent.at = "write" /\ versions' = versions \cup {index} /\ index' = index
        /\ agent'.at = "cache" /\ agent'.old = {}
    BY <1>10 DEF FlashFull, TypeOK, AgentState
  <2>2. \E v \in versions : index \subseteq v
    BY <2>1 DEF IndexInv
  <2> QED
    BY <1>1, <2>1, <2>2 DEF IndexInv
<1>11. CASE PowerCut
  <2>1. agent'.at = "idle" /\ agent'.old = {} /\ versions' = {index'}
    BY <1>11 DEF PowerCut, Idle
  <2>2. \E v \in versions : index' \subseteq v
    BY <1>11, IndexOfAVersion DEF PowerCut, Before
  <2> QED
    BY <1>1, <2>1, <2>2 DEF IndexInv
<1>12. CASE Reading
  BY <1>2, <1>12, ReadingOnlyReads DEF flash
<1>13. ASSUME NEW p \in People \cup {Nobody}, OnRecog(p) PROVE IndexInv'
  BY <1>2, <1>13 DEF OnRecog, flash
<1>14. CASE UNCHANGED vars
  BY <1>2, <1>14 DEF vars, flash
<1> QED
  BY <1>4, <1>5, <1>6, <1>7, <1>8, <1>9, <1>10, <1>11, <1>12, <1>13, <1>14 DEF Next, Reading

\* What a full slot says is true of the file it names.
LEMMA CacheStep == IInv /\ [Next]_vars => CacheInv'
<1> SUFFICES ASSUME IInv, [Next]_vars PROVE CacheInv'
  OBVIOUS
<1> TypeOK /\ AgentInv /\ CacheInv /\ ReaderInv
  BY DEF IInv
<1>1. \A s \in Slots :
        cache[s].id # 0 => /\ cache[s].name \in Names
                           /\ \A item : item = cache[s] => SoundEntry(item)'
  <2>1. ASSUME NEW s \in Slots, cache[s].id # 0, NEW item, item = cache[s]
        PROVE  item.name \in Names /\ SoundEntry(item)'
    <3>1. item \in Entry /\ SoundEntry(item)
      BY <2>1 DEF CacheInv, TypeOK, Entry
    <3> QED
      BY <3>1, EntriesStaySound DEF Entry
  <2> QED
    BY <2>1
<1>a. CASE UNCHANGED cache
  BY <1>1, <1>a DEF CacheInv
<1>2. ASSUME NEW i \in Ids, NEW n \in Names, CacheSet(i, n),
             \A item : item = [id |-> i, name |-> n] => SoundEntry(item)'
      PROVE  CacheInv'
  <2>1. ASSUME NEW s \in Slots, cache'[s].id # 0
        PROVE  cache'[s].name \in Names /\ \A item : item = cache'[s] => SoundEntry(item)'
    <3>1. cache'[s] = cache[s] \/ cache'[s] = [id |-> i, name |-> n]
      BY <1>2 DEF CacheSet, TypeOK
    <3> QED
      BY <1>1, <1>2, <2>1, <3>1
  <2> QED
    BY <2>1 DEF CacheInv
<1>3. CASE CacheOwner
  <2>1. ASSUME NEW item, item = [id |-> agent.id, name |-> agent.name]
        PROVE  SoundEntry(item)'
    BY <1>3, <2>1 DEF CacheOwner, Idle, flash, history, SoundEntry, AgentInv, Ids, TypeOK
  <2>2. agent.id \in Ids /\ agent.name \in Names
    BY <1>3 DEF CacheOwner, AgentInv
  <2> QED
    BY <1>2, <1>3, <2>1, <2>2 DEF CacheOwner
<1>4. ASSUME NEW r \in Readers, SetCache(r) PROVE CacheInv'
  <2>1. /\ reader[r].file \in Ids /\ reader[r].found \in Names
        /\ files[reader[r].file] = reader[r].who /\ reader[r].who \in People
        /\ <<reader[r].who, reader[r].found>> \in given
    BY <1>4 DEF SetCache, ReaderInv, ReaderOK, TypeOK, ReaderState
  <2>2. reader[r].file <= lastId
    <3>1. reader[r].file \in Nat /\ lastId \in Nat
      BY <2>1, EnrollAssumption DEF Ids, TypeOK
    <3>2. ~(reader[r].file > lastId)
      BY <2>1, EnrollAssumption DEF AgentInv
    <3> QED
      BY <3>1, <3>2
  <2>3. ASSUME NEW item, item = [id |-> reader[r].file, name |-> reader[r].found]
        PROVE  SoundEntry(item)'
    BY <1>4, <2>1, <2>2, <2>3, EnrollAssumption
       DEF SetCache, flash, history, SoundEntry, AgentInv
  <2> QED
    BY <1>2, <1>4, <2>1, <2>3 DEF SetCache
<1>5. CASE PowerCut
  BY <1>5 DEF PowerCut, NoItem, CacheInv
<1>6. ASSUME NEW r \in Readers,
             \/ \E p \in People : Compare(r, p)
             \/ LookCache(r) \/ Measure(r) \/ FetchIndex(r) \/ ReadFails(r) \/ Report(r)
      PROVE  CacheInv'
  BY <1>a, <1>6 DEF Compare, LookCache, Measure, FetchIndex, ReadFails, Report
<1> QED
  BY <1>a, <1>3, <1>4, <1>5, <1>6 DEF Next, vars, OnRecog, OnOwner, WriteEmb, OpenFails,
     OpenIndex, FlushIndex, CloseIndex, FlashFull

LEMMA ReaderStep == IInv /\ [Next]_vars => ReaderInv'
<1> SUFFICES ASSUME IInv, [Next]_vars PROVE ReaderInv'
  OBVIOUS
<1> TypeOK /\ IndexInv /\ CacheInv /\ ReaderInv
  BY DEF IInv
<1>1. CASE UNCHANGED reader
  <2>1. \A r \in Readers : reader[r].todo \subseteq Ids
    BY DEF TypeOK, ReaderState
  <2>2. CASE PowerCut
    BY <2>2 DEF PowerCut, Away, ReaderInv, ReaderOK
  <2>3. CASE ~PowerCut
    BY <1>1, <2>1, <2>3, FilesKept, EnrollAssumption DEF ReaderInv, ReaderOK
  <2> QED
    BY <2>2, <2>3
<1>2. ASSUME NEW r \in Readers, NEW s \in ReaderState, Becomes(r, s), ReaderOK(s),
             UNCHANGED <<files, given>>
      PROVE  ReaderInv'
  <2>1. \A t \in Readers : reader'[t] = s \/ reader'[t] = reader[t]
    BY <1>2 DEF Becomes, TypeOK
  <2> QED
    BY <1>2, <2>1 DEF ReaderInv, ReaderOK
<1>3. ASSUME NEW r \in Readers, NEW p \in People, Compare(r, p) PROVE ReaderInv'
  <2> DEFINE s == [Away EXCEPT !.at = "look", !.who = p, !.todo = {i \in Ids : files[i] = p}]
  <2>1. s \in ReaderState /\ ReaderOK(s)
    BY EnrollAssumption DEF Away, ReaderState, ReaderOK
  <2> QED
    BY <1>2, <1>3, <2>1 DEF Compare, flash
<1>4. ASSUME NEW r \in Readers, LookCache(r) PROVE ReaderInv'
  <2> reader[r] \in ReaderState /\ ReaderOK(reader[r]) /\ reader[r].at = "look"
    BY <1>4 DEF LookCache, ReaderInv, TypeOK
  <2>1. ASSUME NEW i \in reader[r].todo, NEW s \in Slots, NEW b \in Names, Hit(i, s),
               b \in Better(reader[r].best, cache[s].name),
               Becomes(r, [reader[r] EXCEPT !.todo = @ \ {i}, !.best = b])
        PROVE  ReaderInv'
    <3>1. i # 0 /\ <<reader[r].who, cache[s].name>> \in given
      BY <2>1, EnrollAssumption DEF Hit, CacheInv, SoundEntry, ReaderOK, ReaderState, Ids
    <3>2. <<reader[r].who, b>> \in given
      BY <2>1, <3>1 DEF Better, ReaderOK
    <3> DEFINE new == [reader[r] EXCEPT !.todo = @ \ {i}, !.best = b]
    <3>3. /\ new \in ReaderState /\ new.at = "look" /\ new.who = reader[r].who
          /\ new.todo \subseteq reader[r].todo /\ new.best = b
      BY DEF ReaderState
    <3>4. ReaderOK(new)
      BY <3>2, <3>3 DEF ReaderOK
    <3> QED
      BY <1>2, <1>4, <2>1, <3>3, <3>4 DEF LookCache, flash, history
  <2>2. ASSUME NEW i \in reader[r].todo, Becomes(r, [reader[r] EXCEPT !.at = "read", !.file = i])
        PROVE  ReaderInv'
    <3> DEFINE new == [reader[r] EXCEPT !.at = "read", !.file = i]
    <3>1. /\ new \in ReaderState /\ new.at = "read" /\ new.who = reader[r].who
          /\ new.todo = reader[r].todo /\ new.best = reader[r].best /\ new.file = i
      BY DEF ReaderState
    <3>2. ReaderOK(new)
      BY <3>1 DEF ReaderOK
    <3> QED
      BY <1>2, <1>4, <2>2, <3>1, <3>2 DEF LookCache, flash, history
  <2> QED
    BY <1>4, <2>1, <2>2 DEF LookCache
<1>5. ASSUME NEW r \in Readers, Measure(r) \/ FetchIndex(r) \/ ReadFails(r) PROVE ReaderInv'
  <2> reader[r] \in ReaderState /\ ReaderOK(reader[r]) /\ reader[r].at \in {"read", "fetch"}
    BY <1>5 DEF Measure, FetchIndex, ReadFails, ReaderInv, TypeOK
  <2>1. UNCHANGED <<files, given>>
    BY <1>5 DEF Measure, FetchIndex, ReadFails, flash, history
  <2>2. CASE Measure(r)
    <3> DEFINE new == [reader[r] EXCEPT !.at = "fetch", !.seen = index]
    <3>1. /\ new \in ReaderState /\ new.at = "fetch" /\ new.who = reader[r].who
          /\ new.todo = reader[r].todo /\ new.best = reader[r].best
          /\ new.file = reader[r].file
      BY DEF ReaderState, TypeOK
    <3>2. ReaderOK(new)
      BY <3>1 DEF ReaderOK
    <3> QED
      BY <1>2, <2>1, <2>2, <3>1, <3>2 DEF Measure
  <2>3. ASSUME NEW got \in Fetched(r), NEW e \in got, e.id = reader[r].file, FetchIndex(r),
               Becomes(r, [reader[r] EXCEPT !.at = "set", !.seen = {}, !.found = e.name])
        PROVE  ReaderInv'
    <3>1. e \in Entry /\ SoundEntry(e)
      BY <2>3, FetchedEntries, IndexOfAVersion DEF IInv, IndexInv, Sound
    <3>2. e.name \in Names /\ <<reader[r].who, e.name>> \in given
      <4>1. files[e.id] = reader[r].who /\ reader[r].who \in People
        BY <2>3 DEF ReaderOK
      <4> QED
        BY <3>1, <4>1, EnrollAssumption DEF SoundEntry, Entry
    <3> DEFINE new == [reader[r] EXCEPT !.at = "set", !.seen = {}, !.found = e.name]
    <3>3. /\ new \in ReaderState /\ new.at = "set" /\ new.who = reader[r].who
          /\ new.todo = reader[r].todo /\ new.best = reader[r].best
          /\ new.file = reader[r].file /\ new.found = e.name
      BY <3>2 DEF ReaderState
    <3>4. ReaderOK(new)
      BY <2>3, <3>2, <3>3 DEF ReaderOK, FetchIndex
    <3> QED
      BY <1>2, <2>1, <2>3, <3>3, <3>4
  <2>4. ASSUME Skips(r) PROVE ReaderInv'
    <3> DEFINE new == [reader[r] EXCEPT !.at = "look", !.file = 0, !.seen = {},
                                        !.todo = @ \ {reader[r].file}]
    <3>1. /\ new \in ReaderState /\ new.at = "look" /\ new.who = reader[r].who
          /\ new.todo \subseteq reader[r].todo /\ new.best = reader[r].best
      BY DEF ReaderState
    <3>2. ReaderOK(new)
      BY <3>1 DEF ReaderOK
    <3> QED
      BY <1>2, <2>1, <2>4, <3>1, <3>2 DEF Skips
  <2> QED
    BY <1>5, <2>2, <2>3, <2>4 DEF FetchIndex, ReadFails
<1>6. ASSUME NEW r \in Readers, SetCache(r) PROVE ReaderInv'
  <2> reader[r] \in ReaderState /\ ReaderOK(reader[r]) /\ reader[r].at = "set"
    BY <1>6 DEF SetCache, ReaderInv, TypeOK
  <2>1. PICK b \in Better(reader[r].best, reader[r].found) :
          Becomes(r, [reader[r] EXCEPT !.at = "look", !.best = b, !.file = 0, !.found = NoName,
                                       !.todo = @ \ {reader[r].file}])
    BY <1>6 DEF SetCache
  <2>2. b \in Names /\ <<reader[r].who, b>> \in given
    BY DEF Better, ReaderOK, ReaderState
  <2> DEFINE new == [reader[r] EXCEPT !.at = "look", !.best = b, !.file = 0, !.found = NoName,
                                      !.todo = @ \ {reader[r].file}]
  <2>3. /\ new \in ReaderState /\ new.at = "look" /\ new.who = reader[r].who
        /\ new.todo \subseteq reader[r].todo /\ new.best = b
    BY <2>2 DEF ReaderState
  <2>4. ReaderOK(new)
    BY <2>2, <2>3 DEF ReaderOK
  <2> QED
    BY <1>2, <1>6, <2>1, <2>3, <2>4 DEF SetCache, flash, history
<1>7. ASSUME NEW r \in Readers, Report(r) PROVE ReaderInv'
  <2>1. Away \in ReaderState /\ ReaderOK(Away)
    BY DEF Away, ReaderState, ReaderOK
  <2> QED
    BY <1>2, <1>7, <2>1 DEF Report, flash, history
<1>8. CASE PowerCut
  BY <1>8 DEF PowerCut, Away, ReaderInv, ReaderOK
<1> QED
  BY <1>1, <1>3, <1>4, <1>5, <1>6, <1>7, <1>8 DEF Next, vars, OnRecog, OnOwner, WriteEmb,
     OpenFails, OpenIndex, FlushIndex, CloseIndex, FlashFull, CacheOwner

\* A rewriting marks the readers that are under way, and each that starts
\* before it ends.
LEMMA KnownStep == IInv /\ [Next]_vars => KnownInv'
<1> SUFFICES ASSUME IInv, [Next]_vars PROVE KnownInv'
  OBVIOUS
<1> TypeOK /\ AgentInv /\ IndexInv /\ ReaderInv /\ KnownInv
  BY DEF IInv
<1>1. \A e \in index : e \in Entry /\ e.id \in Ids
  BY DEF TypeOK, Entry
<1>2. ASSUME UNCHANGED <<files, index, crossed, reader>>, agent'.at = "write" => agent.at = "write"
      PROVE  KnownInv'
  BY <1>1, <1>2 DEF KnownInv, Unmissed
<1>17. CASE WriteEmb
  <2>1. /\ agent'.at = "open" /\ UNCHANGED <<index, crossed, reader>>
        /\ \A i \in Ids : i # agent.id => files'[i] = files[i]
    BY <1>17 DEF WriteEmb, TypeOK, AgentState, history
  <2>2. agent.at = "emb" /\ index \in versions
    BY <1>17 DEF WriteEmb, IndexInv
  <2>3. \A e \in index : files'[e.id] = files[e.id]
    BY <1>1, <2>1, <2>2 DEF IndexInv, Sound, SoundEntry
  <2> QED
    BY <2>1, <2>3 DEF KnownInv, Unmissed
<1>3. CASE OpenIndex
  <2>1. crossed' = Readers
    BY <1>3 DEF OpenIndex
  <2> QED
    BY <2>1 DEF KnownInv
<1>4. CASE FlushIndex \/ CloseIndex \/ FlashFull
  <2>1. agent.at = "write" /\ UNCHANGED <<crossed, reader>>
    BY <1>4 DEF FlushIndex, CloseIndex, FlashFull, history
  <2> QED
    BY <2>1 DEF KnownInv
<1>5. ASSUME NEW p \in People \cup {Nobody}, OnRecog(p) PROVE KnownInv'
  BY <1>2, <1>5 DEF OnRecog, flash
<1>6. ASSUME NEW n \in Names, OnOwner(n) PROVE KnownInv'
  <2>1. agent'.at = "emb"
    BY <1>6 DEF OnOwner, Idle
  <2> QED
    BY <1>2, <1>6, <2>1 DEF OnOwner, flash
<1>7. CASE OpenFails \/ CacheOwner
  <2>1. agent'.at # "write"
    BY <1>7 DEF OpenFails, CacheOwner, Idle
  <2> QED
    BY <1>2, <1>7, <2>1 DEF OpenFails, CacheOwner, flash, history
<1>8. ASSUME NEW r \in Readers, NEW p \in People, Compare(r, p) PROVE KnownInv'
  <2> DEFINE new == [Away EXCEPT !.at = "look", !.who = p, !.todo = {i \in Ids : files[i] = p}]
  <2>1. new.at = "look" /\ new.who = p /\ new.todo = {i \in Ids : files[i] = p}
    BY DEF Away
  <2>2. reader'[r] = new /\ \A t \in Readers : t # r => reader'[t] = reader[t]
    BY <1>8 DEF Compare, Becomes, TypeOK
  <2>3. /\ agent.at = "write" => r \in crossed'
        /\ \A t \in Readers : t # r => (t \in crossed' <=> t \in crossed)
        /\ UNCHANGED <<index, files, agent>>
    BY <1>8 DEF Compare, flash
  <2>4. Unmissed(new)
    BY <1>1, <2>1 DEF Unmissed, Entry
  <2> HIDE DEF new
  <2>5. reader'[r].at = "look" /\ (agent'.at = "write" => r \in crossed') /\ Unmissed(reader[r])'
    BY <2>1, <2>2, <2>3, <2>4 DEF Unmissed
  <2>6. ASSUME NEW t \in Readers, t # r, reader'[t].at # "away"
        PROVE  /\ agent'.at = "write" => t \in crossed'
               /\ t \notin crossed' => /\ Unmissed(reader[t])'
                                       /\ reader'[t].at = "fetch" => reader'[t].seen = index'
    BY <2>2, <2>3, <2>6 DEF KnownInv, Unmissed
  <2>7. ASSUME NEW t \in Readers, reader'[t].at # "away"
        PROVE  /\ agent'.at = "write" => t \in crossed'
               /\ t \notin crossed' => /\ Unmissed(reader[t])'
                                       /\ reader'[t].at = "fetch" => reader'[t].seen = index'
    <3>1. CASE t = r
      BY <2>5, <3>1 DEF Unmissed
    <3> QED
      BY <2>6, <2>7, <3>1
  <2> QED
    BY <2>7 DEF KnownInv, Unmissed
<1>9. ASSUME NEW r \in Readers, NEW state, Becomes(r, state), reader[r].at # "away",
             state.at # "away" /\ r \notin crossed /\ Unmissed(reader[r])
               => Unmissed(state) /\ (state.at = "fetch" => state.seen = index),
             UNCHANGED <<index, files, agent, crossed>>
      PROVE  KnownInv'
  <2>1. reader'[r] = state /\ \A t \in Readers : t # r => reader'[t] = reader[t]
    BY <1>9 DEF Becomes, TypeOK
  <2> QED
    BY <1>9, <2>1 DEF KnownInv, Unmissed
<1>10. ASSUME NEW r \in Readers, LookCache(r) PROVE KnownInv'
  <2> reader[r] \in ReaderState /\ reader[r].at = "look"
    BY <1>10 DEF LookCache, TypeOK
  <2>1. ASSUME NEW i \in Ids, NEW b \in Names
        PROVE  /\ Unmissed([reader[r] EXCEPT !.todo = @ \ {i}, !.best = b])
               /\ [reader[r] EXCEPT !.todo = @ \ {i}, !.best = b].at = "look"
    BY EnrollAssumption DEF Unmissed, ReaderState
  <2>2. ASSUME NEW i \in Ids, Unmissed(reader[r])
        PROVE  /\ Unmissed([reader[r] EXCEPT !.at = "read", !.file = i])
               /\ [reader[r] EXCEPT !.at = "read", !.file = i].at = "read"
    BY <2>2 DEF Unmissed, ReaderState
  <2>3. /\ UNCHANGED <<index, files, agent, crossed>>
        /\ \E i \in Ids :
             \/ \E b \in Names : Becomes(r, [reader[r] EXCEPT !.todo = @ \ {i}, !.best = b])
             \/ Becomes(r, [reader[r] EXCEPT !.at = "read", !.file = i])
    BY <1>10 DEF LookCache, ReaderState, flash, history
  <2> QED
    BY <1>9, <2>1, <2>2, <2>3
<1>11. ASSUME NEW r \in Readers, Measure(r) \/ FetchIndex(r) PROVE KnownInv'
  <2> reader[r] \in ReaderState /\ reader[r].at # "away"
    BY <1>11 DEF Measure, FetchIndex, TypeOK
  <2> UNCHANGED <<index, files, agent, crossed>>
    BY <1>11 DEF Measure, FetchIndex, flash, history
  <2>1. CASE Measure(r)
    <3> DEFINE new == [reader[r] EXCEPT !.at = "fetch", !.seen = index]
    <3>1. new.seen = index /\ (Unmissed(reader[r]) => Unmissed(new))
      BY DEF Unmissed, ReaderState
    <3> QED
      BY <1>9, <2>1, <3>1 DEF Measure
  <2>2. ASSUME NEW n \in Names,
               Becomes(r, [reader[r] EXCEPT !.at = "set", !.seen = {}, !.found = n])
        PROVE  KnownInv'
    <3> DEFINE new == [reader[r] EXCEPT !.at = "set", !.seen = {}, !.found = n]
    <3>1. new.at = "set" /\ (Unmissed(reader[r]) => Unmissed(new))
      BY DEF Unmissed, ReaderState
    <3> QED
      BY <1>9, <2>2, <3>1
  <2>3. ASSUME NEW got \in Fetched(r), \A e \in got : e.id # reader[r].file, Skips(r),
               reader[r].at = "fetch"
        PROVE  KnownInv'
    <3> DEFINE new == [reader[r] EXCEPT !.at = "look", !.file = 0, !.seen = {},
                                        !.todo = @ \ {reader[r].file}]
    <3>1. new.at = "look"
      BY DEF ReaderState
    <3>2. ASSUME r \notin crossed, Unmissed(reader[r]) PROVE Unmissed(new)
      <4>1. got = index
        BY <3>2, <2>3, FetchedEntries DEF KnownInv
      <4> QED
        BY <2>3, <3>2, <4>1 DEF Unmissed, ReaderState
    <3> QED
      BY <1>9, <2>3, <3>1, <3>2 DEF Skips
  <2>4. CASE FetchIndex(r)
    <3>1. PICK got \in Fetched(r) :
            \/ \E e \in got :
                 Becomes(r, [reader[r] EXCEPT !.at = "set", !.seen = {}, !.found = e.name])
            \/ (\A e \in got : e.id # reader[r].file) /\ Skips(r)
      BY <2>4 DEF FetchIndex
    <3>2. \A e \in got : e.name \in Names
      BY <3>1, FetchedEntries DEF Entry
    <3> QED
      BY <2>2, <2>3, <2>4, <3>1, <3>2 DEF FetchIndex
  <2> QED
    BY <1>11, <2>1, <2>4
<1>16. ASSUME NEW r \in Readers, ReadFails(r) PROVE KnownInv'
  <2>1. /\ \A t \in Readers : t # r => reader'[t] = reader[t]
        /\ \A t \in Readers : t # r => (t \in crossed' <=> t \in crossed)
        /\ r \in crossed' /\ UNCHANGED <<index, files, agent>>
    BY <1>16 DEF ReadFails, Skips, Becomes, TypeOK, flash
  <2> QED
    BY <2>1 DEF KnownInv, Unmissed
<1>12. ASSUME NEW r \in Readers, SetCache(r) PROVE KnownInv'
  <2> reader[r] \in ReaderState /\ reader[r].at = "set"
    BY <1>12 DEF SetCache, TypeOK
  <2>1. PICK b \in Better(reader[r].best, reader[r].found) :
          Becomes(r, [reader[r] EXCEPT !.at = "look", !.best = b, !.file = 0, !.found = NoName,
                                       !.todo = @ \ {reader[r].file}])
    BY <1>12 DEF SetCache
  <2>2. b # NoName
    BY EnrollAssumption DEF Better, ReaderInv, ReaderOK
  <2> DEFINE new == [reader[r] EXCEPT !.at = "look", !.best = b, !.file = 0, !.found = NoName,
                                      !.todo = @ \ {reader[r].file}]
  <2>3. Unmissed(new) /\ new.at = "look"
    BY <2>2 DEF Unmissed, ReaderState
  <2> QED
    BY <1>9, <1>12, <2>1, <2>3 DEF SetCache, flash, history
<1>13. ASSUME NEW r \in Readers, Report(r) PROVE KnownInv'
  <2>1. Away.at = "away" /\ reader[r].at # "away"
    BY <1>13 DEF Away, Report, Named
  <2> QED
    BY <1>9, <1>13, <2>1 DEF Report, flash, history
<1>14. CASE PowerCut
  BY <1>14 DEF PowerCut, Away, KnownInv
<1>15. CASE UNCHANGED vars
  BY <1>2, <1>15 DEF vars, flash, history
<1> QED
  BY <1>3, <1>4, <1>5, <1>6, <1>7, <1>8, <1>10, <1>11, <1>12, <1>13, <1>14,
     <1>15, <1>16, <1>17 DEF Next

-----------------------------------------------------------------------------
THEOREM Invariance == Spec => []IInv
<1>1. IInv /\ [Next]_vars => IInv'
  BY TypeStep, AgentStep, IndexStep, CacheStep, ReaderStep, KnownStep DEF IInv
<1> QED
  BY InitIInv, <1>1, PTL DEF Spec

\* The types of the state.
THEOREM TypeCorrect == Spec => []TypeOK
BY Invariance, PTL DEF IInv

\* Nobody is greeted by a name that was not given to the own face, however many
\* names, readers, cache slots, restarts and failed writes there are.
THEOREM NobodyIsMistaken == Spec => []NamesAreGiven
<1>1. IInv => NamesAreGiven
  BY DEF IInv, ReaderInv, ReaderOK, NamesAreGiven
<1> QED
  BY Invariance, <1>1, PTL

\* Whoever is in the index is known, but for lookups that meet a rewriting.
THEOREM OwnersAreKnown == Spec => []EnrolledAreKnown
<1>1. IInv => EnrolledAreKnown
  BY DEF IInv, KnownInv, Unmissed, EnrolledAreKnown, Named
<1> QED
  BY Invariance, <1>1, PTL

-----------------------------------------------------------------------------
\* The directory that entries make when the files are f.
FacesIn(f, entries) ==
  [n \in Names |-> {f[e.id] : e \in {x \in entries : x.name = n}} \ {Nobody}]

Thinner(new, old) ==
  \E kept \in SUBSET Names : new = [n \in Names |-> IF n \in kept THEN old[n] ELSE {}]

\* Some of the entries of a version, of which some files may be empty now, make
\* its directory without some of its names.
LEMMA ThinnedFaces ==
  ASSUME NEW f, NEW g, NEW v \in SUBSET Entry, NEW part \in SUBSET v, OnePerName(v),
         \A e \in v : g[e.id] \in {f[e.id], Nobody}
  PROVE  Thinner(FacesIn(g, part), FacesIn(f, v))
<1> DEFINE kept == {n \in Names : \E e \in part : e.name = n /\ g[e.id] # Nobody}
<1> DEFINE faces(h, entries, n) == {h[e.id] : e \in {x \in entries : x.name = n}} \ {Nobody}
<1>1. ASSUME NEW n \in kept PROVE faces(g, part, n) = faces(f, v, n)
  <2>1. PICK e \in part : e.name = n /\ g[e.id] # Nobody
    OBVIOUS
  <2>2. {x \in part : x.name = n} = {e} /\ {x \in v : x.name = n} = {e}
    BY <2>1 DEF OnePerName
  <2>3. g[e.id] = f[e.id]
    BY <2>1
  <2> QED
    BY <2>2, <2>3
<1>2. ASSUME NEW n \in Names, n \notin kept PROVE faces(g, part, n) = {}
  BY <1>2
<1>3. \A n \in Names : FacesIn(g, part)[n] = faces(g, part, n) /\ FacesIn(f, v)[n] = faces(f, v, n)
  BY DEF FacesIn
<1>4. FacesIn(g, part) = [n \in Names |-> FacesIn(g, part)[n]]
  BY DEF FacesIn
<1> HIDE DEF faces, kept
<1>5. \A n \in Names : FacesIn(g, part)[n] = IF n \in kept THEN FacesIn(f, v)[n] ELSE {}
  BY <1>1, <1>2, <1>3
<1>6. kept \in SUBSET Names
  BY DEF kept
<1> QED
  BY <1>4, <1>5, <1>6 DEF Thinner

\* The file of an entry stays what it is.
LEMMA EntryFilesKept ==
  ASSUME IInv, [Next]_vars, ~PowerCut, NEW e \in Entry, SoundEntry(e)
  PROVE  files'[e.id] = files[e.id]
<1> e.id \in Ids
  BY DEF Entry
<1>1. CASE WriteEmb
  BY <1>1 DEF WriteEmb, SoundEntry, IInv, TypeOK
<1>2. ASSUME NEW n \in Names, OnOwner(n) PROVE files' = files
  BY <1>2 DEF OnOwner, flash
<1>3. CASE Reading
  BY <1>3, ReadingOnlyReads DEF flash
<1>4. ASSUME NEW p \in People \cup {Nobody}, OnRecog(p) PROVE files' = files
  BY <1>4 DEF OnRecog, flash
<1> QED
  BY <1>1, <1>2, <1>3, <1>4 DEF Next, Reading, vars, flash, OpenFails, OpenIndex,
     FlushIndex, CloseIndex, FlashFull, CacheOwner

LEMMA FacesKept ==
  ASSUME IInv, [Next]_vars, ~PowerCut, NEW v \in SUBSET Entry, \A e \in v : SoundEntry(e)
  PROVE  FacesIn(files', v) = FacesIn(files, v)
<1>1. \A e \in v : files'[e.id] = files[e.id]
  BY EntryFilesKept
<1>2. \A n \in Names : {files'[e.id] : e \in {x \in v : x.name = n}}
                       = {files[e.id] : e \in {x \in v : x.name = n}}
  BY <1>1
<1> QED
  BY <1>2 DEF FacesIn

\* The entries that count, and the versions there have been.
LEMMA BookInv ==
  ASSUME IInv
  PROVE  /\ Book \in SUBSET Entry /\ Sound(Book)
         /\ \A v \in versions : v \in SUBSET Entry /\ Sound(v)
<1> TypeOK /\ IndexInv
  BY DEF IInv
<1>1. \A v \in versions : v \in SUBSET Entry /\ Sound(v)
  BY DEF TypeOK, IndexInv
<1>2. PICK v \in versions : Book \subseteq v
  BY DEF Book, IndexInv
<1> QED
  BY <1>1, <1>2 DEF Sound, OnePerName

\* The faces of the complete index are those of the old one but for the owner's,
\* which is the enrolled one, or nobody's if that was not stored.
LEMMA UpsertedFaces ==
  ASSUME IInv, agent.at = "write"
  PROVE  FacesIn(files, Upserted)
           = [FacesIn(files, agent.old) EXCEPT ![agent.name] = {files[agent.id]} \ {Nobody}]
<1> DEFINE faces(entries, n) == {files[e.id] : e \in {x \in entries : x.name = n}}
<1> DEFINE new == [id |-> agent.id, name |-> agent.name]
<1>1. faces(Upserted, agent.name) = {files[agent.id]}
  <2>1. {x \in Upserted : x.name = agent.name} = {new}
    BY DEF Upserted
  <2>2. new.id = agent.id
    OBVIOUS
  <2> QED
    BY <2>1, <2>2
<1>2. ASSUME NEW n \in Names, n # agent.name PROVE faces(Upserted, n) = faces(agent.old, n)
  <2>1. {x \in Upserted : x.name = n} = {x \in agent.old : x.name = n}
    BY <1>2 DEF Upserted
  <2> QED
    BY <2>1
<1> QED
  BY <1>1, <1>2 DEF FacesIn

\* Every step enrols, gives up, is a fault or leaves the directory alone.
LEMMA DirectoryStep ==
  IInv /\ [Next]_vars => [Directory!DNext]_(Directory!dvars)
<1> SUFFICES ASSUME IInv, [Next]_vars PROVE [Directory!DNext]_(Directory!dvars)
  OBVIOUS
<1> DEFINE dir == FacesIn(files, Book)
           past == {FacesIn(files, v) : v \in versions}
           vain == agent.at \in {"open", "write"} /\ files[agent.id] = Nobody
<1>a. /\ FacesOf(Book) = dir /\ FacesOf(Book)' = dir'
      /\ {FacesOf(v) : v \in versions} = past /\ {FacesOf(v) : v \in versions}' = past'
  BY DEF FacesOf, FacesIn
<1>b. /\ TypeOK /\ AgentInv /\ IndexInv /\ agent \in AgentState
      /\ Book \in SUBSET Entry /\ Sound(Book)
      /\ \A v \in versions : v \in SUBSET Entry /\ Sound(v)
  BY BookInv DEF IInv, TypeOK
<1>c. ASSUME ~PowerCut
      PROVE  /\ FacesIn(files', Book) = dir
             /\ \A v \in versions : FacesIn(files', v) = FacesIn(files, v)
  BY <1>b, <1>c, FacesKept DEF Sound
<1>d. ASSUME ~PowerCut, UNCHANGED versions PROVE past' = past
  BY <1>c, <1>d
<1>e. ASSUME ~PowerCut, UNCHANGED Book PROVE dir' = dir
  BY <1>c, <1>e
<1>f. ASSUME UNCHANGED <<dir, past, faults>>, vain' = vain \/ ~vain'
      PROVE  [Directory!DNext]_(Directory!dvars)
  BY <1>a, <1>f DEF Directory!DNext, Directory!dvars, Directory!GiveUp
<1> HIDE DEF dir, past
<1>1. CASE PowerCut
  <2>1. /\ agent'.at = "idle" /\ versions' = {index'} /\ Book' = index'
        /\ faults' = faults + 1
    BY <1>1 DEF PowerCut, Idle, Book
  <2>2. PICK v \in versions : index' \subseteq v
    BY <1>1, IndexOfAVersion DEF PowerCut, Before
  <2>3. \A e \in v : files'[e.id] \in {files[e.id], Nobody}
    BY <1>b, <1>1, FilesKept DEF Entry
  <2>4. Thinner(FacesIn(files', index'), FacesIn(files, v))
    BY <1>b, <2>2, <2>3, ThinnedFaces DEF Sound
  <2>5. dir' = FacesIn(files', index') /\ past' = {dir'} /\ FacesIn(files, v) \in past
    BY <2>1, <2>2 DEF dir, past
  <2>6. Directory!PowerIsCut
    BY <1>a, <2>1, <2>4, <2>5
       DEF Thinner, Directory!PowerIsCut, Directory!Fault, Directory!Thins
  <2> QED
    BY <2>6 DEF Directory!DNext
<1>2. CASE CloseIndex
  <2>1. /\ agent.at = "write" /\ agent'.at = "cache" /\ index' = Upserted
        /\ versions' = versions \cup {Upserted} /\ UNCHANGED <<files, faults>>
        /\ Book = agent.old /\ Book' = Upserted
    BY <1>2, <1>b DEF CloseIndex, AgentState, Book
  <2>2. agent.name \in Names /\ agent.face \in People /\ files[agent.id] \in {agent.face, Nobody}
    BY <1>b, <2>1 DEF AgentInv
  <2>3. /\ dir' = [dir EXCEPT ![agent.name] = {files[agent.id]} \ {Nobody}]
        /\ past' = past \cup {dir'}
    <3>1. dir' = FacesIn(files, Upserted) /\ past' = past \cup {FacesIn(files, Upserted)}
      BY <2>1 DEF dir, past
    <3> QED
      BY <2>1, <3>1, UpsertedFaces DEF dir
  <2>4. ~vain'
    BY <2>1
  <2>5. CASE vain
    <3>1. Directory!EnrolInVain(agent.name)
      BY <1>a, <2>1, <2>3, <2>4, <2>5 DEF Directory!EnrolInVain
    <3> QED
      BY <2>2, <3>1 DEF Directory!DNext
  <2>6. CASE ~vain
    <3>1. {files[agent.id]} \ {Nobody} = {agent.face}
      BY <2>1, <2>2, <2>6, EnrollAssumption
    <3>2. Directory!Enrol(agent.name, agent.face)
      BY <1>a, <2>1, <2>3, <2>4, <2>6, <3>1 DEF Directory!Enrol
    <3> QED
      BY <2>2, <3>2 DEF Directory!DNext
  <2> QED
    BY <2>5, <2>6
<1>3. CASE FlashFull
  <2>1. /\ agent.at = "write" /\ agent'.at = "cache" /\ faults' = faults + 1
        /\ versions' = versions \cup {index} /\ UNCHANGED <<files, index>>
        /\ Book = agent.old /\ Book' = index
    BY <1>3, <1>b DEF FlashFull, AgentState, Book
  <2>2. index \subseteq Book
    BY <1>b, <2>1 DEF IndexInv
  <2>3. Thinner(FacesIn(files, index), dir)
    BY <1>b, <2>2, ThinnedFaces DEF Sound, dir
  <2>4. dir' = FacesIn(files, index) /\ past' = past \cup {dir'} /\ ~vain'
    BY <2>1 DEF dir, past
  <2>5. Directory!FlashIsFull
    BY <1>a, <2>1, <2>3, <2>4
       DEF Thinner, Directory!FlashIsFull, Directory!Fault, Directory!Thins
  <2> QED
    BY <2>5 DEF Directory!DNext
<1>4. CASE OpenIndex
  <2>1. /\ agent.at = "open" /\ agent'.at = "write" /\ agent'.id = agent.id
        /\ UNCHANGED <<files, versions>> /\ Book = index /\ Book' = agent'.old
    BY <1>4, <1>b DEF OpenIndex, AgentState, Book
  <2>2. past' = past /\ vain' = vain
    BY <2>1 DEF past
  <2>3. CASE agent'.old = index /\ UNCHANGED faults
    <3>1. dir' = dir
      BY <2>1, <2>3 DEF dir
    <3> QED
      BY <1>f, <2>2, <2>3, <3>1
  <2>4. CASE agent'.old \in SUBSET index /\ faults' = faults + 1
    <3>1. Thinner(FacesIn(files, agent'.old), dir)
      BY <1>b, <2>1, <2>4, ThinnedFaces DEF Sound, dir
    <3>2. dir' = FacesIn(files, agent'.old)
      BY <2>1 DEF dir
    <3>3. Directory!ReadFails
      BY <1>a, <2>2, <2>4, <3>1, <3>2
         DEF Thinner, Directory!ReadFails, Directory!Fault, Directory!Thins
    <3> QED
      BY <3>3 DEF Directory!DNext
  <2> QED
    BY <1>4, <1>b, <2>3, <2>4 DEF OpenIndex, AgentState
<1>5. CASE WriteEmb
  <2>1. /\ agent.at = "emb" /\ agent'.at = "open" /\ agent'.id = agent.id
        /\ files[agent.id] = Nobody /\ agent.face # Nobody /\ agent.id \in Ids
        /\ UNCHANGED versions /\ Book' = Book
    BY <1>5, <1>b, EnrollAssumption DEF WriteEmb, AgentState, AgentInv, Book
  <2>2. dir' = dir /\ past' = past
    BY <1>d, <1>e, <2>1, <1>5 DEF PowerCut, WriteEmb, Idle
  <2>3. CASE files'[agent.id] = agent.face /\ UNCHANGED faults
    BY <1>f, <2>1, <2>2, <2>3
  <2>4. CASE UNCHANGED files /\ faults' = faults + 1
    <3>1. vain'
      BY <2>1, <2>4
    <3>2. Directory!FaceIsLost
      BY <1>a, <2>2, <2>4, <3>1 DEF Directory!FaceIsLost, Directory!Fault
    <3> QED
      BY <3>2 DEF Directory!DNext
  <2> QED
    BY <1>5, <1>b, <2>1, <2>3, <2>4 DEF WriteEmb, TypeOK
<1>6. CASE OpenFails \/ CacheOwner
  <2>1. /\ agent.at # "write" /\ agent'.at = "idle"
        /\ UNCHANGED <<files, index, versions, faults>>
    BY <1>6 DEF OpenFails, CacheOwner, Idle, flash
  <2> QED
    BY <1>f, <2>1 DEF dir, past, Book
<1>7. ASSUME NEW n \in Names, OnOwner(n) PROVE [Directory!DNext]_(Directory!dvars)
  <2>1. /\ agent.at = "idle" /\ agent'.at = "emb"
        /\ UNCHANGED <<files, index, versions, faults>>
    BY <1>7 DEF OnOwner, Idle, flash
  <2> QED
    BY <1>f, <2>1 DEF dir, past, Book
<1>8. ASSUME UNCHANGED <<files, agent, versions, faults>>, agent.at = "write" \/ UNCHANGED index
      PROVE  [Directory!DNext]_(Directory!dvars)
  <2>1. UNCHANGED Book
    BY <1>8 DEF Book
  <2> QED
    BY <1>f, <1>8, <2>1 DEF dir, past
<1>9. CASE FlushIndex
  BY <1>8, <1>9 DEF FlushIndex
<1>10. CASE Reading
  BY <1>8, <1>10, ReadingOnlyReads DEF flash
<1>11. ASSUME NEW p \in People \cup {Nobody}, OnRecog(p) PROVE [Directory!DNext]_(Directory!dvars)
  BY <1>8, <1>11 DEF OnRecog, flash
<1>12. CASE UNCHANGED vars
  BY <1>8, <1>12 DEF vars, flash
<1> QED
  BY <1>1, <1>2, <1>3, <1>4, <1>5, <1>6, <1>7, <1>9, <1>10, <1>11, <1>12 DEF Next, Reading

\* The enrolment implements the directory, whichever write, read or power
\* fails when.
THEOREM EnrolmentIsADirectory == Spec => ImplementsDirectory
<1>1. Init => Directory!DInit
  BY DEF Init, Idle, Book, Directory!DInit, FacesOf
<1> QED
  BY <1>1, Invariance, DirectoryStep, PTL DEF Spec, ImplementsDirectory, Directory!DSpec
=============================================================================
