------------------------ MODULE ManifestCacheProofs ------------------------
(***************************************************************************)
(* When the cache may be believed, for any number of hosts and paths.      *)
(***************************************************************************)
EXTENDS ManifestCache, TLAPS

\* Replaced executables are told apart by their fingerprints, and none is
\* replaced between printing its manifest and the fingerprint being taken.
Quiet == ~ReplaceWhileRead /\ ~SameStamp

\* With fingerprints that tell versions apart an entry is honest when it is
\* of the version its fingerprint belongs to.
Honest(e) == e = Missing \/ e.version = e.stamp
HonestMap(m) == \A p \in Path : Honest(m[p])

CacheInv ==
    /\ TypeOK
    /\ \A p \in Path : exe[p].version = exe[p].stamp
    /\ \A h \in Host : step[h] \in {"run", "insert"} => at[h] \in Path
    /\ \A h \in Host : step[h] = "insert" => printed[h] = exe[at[h]].version
    /\ \A h \in Host : HonestMap(entries[h]) /\ HonestMap(snap[h])
    /\ HonestMap(disk.map) /\ HonestMap(tmp.map)

\* The empty map and the files that hold it.
LEMMA EmptyMaps ==
    /\ NoEntries \in Entries /\ HonestMap(NoEntries)
    /\ Absent \in File /\ Truncated \in File /\ Garbage \in File
    /\ Absent.map = NoEntries /\ Truncated.map = NoEntries /\ Garbage.map = NoEntries
BY DEF NoEntries, Entries, HonestMap, Honest, Absent, Truncated, Garbage, File

\* A file written over holds the writer's map, or none that parses.
LEMMA WrittenOverHonest ==
    ASSUME NEW f \in File, NEW m \in Entries, HonestMap(m), NEW g \in WrittenOver(f, m)
    PROVE  g \in File /\ HonestMap(g.map)
<1>1. Whole(m) \in File /\ Whole(m).map = m
  BY DEF Whole, File
<1> QED BY <1>1, EmptyMaps DEF WrittenOver

LEMMA CacheInit == Init => CacheInv
<1> SUFFICES ASSUME Init PROVE CacheInv
  OBVIOUS
<1>1. disk \in File /\ tmp \in File /\ failed \in BOOLEAN
  BY EmptyMaps DEF Init
<1>2. exe \in [Path -> Entry]
  BY CacheAssumption DEF Init, Entry, Version
<1>3. /\ entries \in [Host -> Entries] /\ snap \in [Host -> Entries]
      /\ at \in [Host -> Path \cup {NoPath}]
  BY EmptyMaps DEF Init
<1>4. TypeOK
  BY CacheAssumption, <1>1, <1>2, <1>3 DEF Init, TypeOK, Step
<1> QED BY <1>4, EmptyMaps DEF Init, CacheInv

LEMMA CacheStep ==
    ASSUME Quiet
    PROVE  CacheInv /\ [Next]_vars => CacheInv'
<1> SUFFICES ASSUME CacheInv, [Next]_vars PROVE CacheInv'
  OBVIOUS
<1> USE CacheAssumption DEF CacheInv
<1>1. ASSUME NEW h \in Host, Load(h) PROVE CacheInv'
  <2>1. disk.map \in Entries
    BY DEF TypeOK, File
  <2>2. TypeOK'
    BY <1>1, <2>1 DEF Load, Goto, TypeOK, Step
  <2>3. \A g \in Host : HonestMap(entries'[g]) /\ HonestMap(snap'[g])
    BY <1>1 DEF Load, TypeOK
  <2> QED BY <1>1, <2>2, <2>3 DEF Load, Goto, TypeOK
<1>2. ASSUME NEW h \in Host, NEW p \in Path, InspectMiss(h, p) PROVE CacheInv'
  <2>1. TypeOK'
    BY <1>2 DEF InspectMiss, Goto, TypeOK, Step
  <2>2. \A g \in Host : step'[g] = "insert" => g # h
    BY <1>2 DEF InspectMiss, Goto, TypeOK
  <2> QED BY <1>2, <2>1, <2>2 DEF InspectMiss, Goto, TypeOK
<1>3. ASSUME NEW h \in Host, NEW p \in Path, InspectMismatch(h, p) PROVE CacheInv'
  <2>1. TypeOK'
    BY <1>3 DEF InspectMismatch, Goto, TypeOK, Step, Entries
  <2>2. \A g \in Host : HonestMap(entries'[g])
    BY <1>3 DEF InspectMismatch, TypeOK, Entries, HonestMap, Honest
  <2> QED BY <1>3, <2>1, <2>2 DEF InspectMismatch, Goto, TypeOK
<1>4. ASSUME NEW h \in Host, RunManifest(h) PROVE CacheInv'
  <2>1. exe[at[h]].version \in 0 .. MaxVersion
    BY <1>4 DEF RunManifest, TypeOK, Entry, Version
  <2>2. TypeOK'
    BY <1>4, <2>1 DEF RunManifest, Goto, TypeOK, Step
  <2> QED BY <1>4, <2>2 DEF RunManifest, Goto, TypeOK
<1>5. ASSUME NEW h \in Host, RunFails(h) PROVE CacheInv'
  <2>1. TypeOK'
    BY <1>5 DEF RunFails, Goto, TypeOK, Step
  <2> QED BY <1>5, <2>1 DEF RunFails, Goto, TypeOK
<1>6. ASSUME NEW h \in Host, Insert(h) PROVE CacheInv'
  <2> DEFINE e == [version |-> printed[h], stamp |-> exe[at[h]].stamp]
  <2>1. e \in Entry /\ e.version = e.stamp
    BY <1>6 DEF Insert, TypeOK, Entry, Version
  <2>2. TypeOK'
    BY <1>6, <2>1 DEF Insert, Goto, TypeOK, Step, Entries
  <2>3. \A g \in Host : HonestMap(entries'[g])
    BY <1>6, <2>1 DEF Insert, TypeOK, Entries, HonestMap, Honest
  <2> QED BY <1>6, <2>2, <2>3 DEF Insert, Goto, TypeOK
<1>7. ASSUME NEW h \in Host, Clear(h) PROVE CacheInv'
  <2>1. TypeOK'
    BY <1>7, EmptyMaps DEF Clear, Goto, TypeOK, Step
  <2> QED BY <1>7, <2>1, EmptyMaps DEF Clear, Goto, TypeOK
<1>8. ASSUME NEW h \in Host, Snapshot(h) PROVE CacheInv'
  <2>1. TypeOK'
    BY <1>8 DEF Snapshot, Goto, TypeOK, Step
  <2> QED BY <1>8, <2>1 DEF Snapshot, Goto, TypeOK
<1>9. ASSUME NEW h \in Host, Create(h) PROVE CacheInv'
  <2>1. TypeOK'
    BY <1>9, EmptyMaps DEF Create, CreateFile, Goto, TypeOK, Step
  <2> QED BY <1>9, <2>1, EmptyMaps DEF Create, CreateFile, Goto, TypeOK
<1>10. ASSUME NEW h \in Host, Write(h) PROVE CacheInv'
  <2>1. snap[h] \in Entries /\ HonestMap(snap[h]) /\ disk \in File /\ tmp \in File
    BY DEF TypeOK
  <2>2. disk' \in File /\ HonestMap(disk'.map)
    BY <1>10, <2>1, WrittenOverHonest DEF Write
  <2>3. tmp' \in File /\ HonestMap(tmp'.map)
    BY <1>10, <2>1, WrittenOverHonest DEF Write
  <2>4. TypeOK'
    BY <1>10, <2>2, <2>3, EmptyMaps DEF Write, Goto, TypeOK, Step
  <2> QED BY <1>10, <2>2, <2>3, <2>4, EmptyMaps DEF Write, Goto, TypeOK
<1>11. ASSUME NEW h \in Host, Rename(h) PROVE CacheInv'
  <2>1. disk' \in File /\ HonestMap(disk'.map) /\ tmp' \in File /\ HonestMap(tmp'.map)
    BY <1>11, EmptyMaps DEF Rename, Renamed, RenameFails, TypeOK
  <2>2. fd' \in [Host -> {"none", "tmp", "disk", "unlinked"}]
    BY <1>11 DEF Rename, Renamed, RenameFails, TypeOK
  <2>3. TypeOK'
    BY <1>11, <2>1, <2>2 DEF Rename, RenameFails, Goto, TypeOK, Step
  <2> QED BY <1>11, <2>1, <2>3 DEF Rename, RenameFails, Goto, TypeOK
<1>12. ASSUME NEW h \in Host, Remove(h) PROVE CacheInv'
  <2>1. disk' \in File /\ HonestMap(disk'.map) /\ tmp' \in File /\ HonestMap(tmp'.map)
    BY <1>12, EmptyMaps DEF Remove, TypeOK
  <2>2. fd' \in [Host -> {"none", "tmp", "disk", "unlinked"}]
    BY <1>12 DEF Remove, TypeOK
  <2>3. TypeOK'
    BY <1>12, <2>1, <2>2 DEF Remove, Goto, TypeOK, Step
  <2> QED BY <1>12, <2>1, <2>3 DEF Remove, Goto, TypeOK
<1>13. ASSUME NEW h \in Host, Retry(h) PROVE CacheInv'
  <2>1. disk' \in File /\ HonestMap(disk'.map) /\ tmp' \in File /\ HonestMap(tmp'.map)
    BY <1>13, EmptyMaps DEF Retry, Renamed, RenameFails, TypeOK
  <2>2. fd' \in [Host -> {"none", "tmp", "disk", "unlinked"}]
    BY <1>13 DEF Retry, Renamed, RenameFails, TypeOK
  <2>3. TypeOK'
    BY <1>13, <2>1, <2>2 DEF Retry, RenameFails, Goto, TypeOK, Step
  <2> QED BY <1>13, <2>1, <2>3 DEF Retry, RenameFails, Goto, TypeOK
<1>14. ASSUME NEW h \in Host, Crash(h) PROVE CacheInv'
  <2>1. TypeOK'
    BY <1>14, EmptyMaps DEF Crash, Goto, TypeOK, Step
  <2> QED BY <1>14, <2>1, EmptyMaps DEF Crash, Goto, TypeOK
<1>15. ASSUME NEW p \in Path, Replace(p) PROVE CacheInv'
  <2> DEFINE v == exe[p].version + 1
  <2>1. exe' = [exe EXCEPT ![p] = [version |-> v, stamp |-> v]]
    BY <1>15 DEF Replace, Quiet
  <2>2. [version |-> v, stamp |-> v] \in Entry
    BY <1>15 DEF Replace, TypeOK, Entry, Version
  <2>3. TypeOK'
    BY <1>15, <2>1, <2>2 DEF Replace, TypeOK
  <2>4. \A h \in Host : step[h] = "insert" => at[h] # p
    BY <1>15 DEF Replace, BeingInspected, Quiet
  <2> QED BY <1>15, <2>1, <2>3, <2>4 DEF Replace, TypeOK
<1>16. ASSUME NEW h \in Host, CreateFails(h) PROVE CacheInv'
  <2>1. TypeOK'
    BY <1>16, EmptyMaps DEF CreateFails, Goto, TypeOK, Step
  <2> QED BY <1>16, <2>1, EmptyMaps DEF CreateFails, Goto, TypeOK
<1>17. ASSUME NEW h \in Host, WriteFails(h) PROVE CacheInv'
  <2>1. disk' \in File /\ HonestMap(disk'.map) /\ tmp' \in File /\ HonestMap(tmp'.map)
    BY <1>17, EmptyMaps DEF WriteFails, TypeOK
  <2>2. TypeOK'
    BY <1>17, <2>1, EmptyMaps DEF WriteFails, Goto, TypeOK, Step
  <2> QED BY <1>17, <2>1, <2>2, EmptyMaps DEF WriteFails, Goto, TypeOK
<1>18. CASE UNCHANGED vars
  BY <1>18 DEF vars, TypeOK
<1> QED
  BY <1>1, <1>2, <1>3, <1>4, <1>5, <1>6, <1>7, <1>8, <1>9, <1>10, <1>11, <1>12, <1>13,
     <1>14, <1>15, <1>16, <1>17, <1>18
  DEF Next

\* As long as no executable is replaced between printing its manifest and
\* the fingerprint being taken, and replaced executables have other
\* fingerprints, no interleaving of hosts over the shared cache file and its
\* temporary file, and no crash of theirs, makes the cache answer with
\* anything but the manifest of the executable that is there.
THEOREM CacheTruthful == ASSUME Quiet PROVE Spec => []CacheTellsTruth
<1>1. CacheInv /\ [Next]_vars => CacheInv'
  BY CacheStep
<1>2. CacheInv => CacheTellsTruth
  <2> SUFFICES ASSUME CacheInv, NEW h \in Host, NEW p \in Path, Get(h, p) # Missing
               PROVE  Get(h, p).version = exe[p].version
    BY DEF CacheTellsTruth
  <2>1. Get(h, p) = entries[h][p] /\ entries[h][p].stamp = exe[p].stamp
    BY DEF Get, Fresh
  <2>2. Honest(entries[h][p]) /\ entries[h][p] # Missing
    BY <2>1 DEF CacheInv, HonestMap
  <2> QED BY <2>1, <2>2 DEF CacheInv, Honest
<1> QED BY <1>1, <1>2, CacheInit, PTL DEF Spec

(***************************************************************************)
(* A host alone.                                                           *)
(***************************************************************************)
Others(h) == \A g \in Host \ {h} : step[g] = "down"

\* The host writes into the temporary file it has emptied, renames it only when
\* it is whole, and removes the cache file only when that rename has failed of
\* itself; the temporary file is whole then, too.
Single(h) ==
    /\ step \in [Host -> Step]
    /\ fd \in [Host -> {"none", "tmp", "disk", "unlinked"}]
    /\ disk.kind \in {"whole", "none"}
    /\ step[h] = "write" => fd[h] = "tmp" /\ tmp.kind = "empty"
    /\ step[h] \in {"rename", "remove", "retry"} => tmp.kind = "whole"
    /\ step[h] \in {"remove", "retry"} => failed

\* What CacheFileSurvives says of a file that has been there.
Survives == disk.kind = "whole" \/ (disk.kind = "none" /\ failed)

\* Others that are down before and after a step have not taken it.
LEMMA OneActs ==
    ASSUME NEW h \in Host, Single(h), Others(h), Others(h)', Next
    PROVE  \/ Load(h) \/ RunManifest(h) \/ RunFails(h) \/ Insert(h) \/ Clear(h)
           \/ Snapshot(h) \/ Create(h) \/ CreateFails(h) \/ Write(h) \/ WriteFails(h)
           \/ Rename(h) \/ Remove(h) \/ Retry(h) \/ Crash(h)
           \/ \E p \in Path : InspectMiss(h, p) \/ InspectMismatch(h, p)
           \/ \E p \in Path : Replace(p)
  <1>1. ASSUME NEW g \in Host, g # h
        PROVE  /\ ~Load(g) /\ ~RunManifest(g) /\ ~RunFails(g) /\ ~Insert(g) /\ ~Clear(g)
               /\ ~Snapshot(g) /\ ~Create(g) /\ ~CreateFails(g) /\ ~Write(g)
               /\ ~WriteFails(g) /\ ~Rename(g) /\ ~Remove(g) /\ ~Retry(g) /\ ~Crash(g)
               /\ \A p \in Path : ~InspectMiss(g, p) /\ ~InspectMismatch(g, p)
    <2>1. step[g] = "down" /\ step'[g] = "down" /\ step \in [Host -> Step]
      BY <1>1 DEF Others, Single
    <2> QED
      BY <1>1, <2>1 DEF Load, RunManifest, RunFails, Insert, Clear, Snapshot, Create,
                        CreateFails, Write, WriteFails, Rename, Remove, Retry, Crash,
                        InspectMiss, InspectMismatch, Goto
  <1> QED
    BY <1>1 DEF Next

LEMMA SingleStep ==
    ASSUME NEW h \in Host, Single(h), Others(h), Others(h)', [Next]_vars
    PROVE  Single(h)' /\ (Survives => Survives')
  <1>0. step \in [Host -> Step] /\ fd \in [Host -> {"none", "tmp", "disk", "unlinked"}]
    BY DEF Single
  <1>1. CASE Load(h) \/ RunManifest(h) \/ RunFails(h) \/ Insert(h) \/ Clear(h) \/ Snapshot(h)
             \/ CreateFails(h) \/ \E p \in Path : InspectMiss(h, p) \/ InspectMismatch(h, p)
    <2>1. /\ UNCHANGED <<fd, disk, tmp, failed>>
          /\ \E s \in {"idle", "insert", "snapshot", "create", "run"} : Goto(h, s)
      BY <1>1 DEF Load, RunManifest, RunFails, Insert, Clear, Snapshot, CreateFails,
                  InspectMiss, InspectMismatch
    <2> QED
      BY <1>0, <2>1 DEF Single, Survives, Goto, Step
  <1>2. CASE Create(h)
    <2>1. /\ tmp'.kind = "empty" /\ fd' = [fd EXCEPT ![h] = "tmp"] /\ UNCHANGED <<disk, failed>>
          /\ step' = [step EXCEPT ![h] = "write"]
      BY <1>2 DEF Create, CreateFile, Truncated, Goto
    <2> QED
      BY <1>0, <2>1 DEF Single, Survives, Step
  <1>3. CASE Write(h)
    <2>1. /\ tmp' \in WrittenOver(tmp, snap[h]) /\ tmp.kind = "empty"
          /\ UNCHANGED <<disk, failed>>
          /\ fd' = [fd EXCEPT ![h] = "none"]
          /\ step' = [step EXCEPT ![h] = "rename"]
      BY <1>3 DEF Write, Single, Goto
    <2>2. tmp'.kind = "whole"
      BY <2>1 DEF WrittenOver, Whole
    <2> QED
      BY <1>0, <2>1, <2>2 DEF Single, Survives, Step
  <1>4. CASE WriteFails(h)
    <2>1. /\ UNCHANGED <<disk, failed>>
          /\ fd' = [fd EXCEPT ![h] = "none"]
          /\ step' = [step EXCEPT ![h] = "idle"]
      BY <1>4 DEF WriteFails, Single, Goto
    <2> QED
      BY <1>0, <2>1 DEF Single, Survives, Step
  <1>5. CASE Rename(h) \/ Retry(h)
    <2>1. tmp.kind = "whole"
      BY <1>5 DEF Rename, Retry, Single
    <2>2. CASE Renamed
      <3>1. /\ disk' = tmp /\ fd' \in [Host -> {"none", "tmp", "disk", "unlinked"}]
            /\ step' = [step EXCEPT ![h] = "idle"]
        BY <1>0, <1>5, <2>1, <2>2 DEF Renamed, Rename, Retry, RenameFails, Goto, Absent
      <3> QED
        BY <1>0, <2>1, <3>1 DEF Single, Survives, Step
    <2>3. CASE RenameFails
      <3>1. failed' = TRUE /\ UNCHANGED <<disk, tmp, fd>>
        BY <2>1, <2>3 DEF RenameFails
      <3>2. \E s \in {"idle", "remove"} : step' = [step EXCEPT ![h] = s]
        BY <1>5 DEF Rename, Retry, Goto
      <3> QED
        BY <1>0, <2>1, <3>1, <3>2 DEF Single, Survives, Step
    <2> QED
      BY <1>5, <2>2, <2>3 DEF Rename, Retry
  <1>6. CASE Remove(h)
    <2>1. tmp.kind = "whole" /\ failed /\ UNCHANGED <<tmp, failed>>
      BY <1>6 DEF Remove, Single
    <2>2. fd' \in [Host -> {"none", "tmp", "disk", "unlinked"}]
      BY <1>0, <1>6 DEF Remove
    <2>3. disk'.kind = "none" \/ disk' = disk
      BY <1>6 DEF Remove, Absent
    <2>4. \E s \in {"idle", "retry"} : step' = [step EXCEPT ![h] = s]
      BY <1>6 DEF Remove, Goto
    <2> QED
      BY <1>0, <2>1, <2>2, <2>3, <2>4 DEF Single, Survives, Step
  <1>7. CASE Crash(h)
    BY <1>0, <1>7 DEF Crash, Goto, Single, Survives, Step
  <1>8. CASE \/ \E p \in Path : Replace(p)
             \/ UNCHANGED vars
    BY <1>8 DEF Replace, vars, Single, Survives
  <1> QED
    BY <1>1, <1>2, <1>3, <1>4, <1>5, <1>6, <1>7, <1>8, OneActs

\* A host that is alone never tears the cache file, whatever step of persist
\* fails, wherever it crashes and whatever is replaced meanwhile: a file that
\* has been there is whole, or it was removed after a rename that failed of
\* itself (cache.rs persist).
THEOREM CacheSurvives == Spec => CacheFileSurvives
  <1> SUFFICES ASSUME NEW h \in Host
               PROVE  Spec => ([]Others(h) => []((disk.kind = "whole") => []Survives))
    BY DEF CacheFileSurvives, Others, Survives
  <1>1. Init => Single(h)
    BY DEF Init, Single, Step, Absent
  <1>2. Single(h) /\ Others(h) /\ Others(h)' /\ [Next]_vars =>
           Single(h)' /\ (Survives => Survives')
    BY SingleStep
  <1>3. disk.kind = "whole" => Survives
    BY DEF Survives
  <1> QED
    BY <1>1, <1>2, <1>3, PTL DEF Spec
=============================================================================
