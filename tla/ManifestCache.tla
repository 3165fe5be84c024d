--------------------------- MODULE ManifestCache ---------------------------
(***************************************************************************)
(* ManifestCache and Registry::inspect of outboard-core: several host      *)
(* processes inspect plugin executables, keep their manifests in memory    *)
(* under a fingerprint of the file (length and modification time), and     *)
(* write the whole map to one cache file through one temporary file.       *)
(*                                                                         *)
(* Executables are replaced while the hosts run, and hosts crash.  A       *)
(* manifest is known by the version of the executable that printed it.     *)
(***************************************************************************)
EXTENDS Naturals

CONSTANTS
    Host,              \* host processes with the cache on disk
    Path,              \* plugin executables, by canonical path
    NoPath,
    MaxVersion,        \* bound: versions of an executable
    ReplaceWhileRead,  \* an executable may be replaced while it is inspected
    SameStamp,         \* a new version may have its predecessor's fingerprint
    Aliased            \* paths also found under a name their manifest denies

ASSUME CacheAssumption ==
    /\ MaxVersion \in Nat \ {0}
    /\ NoPath \notin Path
    /\ ReplaceWhileRead \in BOOLEAN
    /\ SameStamp \in BOOLEAN
    /\ Aliased \subseteq Path

Version == 1 .. MaxVersion
Entry == [version : Version, stamp : Version]
Missing == [version |-> 0, stamp |-> 0]
Entries == [Path -> Entry \cup {Missing}]
NoEntries == [p \in Path |-> Missing]

\* A file: absent, truncated by a writer, the bytes of one map, or the bytes
\* of two maps over each other.
File == [kind : {"none", "empty", "whole", "garbage"}, map : Entries]
Absent == [kind |-> "none", map |-> NoEntries]
Truncated == [kind |-> "empty", map |-> NoEntries]
Garbage == [kind |-> "garbage", map |-> NoEntries]
Whole(m) == [kind |-> "whole", map |-> m]

VARIABLES
    exe,       \* each executable: its version and its fingerprint
    entries,   \* each host's map
    step,      \* what each host is doing
    at,        \* the path it is inspecting, or NoPath
    printed,   \* the version the executable printed
    snap,      \* the map it is persisting
    fd,        \* where the file is that it has open for writing
    disk,      \* the cache file
    tmp,       \* the temporary file
    failed     \* history: a rename has failed with its file in place

vars == <<exe, entries, step, at, printed, snap, fd, disk, tmp, failed>>

Step == {"down", "idle", "run", "insert", "snapshot", "create", "write", "rename",
         "remove", "retry"}

TypeOK ==
    /\ exe \in [Path -> Entry]
    /\ entries \in [Host -> Entries]
    /\ step \in [Host -> Step]
    /\ at \in [Host -> Path \cup {NoPath}]
    /\ printed \in [Host -> 0 .. MaxVersion]
    /\ snap \in [Host -> Entries]
    /\ fd \in [Host -> {"none", "tmp", "disk", "unlinked"}]
    /\ disk \in File
    /\ tmp \in File
    /\ failed \in BOOLEAN

Init ==
    /\ exe = [p \in Path |-> [version |-> 1, stamp |-> 1]]
    /\ entries = [h \in Host |-> NoEntries]
    /\ step = [h \in Host |-> "down"]
    /\ at = [h \in Host |-> NoPath]
    /\ printed = [h \in Host |-> 0]
    /\ snap = [h \in Host |-> NoEntries]
    /\ fd = [h \in Host |-> "none"]
    /\ disk = Absent
    /\ tmp = Absent
    /\ failed = FALSE

Goto(h, s) == step' = [step EXCEPT ![h] = s]

\* ManifestCache::load: anything that does not parse is an empty cache.
Load(h) ==
    /\ step[h] = "down"
    /\ entries' = [entries EXCEPT ![h] = disk.map]
    /\ Goto(h, "idle")
    /\ UNCHANGED <<exe, at, printed, snap, fd, disk, tmp, failed>>

(***************************************************************************)
(* inspect.                                                                *)
(***************************************************************************)
\* Mutant of Fresh: the path alone is looked up.
AnyFingerprint(e, p) == e # Missing
\* The entry carries the fingerprint the file has now.
Fresh(e, p) == e # Missing /\ e.stamp = exe[p].stamp

\* ManifestCache::get.
Get(h, p) == IF Fresh(entries[h][p], p) THEN entries[h][p] ELSE Missing

InspectMiss(h, p) ==
    /\ step[h] = "idle" /\ Get(h, p) = Missing
    /\ at' = [at EXCEPT ![h] = p]
    /\ Goto(h, "run")
    /\ UNCHANGED <<exe, entries, printed, snap, fd, disk, tmp, failed>>

\* A hit under a name the manifest denies: invalidate, which persists.
InspectMismatch(h, p) ==
    /\ p \in Aliased
    /\ step[h] = "idle" /\ Get(h, p) # Missing
    /\ entries' = [entries EXCEPT ![h][p] = Missing]
    /\ Goto(h, "snapshot")
    /\ UNCHANGED <<exe, at, printed, snap, fd, disk, tmp, failed>>

\* inspect_manifest_at: the executable prints its manifest, or fails to, or
\* prints another identity than the candidate's.
RunManifest(h) ==
    /\ step[h] = "run"
    /\ printed' = [printed EXCEPT ![h] = exe[at[h]].version]
    /\ Goto(h, "insert")
    /\ UNCHANGED <<exe, entries, at, snap, fd, disk, tmp, failed>>

RunFails(h) ==
    /\ step[h] = "run"
    /\ at' = [at EXCEPT ![h] = NoPath]
    /\ Goto(h, "idle")
    /\ UNCHANGED <<exe, entries, printed, snap, fd, disk, tmp, failed>>

\* ManifestCache::insert: the fingerprint is taken now.
Insert(h) ==
    /\ step[h] = "insert"
    /\ entries' = [entries EXCEPT ![h][at[h]] =
                      [version |-> printed[h], stamp |-> exe[at[h]].stamp]]
    /\ at' = [at EXCEPT ![h] = NoPath]
    /\ printed' = [printed EXCEPT ![h] = 0]
    /\ Goto(h, "snapshot")
    /\ UNCHANGED <<exe, snap, fd, disk, tmp, failed>>

Clear(h) ==
    /\ step[h] = "idle"
    /\ entries' = [entries EXCEPT ![h] = NoEntries]
    /\ Goto(h, "snapshot")
    /\ UNCHANGED <<exe, at, printed, snap, fd, disk, tmp, failed>>

(***************************************************************************)
(* persist.  A file that is open stays the same file when it is renamed.   *)
(***************************************************************************)
Snapshot(h) ==
    /\ step[h] = "snapshot"
    /\ snap' = [snap EXCEPT ![h] = entries[h]]
    /\ Goto(h, "create")
    /\ UNCHANGED <<exe, entries, at, printed, fd, disk, tmp, failed>>

\* Mutant of CreateFile: write the cache file in place.
CreateInPlace(h) ==
    /\ disk' = Truncated
    /\ fd' = [fd EXCEPT ![h] = "disk"]
    /\ UNCHANGED tmp
\* fs::write, first half: open and truncate.
CreateFile(h) ==
    /\ tmp' = Truncated
    /\ fd' = [fd EXCEPT ![h] = "tmp"]
    /\ UNCHANGED disk

Create(h) ==
    /\ step[h] = "create"
    /\ CreateFile(h)
    /\ Goto(h, "write")
    /\ UNCHANGED <<exe, entries, at, printed, snap, failed>>

\* The directory cannot be made or the file not opened: persist ends.
CreateFails(h) ==
    /\ step[h] = "create"
    /\ snap' = [snap EXCEPT ![h] = NoEntries]
    /\ Goto(h, "idle")
    /\ UNCHANGED <<exe, entries, at, printed, fd, disk, tmp, failed>>

\* Bytes written over a file that another writer has filled replace them or
\* leave a tail of them.
WrittenOver(f, m) ==
    IF f.kind = "empty" THEN {Whole(m)} ELSE {Whole(m), Garbage}

\* fs::write, second half: the bytes, into the file wherever it is by now.
Write(h) ==
    /\ step[h] = "write"
    /\ \/ fd[h] = "tmp" /\ tmp' \in WrittenOver(tmp, snap[h]) /\ UNCHANGED disk
       \/ fd[h] = "disk" /\ disk' \in WrittenOver(disk, snap[h]) /\ UNCHANGED tmp
       \/ fd[h] = "unlinked" /\ UNCHANGED <<disk, tmp>>
    /\ fd' = [fd EXCEPT ![h] = "none"]
    /\ snap' = [snap EXCEPT ![h] = NoEntries]
    /\ Goto(h, "rename")
    /\ UNCHANGED <<exe, entries, at, printed, failed>>

\* The bytes do not all fit: what is in the file is no map, and persist ends.
WriteFails(h) ==
    /\ step[h] = "write"
    /\ \/ fd[h] = "tmp" /\ tmp' \in {tmp, Garbage} /\ UNCHANGED disk
       \/ fd[h] = "disk" /\ disk' \in {disk, Garbage} /\ UNCHANGED tmp
       \/ fd[h] = "unlinked" /\ UNCHANGED <<disk, tmp>>
    /\ fd' = [fd EXCEPT ![h] = "none"]
    /\ snap' = [snap EXCEPT ![h] = NoEntries]
    /\ Goto(h, "idle")
    /\ UNCHANGED <<exe, entries, at, printed, failed>>

\* The temporary file takes the place of the cache file.
Renamed ==
    /\ tmp.kind # "none"
    /\ disk' = tmp
    /\ tmp' = Absent
    /\ fd' = [g \in Host |-> CASE fd[g] = "tmp" -> "disk"
                               [] fd[g] = "disk" -> "unlinked"
                               [] OTHER -> fd[g]]

\* fs::rename fails: for want of the temporary file, which another host may
\* have renamed away, or of itself.
RenameFails ==
    /\ failed' = (failed \/ tmp.kind # "none")
    /\ UNCHANGED <<disk, tmp, fd>>

\* fs::rename; on any error of it a cache file that is there is removed next.
Rename(h) ==
    /\ step[h] = "rename"
    /\ \/ Renamed /\ Goto(h, "idle") /\ UNCHANGED failed
       \/ RenameFails /\ Goto(h, IF disk.kind = "none" THEN "idle" ELSE "remove")
    /\ UNCHANGED <<exe, entries, at, printed, snap>>

\* fs::remove_file; an error, there being no file or of itself, ends persist.
Remove(h) ==
    /\ step[h] = "remove"
    /\ \/ /\ disk.kind # "none"
          /\ disk' = Absent
          /\ fd' = [g \in Host |-> IF fd[g] = "disk" THEN "unlinked" ELSE fd[g]]
          /\ Goto(h, "retry")
       \/ Goto(h, "idle") /\ UNCHANGED <<disk, fd>>
    /\ UNCHANGED <<exe, entries, at, printed, snap, tmp, failed>>

\* fs::rename once more; its error is persist's.
Retry(h) ==
    /\ step[h] = "retry"
    /\ \/ Renamed /\ UNCHANGED failed
       \/ RenameFails
    /\ Goto(h, "idle")
    /\ UNCHANGED <<exe, entries, at, printed, snap>>

(***************************************************************************)
(* The world.                                                              *)
(***************************************************************************)
\* A host ends at any point, and may be started again.
Crash(h) ==
    /\ step[h] # "down"
    /\ Goto(h, "down")
    /\ entries' = [entries EXCEPT ![h] = NoEntries]
    /\ at' = [at EXCEPT ![h] = NoPath]
    /\ printed' = [printed EXCEPT ![h] = 0]
    /\ snap' = [snap EXCEPT ![h] = NoEntries]
    /\ fd' = [fd EXCEPT ![h] = "none"]
    /\ UNCHANGED <<exe, disk, tmp, failed>>

\* The executable has printed its manifest and it is not in the map yet.
BeingInspected(p) == \E h \in Host : step[h] = "insert" /\ at[h] = p

Replace(p) ==
    /\ exe[p].version < MaxVersion
    /\ ReplaceWhileRead \/ ~BeingInspected(p)
    /\ \E s \in {exe[p].version + 1} \cup (IF SameStamp THEN {exe[p].stamp} ELSE {}) :
          exe' = [exe EXCEPT ![p] = [version |-> exe[p].version + 1, stamp |-> s]]
    /\ UNCHANGED <<entries, step, at, printed, snap, fd, disk, tmp, failed>>

Next ==
    \/ \E h \in Host :
          \/ Load(h) \/ RunManifest(h) \/ RunFails(h) \/ Insert(h) \/ Clear(h)
          \/ Snapshot(h) \/ Create(h) \/ CreateFails(h) \/ Write(h) \/ WriteFails(h)
          \/ Rename(h) \/ Remove(h) \/ Retry(h) \/ Crash(h)
          \/ \E p \in Path : InspectMiss(h, p) \/ InspectMismatch(h, p)
    \/ \E p \in Path : Replace(p)

Spec == Init /\ [][Next]_vars

(***************************************************************************)
(* Properties.                                                             *)
(***************************************************************************)
\* What the cache answers is what the executable would print now, through
\* every interleaving of hosts, crashes and torn cache files (AGENT_TESTING,
\* 9: "its fingerprint causes safe reinspection rather than stale
\* identity/version data").
CacheTellsTruth ==
    \A h \in Host, p \in Path :
        Get(h, p) # Missing => Get(h, p).version = exe[p].version

\* A host alone never tears the cache file, and loses it in one way only: once
\* the file is there, it is whole through every error of persist and every crash
\* and restart between two of its steps, or it is gone, and then a rename has
\* failed of itself and the file was removed for a second one, which failed too
\* or was not reached (cache.rs 143-152).
CacheFileSurvives ==
    \A h \in Host :
        [](\A g \in Host \ {h} : step[g] = "down")
            => []((disk.kind = "whole") =>
                    [](disk.kind = "whole" \/ (disk.kind = "none" /\ failed)))
=============================================================================
