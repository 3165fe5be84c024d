------------------------------ MODULE Registry ------------------------------
(***************************************************************************)
(* Registry of outboard-core: discover_in_roots walks the overrides and    *)
(* the search roots, keeps the first candidate of every name and the       *)
(* shadowed ones, and resolve_best inspects the kept ones and picks the    *)
(* best that fits the requirement.  Namespace and kind are fixed; a file   *)
(* name is known by the plugin name after the prefix.  Executables are     *)
(* moved, replaced and removed while all this goes on.                     *)
(***************************************************************************)
EXTENDS Naturals, Sequences

CONSTANTS
    MaxName,      \* plugin names are 1 .. MaxName, in the order of the alphabet
    File,         \* executables, by canonical path
    Dir,          \* directories, by canonical path
    RootList,     \* explicit roots, then those of the environment, then PATH
    MayFail,      \* read_dir may fail on a root that is there
    MaxWorth,     \* bound: scores an application gives, plus one
    MaxChanges,   \* bound: changes of the file system during one resolve
    Unsettled     \* bound: what is printed and wanted while the files change

ASSUME RegistryAssumption ==
    /\ MaxName \in Nat
    /\ RootList \in Seq(Dir)
    /\ MayFail \in BOOLEAN
    /\ MaxWorth \in Nat
    /\ MaxChanges \in Nat

Name == 1 .. MaxName
Anything == 0

CONSTANTS NoFile, Overrides    \* no executable; where overrides point to
ASSUME PlaceAssumption == NoFile \notin File /\ Overrides \notin Dir
Place == Dir \cup {Overrides}

\* What an executable prints: the name it declares, Anything if it prints no
\* valid manifest; and its worth, 0 if compatibility_issues has any, else one
\* more than its score.
Manifest == [declares : Name \cup {Anything}, worth : 0 .. MaxWorth]

Candidate == [name : Name, place : Place, rank : Nat]
NoCandidate == [name |-> 0, place |-> Overrides, rank |-> 0]

VARIABLES
    disk,        \* the executable at each path
    manifest,    \* what each executable prints
    overridden,  \* names with an override
    want,        \* PluginRequirement::name
    changes,     \* changes so far
    phase,       \* where resolve_best is
    cursor,      \* the override, then the root it is at
    entries,     \* names of the root's directory still to look at
    precedence,  \* the counter of discover_in_roots
    selected,    \* first candidate of each name
    shadowed,    \* the others
    toInspect,   \* names still to inspect
    fitting,     \* names whose candidate was inspected and fits, with its worth
    resolved     \* the answer

worldVars == <<disk, manifest, overridden, want>>
searchVars == <<cursor, entries, precedence, selected, shadowed>>
inspectVars == <<toInspect, fitting, resolved>>
vars == <<worldVars, changes, phase, searchVars, inspectVars>>

Phase == {"overrides", "roots", "entries", "insert", "inspect", "resolved", "no_match", "failed"}

TypeOK ==
    /\ disk \in [Place -> [Name -> File \cup {NoFile}]]
    /\ manifest \in [File -> Manifest]
    /\ overridden \subseteq Name
    /\ want \in Name \cup {Anything}
    /\ changes \in 0 .. MaxChanges
    /\ phase \in Phase
    /\ cursor \in Nat
    /\ entries \subseteq Name
    /\ precedence \in Nat
    /\ selected \in [Name -> Candidate \cup {NoCandidate}]
    /\ shadowed \in [Name -> SUBSET Candidate]
    /\ toInspect \subseteq Name
    /\ fitting \in [Name -> 0 .. MaxWorth]
    /\ resolved \in Name \cup {Anything}

Init ==
    /\ disk \in [Place -> [Name -> File \cup {NoFile}]]
    /\ manifest \in [File -> Manifest]
    /\ overridden \in SUBSET Name
    /\ want \in Name \cup {Anything}
    /\ changes = 0
    /\ phase = "overrides"
    /\ cursor = 1
    /\ entries = {}
    /\ precedence = 0
    /\ selected = [n \in Name |-> NoCandidate]
    /\ shadowed = [n \in Name |-> {}]
    /\ toInspect = {}
    /\ fitting = [n \in Name |-> 0]
    /\ resolved = Anything

(***************************************************************************)
(* Discovery.                                                              *)
(***************************************************************************)
\* same_file: by canonical path where both exist, else by path, and the paths
\* of two candidates differ.
same_file(c, d) ==
    /\ disk[c.place][c.name] # NoFile
    /\ disk[c.place][c.name] = disk[d.place][d.name]

\* Mutant of Keeps: the last candidate of a name wins.
KeepsLast(n) == FALSE
\* selected.get(&candidate.id): the first one stays.
Keeps(n) == selected[n] # NoCandidate

\* insert, and precedence += 1.
Insert(n, p) ==
    LET c == [name |-> n, place |-> p, rank |-> precedence]
    IN /\ \/ /\ Keeps(n)
             /\ shadowed' = IF same_file(selected[n], c) THEN shadowed
                            ELSE [shadowed EXCEPT ![n] = @ \cup {c}]
             /\ UNCHANGED selected
          \/ /\ ~Keeps(n)
             /\ selected' = [selected EXCEPT ![n] = c]
             /\ UNCHANGED shadowed
       /\ precedence' = precedence + 1

\* The overrides come first, in the order of their names.
NextOverride ==
    /\ phase = "overrides" /\ cursor <= MaxName
    /\ IF cursor \in overridden THEN Insert(cursor, Overrides)
       ELSE UNCHANGED <<selected, shadowed, precedence>>
    /\ cursor' = cursor + 1
    /\ UNCHANGED <<worldVars, changes, phase, entries, inspectVars>>

OverridesDone ==
    /\ phase = "overrides" /\ cursor > MaxName
    /\ phase' = "roots"
    /\ cursor' = 1
    /\ UNCHANGED <<worldVars, changes, entries, precedence, selected, shadowed, inspectVars>>

\* build_roots: a root is used where it is listed first.
\* Mutant of Repeated: roots are not compared.
NeverRepeated(k) == FALSE
Repeated(k) == \E j \in 1 .. k - 1 : RootList[j] = RootList[k]

\* A root that is missing or that may not be read has no entries; any other
\* error ends the discovery.
NextRoot ==
    /\ phase = "roots" /\ cursor <= Len(RootList)
    /\ \/ /\ Repeated(cursor)
          /\ cursor' = cursor + 1
          /\ UNCHANGED <<phase, entries>>
       \/ /\ ~Repeated(cursor) /\ MayFail
          /\ phase' = "failed"
          /\ UNCHANGED <<cursor, entries>>
       \/ /\ ~Repeated(cursor)
          /\ entries' = {n \in Name : disk[RootList[cursor]][n] # NoFile}
          /\ phase' = "entries"
          /\ UNCHANGED cursor
    /\ UNCHANGED <<worldVars, changes, precedence, selected, shadowed, inspectVars>>

\* The entries that read_dir gave, by name, if they are still executables when
\* is_executable looks.  Nothing holds them so until insert compares them.
NextEntry ==
    /\ phase = "entries"
    /\ \E n \in entries :
          /\ \A m \in entries : n <= m
          /\ \/ /\ disk[RootList[cursor]][n] # NoFile
                /\ phase' = "insert"
                /\ UNCHANGED entries
             \/ /\ disk[RootList[cursor]][n] = NoFile
                /\ entries' = entries \ {n}
                /\ UNCHANGED phase
    /\ UNCHANGED <<worldVars, changes, cursor, precedence, selected, shadowed, inspectVars>>

InsertEntry ==
    /\ phase = "insert"
    /\ \E n \in entries :
          /\ \A m \in entries : n <= m
          /\ Insert(n, RootList[cursor])
          /\ entries' = entries \ {n}
    /\ phase' = "entries"
    /\ UNCHANGED <<worldVars, changes, cursor, inspectVars>>

RootDone ==
    /\ phase = "entries" /\ entries = {}
    /\ phase' = "roots"
    /\ cursor' = cursor + 1
    /\ UNCHANGED <<worldVars, changes, entries, precedence, selected, shadowed, inspectVars>>

(***************************************************************************)
(* resolve_best.                                                           *)
(***************************************************************************)
\* The selected candidates, filtered by the name that is wanted.
Discovered ==
    /\ phase = "roots" /\ cursor > Len(RootList)
    /\ phase' = "inspect"
    /\ toInspect' = {n \in Name : selected[n] # NoCandidate /\ want \in {n, Anything}}
    /\ UNCHANGED <<worldVars, changes, searchVars, fitting, resolved>>

\* inspect and compatibility_issues of the executable now at the path: 0 if it
\* is gone, prints no manifest, declares another name or does not fit.
WorthAt(p, n) ==
    LET f == disk[p][n]
    IN IF f # NoFile /\ manifest[f].declares = n THEN manifest[f].worth ELSE 0

\* By precedence.
Inspect ==
    /\ phase = "inspect"
    /\ \E n \in toInspect :
          /\ \A m \in toInspect : selected[n].rank <= selected[m].rank
          /\ fitting' = [fitting EXCEPT ![n] = WorthAt(selected[n].place, n)]
          /\ toInspect' = toInspect \ {n}
    /\ UNCHANGED <<worldVars, changes, phase, searchVars, resolved>>

\* ok.sort_by: by score, the higher first, then by precedence.
\* Mutant of Before: precedence alone.
ByRank(n, m) == selected[n].rank <= selected[m].rank
Before(n, m) ==
    \/ fitting[n] > fitting[m]
    \/ fitting[n] = fitting[m] /\ selected[n].rank <= selected[m].rank

Choose ==
    /\ phase = "inspect" /\ toInspect = {}
    /\ LET ok == {n \in Name : fitting[n] > 0}
       IN \/ ok = {} /\ phase' = "no_match" /\ UNCHANGED resolved
          \/ /\ phase' = "resolved"
             /\ \E n \in ok :
                   /\ \A m \in ok : Before(n, m)
                   /\ resolved' = n
    /\ UNCHANGED <<worldVars, changes, searchVars, toInspect, fitting>>

(***************************************************************************)
(* The world.                                                              *)
(***************************************************************************)
Ended == phase \in {"resolved", "no_match", "failed"}

\* An executable is installed, moved or removed.
Change ==
    /\ changes < MaxChanges /\ ~Ended
    /\ <<manifest, want>> \in Unsettled
    /\ changes' = changes + 1
    /\ \E p \in Place, n \in Name, f \in File \cup {NoFile} :
          disk' = [disk EXCEPT ![p][n] = f]
    /\ UNCHANGED <<manifest, overridden, want, phase, searchVars, inspectVars>>

Stop == Ended /\ UNCHANGED vars

Next ==
    \/ NextOverride \/ OverridesDone \/ NextRoot \/ NextEntry \/ InsertEntry
    \/ RootDone \/ Discovered \/ Inspect \/ Choose \/ Change \/ Stop

Spec == Init /\ [][Next]_vars

(***************************************************************************)
(* Properties.                                                             *)
(***************************************************************************)
\* Where a name is looked up: its override, else the first root in the list
\* that has it.  Position 0 is the override.
Position(n) ==
    IF n \in overridden THEN {0}
    ELSE {k \in 1 .. Len(RootList) :
             /\ disk[RootList[k]][n] # NoFile
             /\ \A j \in 1 .. k - 1 : disk[RootList[j]][n] = NoFile}

PlaceAt(k) == IF k = 0 THEN Overrides ELSE RootList[k]

\* The answers that are right by the documented precedence: a name that is
\* wanted and fits where it is looked up, and none that fits scores higher,
\* or as high from an earlier position, or from the same one with a smaller
\* name.
Right ==
    LET worth(n) == IF want \in {n, Anything} /\ Position(n) # {}
                    THEN WorthAt(PlaceAt(CHOOSE k \in Position(n) : TRUE), n) ELSE 0
        position(n) == CHOOSE k \in Position(n) : TRUE
        fits == {n \in Name : worth(n) > 0}
    IN {n \in fits : \A m \in fits \ {n} :
           \/ worth(m) < worth(n)
           \/ worth(m) = worth(n) /\ position(m) > position(n)
           \/ worth(m) = worth(n) /\ position(m) = position(n) /\ m > n}

\* With the files at rest resolve_best gives the answer that the documented
\* precedence gives, and NoMatch only when there is none (README, "Discovery
\* precedence": "lower precedence wins"; ARCHITECTURE: "first applies generic
\* compatibility filtering and then optionally applies application scoring").
ResolvesRight ==
    changes = 0 =>
        /\ phase = "resolved" => Right = {resolved}
        /\ phase = "no_match" => Right = {}

\* Nothing found is hidden: what is at a path of a used root is the selected
\* candidate, or a shadowed one, or the selected one's own file again
\* (README: "duplicate identities remain visible as shadowed candidates").
NothingHidden ==
    changes = 0 /\ phase \in {"inspect", "resolved", "no_match"} =>
        \A k \in 1 .. Len(RootList), n \in Name :
            disk[RootList[k]][n] # NoFile =>
                \/ selected[n].place = RootList[k] /\ selected[n] # NoCandidate
                \/ \E c \in shadowed[n] : c.place = RootList[k]
                \/ same_file(selected[n], [name |-> n, place |-> RootList[k]])

\* However the files change meanwhile, a shadowed candidate comes later than
\* the selected one of its name, nothing shadows an override, no path is
\* reported twice, and no two selected candidates have the same rank
\* (discovery.rs 129-152, 228-234).
FirstWins ==
    \A n \in Name :
        /\ \A c \in shadowed[n] :
              /\ selected[n] # NoCandidate /\ selected[n].rank < c.rank
              /\ c.place # Overrides
              /\ \A d \in shadowed[n] : c.place = d.place => c = d
        /\ \A m \in Name \ {n} :
              selected[n] # NoCandidate /\ selected[m] # NoCandidate
                  => selected[n].rank # selected[m].rank
=============================================================================
