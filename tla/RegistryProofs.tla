--------------------------- MODULE RegistryProofs ---------------------------
(***************************************************************************)
(* Proofs about Registry: what discovery keeps whatever happens to the     *)
(* files meanwhile, and that resolve_best gives the documented answer when *)
(* nothing happens to them, for any number of names, files and roots.      *)
(***************************************************************************)
EXTENDS Registry, TLAPS

(***************************************************************************)
(* Types.                                                                  *)
(***************************************************************************)
LEMMA NoCandidateApart ==
    /\ NoCandidate \notin Candidate
    /\ \A c \in Candidate \cup {NoCandidate} : c.place \in Place /\ c.rank \in Nat
    /\ \A c \in Candidate : c.name \in Name
  BY DEF NoCandidate, Candidate, Place, Name

\* A candidate that is inserted, and the roots.
LEMMA InsertTypes ==
    ASSUME TypeOK, NEW n \in Name, NEW p \in Place, Insert(n, p)
    PROVE  /\ selected' \in [Name -> Candidate \cup {NoCandidate}]
           /\ shadowed' \in [Name -> SUBSET Candidate]
           /\ precedence' \in Nat
  <1> DEFINE c == [name |-> n, place |-> p, rank |-> precedence]
  <1>1. c \in Candidate
    BY DEF TypeOK, Candidate
  <1> HIDE DEF c
  <1>2. /\ \/ /\ \/ shadowed' = shadowed
                 \/ shadowed' = [shadowed EXCEPT ![n] = @ \cup {c}]
              /\ UNCHANGED selected
           \/ /\ selected' = [selected EXCEPT ![n] = c]
              /\ UNCHANGED shadowed
        /\ precedence' = precedence + 1
    BY DEF Insert, c
  <1> QED
    BY <1>1, <1>2 DEF TypeOK

LEMMA RootPlace ==
    ASSUME NEW k \in 1 .. Len(RootList)
    PROVE  RootList[k] \in Dir /\ RootList[k] \in Place /\ RootList[k] # Overrides
  BY RegistryAssumption, PlaceAssumption DEF Place

LEMMA RootCount == Len(RootList) \in Nat
  BY RegistryAssumption

\* While the entries of a root are looked at.
Scanning == {"entries", "insert"}

\* The root that is being read is one of the list, and none before it is the same.
InRoots ==
    /\ cursor >= 1
    /\ phase \in Scanning => cursor <= Len(RootList) /\ ~Repeated(cursor)
    /\ phase \in {"inspect", "resolved", "no_match"} => cursor > Len(RootList)

Typed == TypeOK /\ InRoots

LEMMA TypedInductive ==
    ASSUME Typed, [Next]_vars
    PROVE  Typed'
  <1> USE DEF Typed, Scanning
  <1>1. CASE NextOverride
    <2>1. cursor \in Name /\ Overrides \in Place
      BY <1>1, RegistryAssumption DEF NextOverride, TypeOK, Name, InRoots, Place
    <2>2. /\ selected' \in [Name -> Candidate \cup {NoCandidate}]
          /\ shadowed' \in [Name -> SUBSET Candidate]
          /\ precedence' \in Nat
      BY <1>1, <2>1, InsertTypes DEF NextOverride, TypeOK
    <2> QED
      BY <1>1, <2>2 DEF NextOverride, TypeOK, InRoots, worldVars, inspectVars
  <1>2. CASE OverridesDone
    BY <1>2 DEF OverridesDone, TypeOK, InRoots, Phase, worldVars, inspectVars
  <1>3. CASE NextRoot
    BY <1>3, RootCount DEF NextRoot, TypeOK, InRoots, Phase, Repeated, worldVars, inspectVars
  <1>11. CASE NextEntry
    BY <1>11 DEF NextEntry, TypeOK, InRoots, Phase, Repeated, worldVars, inspectVars
  <1>4. CASE InsertEntry
    <2>1. PICK n \in entries : Insert(n, RootList[cursor]) /\ entries' = entries \ {n}
      BY <1>4 DEF InsertEntry
    <2>2. RootList[cursor] \in Place /\ n \in Name
      BY <1>4, <2>1, RootPlace, RootCount DEF InsertEntry, TypeOK, InRoots
    <2>3. /\ selected' \in [Name -> Candidate \cup {NoCandidate}]
          /\ shadowed' \in [Name -> SUBSET Candidate]
          /\ precedence' \in Nat
      BY <2>1, <2>2, InsertTypes DEF TypeOK
    <2> QED
      BY <1>4, <2>1, <2>3 DEF InsertEntry, TypeOK, InRoots, Phase, Repeated, worldVars,
                              inspectVars
  <1>5. CASE RootDone
    BY <1>5 DEF RootDone, TypeOK, InRoots, Phase, worldVars, inspectVars
  <1>6. CASE Discovered
    BY <1>6 DEF Discovered, TypeOK, InRoots, Phase, worldVars, searchVars
  <1>7. CASE Inspect
    <2>1. PICK n \in toInspect :
              /\ fitting' = [fitting EXCEPT ![n] = WorthAt(selected[n].place, n)]
              /\ toInspect' = toInspect \ {n}
      BY <1>7 DEF Inspect
    <2>2. selected[n].place \in Place /\ n \in Name
      BY <2>1, NoCandidateApart DEF TypeOK
    <2>3. disk[selected[n].place][n] \in File \cup {NoFile}
      BY <2>2 DEF TypeOK
    <2>4. WorthAt(selected[n].place, n) \in 0 .. MaxWorth
      BY <2>3, RegistryAssumption DEF WorthAt, TypeOK, Manifest
    <2> QED
      BY <1>7, <2>1, <2>4 DEF Inspect, TypeOK, InRoots, worldVars, searchVars
  <1>8. CASE Choose
    BY <1>8 DEF Choose, TypeOK, InRoots, Phase, worldVars, searchVars
  <1>9. CASE Change
    BY <1>9, RegistryAssumption DEF Change, TypeOK, InRoots, Repeated, searchVars, inspectVars
  <1>10. CASE Stop \/ UNCHANGED vars
    BY <1>10 DEF Stop, vars, TypeOK, InRoots, Repeated, worldVars, searchVars, inspectVars
  <1> QED
    BY <1>1, <1>2, <1>3, <1>4, <1>5, <1>6, <1>7, <1>8, <1>9, <1>10, <1>11 DEF Next

LEMMA TypedInitially ==
    ASSUME Init
    PROVE  Typed
  BY RegistryAssumption DEF Init, Typed, TypeOK, InRoots, Phase, Scanning

\* Every variable of the registry keeps its type, and a root is read only where
\* the list has it first (discovery.rs build_roots).
THEOREM TypeCorrect == Spec => []Typed
  BY TypedInitially, TypedInductive, PTL DEF Spec

(***************************************************************************)
(* What discovery keeps, whatever happens to the files.                    *)
(***************************************************************************)
\* The counter gives every candidate a rank of its own, the selected one of a
\* name the smallest, and an override is never a second candidate.
Ranks ==
    /\ \A n \in Name : selected[n] # NoCandidate =>
          selected[n].name = n /\ selected[n].rank < precedence
    /\ \A n, m \in Name :
          n # m /\ selected[n] # NoCandidate /\ selected[m] # NoCandidate
              => selected[n].rank # selected[m].rank
    /\ \A n \in Name : \A c \in shadowed[n] :
          /\ selected[n] # NoCandidate
          /\ selected[n].rank < c.rank /\ c.rank < precedence
          /\ c.place # Overrides

\* The place k of the list has been searched for the name n.
Searched(k, n) ==
    /\ phase # "overrides"
    /\ k < cursor \/ (k = cursor /\ phase \in Scanning /\ n \notin entries)

\* The overrides come in the order of their names and shadow nothing; a
\* shadowed candidate was found in a root that was searched, and so there is
\* one at most for each path.
Paths ==
    /\ phase = "overrides" => \A n \in Name :
          shadowed[n] = {} /\ (selected[n] # NoCandidate => n < cursor)
    /\ \A n \in Name : \A c \in shadowed[n] :
          \E k \in 1 .. Len(RootList) : c.place = RootList[k] /\ Searched(k, n)
    /\ \A n \in Name : \A c, d \in shadowed[n] : c.place = d.place => c = d

Kept == Typed /\ Ranks /\ Paths

(***************************************************************************)
(* What it finds while nothing happens to them.                            *)
(***************************************************************************)
\* Whatever is at a place of the list that has been searched is reported.
Shown(k, n) ==
    /\ selected[n] # NoCandidate
    /\ \/ selected[n].place = RootList[k]
       \/ \E c \in shadowed[n] : c.place = RootList[k]
       \/ same_file(selected[n], [name |-> n, place |-> RootList[k]])

Reported ==
    \A n \in Name, k \in 1 .. Len(RootList) :
        Searched(k, n) /\ disk[RootList[k]][n] # NoFile => Shown(k, n)

\* A root's entries are what is there, those to come after those looked at.
Entries ==
    phase \in Scanning => \A n \in entries :
        /\ disk[RootList[cursor]][n] # NoFile
        /\ \A m \in Name \ entries : disk[RootList[cursor]][m] # NoFile => m < n

\* The selected candidate of a name is where the name is to be looked up, and
\* there is none only while it has not been found anywhere.
Placed(n) ==
    /\ phase = "overrides" =>
          /\ selected[n] # NoCandidate <=> n \in overridden /\ n < cursor
          /\ selected[n] # NoCandidate => selected[n].place = Overrides
    /\ phase # "overrides" /\ n \in overridden =>
          selected[n] # NoCandidate /\ selected[n].place = Overrides
    /\ phase # "overrides" /\ n \notin overridden /\ selected[n] # NoCandidate =>
          \E k \in Position(n) : selected[n].place = RootList[k] /\ Searched(k, n)
    /\ phase # "overrides" /\ n \notin overridden /\ selected[n] = NoCandidate =>
          \A k \in 1 .. Len(RootList) : Searched(k, n) => disk[RootList[k]][n] = NoFile

\* Ranks follow the places, and at one place the names.
Earlier(n, m) ==
    \E i \in Position(n), j \in Position(m) : i < j \/ (i = j /\ n < m)

Ordered(n, m) ==
    /\ selected[n] # NoCandidate /\ selected[m] # NoCandidate
    /\ selected[n].rank < selected[m].rank
    => Earlier(n, m)

\* What inspection has found out, and how it is decided.
Worth(n) ==
    IF want \in {n, Anything} /\ selected[n] # NoCandidate
    THEN WorthAt(selected[n].place, n) ELSE 0

Weighed ==
    /\ phase \in {"overrides", "roots"} \cup Scanning => \A n \in Name : fitting[n] = 0
    /\ phase \in {"inspect", "resolved", "no_match"} => \A n \in Name :
          IF n \in toInspect THEN want \in {n, Anything} /\ selected[n] # NoCandidate /\ fitting[n] = 0
          ELSE fitting[n] = Worth(n)
    /\ phase \in {"resolved", "no_match"} => toInspect = {}
    /\ phase = "no_match" => \A n \in Name : fitting[n] = 0
    /\ phase = "resolved" =>
          /\ resolved \in Name /\ fitting[resolved] > 0
          /\ \A m \in Name : fitting[m] > 0 => Before(resolved, m)

AtRest ==
    changes = 0 =>
        /\ Reported
        /\ Entries
        /\ \A n \in Name : Placed(n)
        /\ \A n, m \in Name : Ordered(n, m)
        /\ Weighed

(***************************************************************************)
(* Proofs of the first part.                                               *)
(***************************************************************************)
\* The cases of insert.
LEMMA InsertCases ==
    ASSUME Typed, NEW n \in Name, NEW p \in Place, Insert(n, p)
    PROVE  \E c \in Candidate :
              /\ c = [name |-> n, place |-> p, rank |-> precedence]
              /\ c # NoCandidate /\ c.name = n /\ c.place = p /\ c.rank = precedence
              /\ precedence' = precedence + 1
              /\ \/ /\ selected[n] # NoCandidate /\ selected' = selected
                    /\ \/ shadowed' = shadowed /\ same_file(selected[n], c)
                       \/ shadowed' = [shadowed EXCEPT ![n] = @ \cup {c}]
                 \/ /\ selected[n] = NoCandidate /\ shadowed' = shadowed
                    /\ selected' = [selected EXCEPT ![n] = c]
  <1> DEFINE c == [name |-> n, place |-> p, rank |-> precedence]
  <1>1. c \in Candidate /\ c.name = n /\ c.place = p /\ c.rank = precedence
    BY DEF Typed, TypeOK, Candidate
  <1>2. c # NoCandidate
    BY <1>1, NoCandidateApart
  <1>3. /\ \/ /\ selected[n] # NoCandidate
              /\ shadowed' = IF same_file(selected[n], c) THEN shadowed
                             ELSE [shadowed EXCEPT ![n] = @ \cup {c}]
              /\ UNCHANGED selected
           \/ /\ selected[n] = NoCandidate
              /\ selected' = [selected EXCEPT ![n] = c]
              /\ UNCHANGED shadowed
        /\ precedence' = precedence + 1
    BY DEF Insert, Keeps
  <1> HIDE DEF c
  <1>4. \/ /\ selected[n] # NoCandidate /\ selected' = selected
           /\ \/ shadowed' = shadowed /\ same_file(selected[n], c)
              \/ shadowed' = [shadowed EXCEPT ![n] = @ \cup {c}]
        \/ /\ selected[n] = NoCandidate /\ shadowed' = shadowed
           /\ selected' = [selected EXCEPT ![n] = c]
    <2>1. CASE same_file(selected[n], c)
      BY <1>3, <2>1
    <2>2. CASE ~same_file(selected[n], c)
      BY <1>3, <2>2
    <2> QED
      BY <2>1, <2>2
  <1> QED
    BY <1>1, <1>2, <1>3, <1>4 DEF c

LEMMA InsertRanks ==
    ASSUME Typed, Ranks, NEW n \in Name, NEW p \in Place, Insert(n, p),
           p # Overrides \/ selected[n] = NoCandidate
    PROVE  Ranks'
  <1>1. PICK c \in Candidate :
              /\ c # NoCandidate /\ c.name = n /\ c.place = p /\ c.rank = precedence
              /\ precedence' = precedence + 1
              /\ \/ /\ selected[n] # NoCandidate /\ selected' = selected
                    /\ \/ shadowed' = shadowed
                       \/ shadowed' = [shadowed EXCEPT ![n] = @ \cup {c}]
                 \/ /\ selected[n] = NoCandidate /\ shadowed' = shadowed
                    /\ selected' = [selected EXCEPT ![n] = c]
    BY InsertCases
  <1>2. /\ selected \in [Name -> Candidate \cup {NoCandidate}]
        /\ shadowed \in [Name -> SUBSET Candidate]
        /\ precedence \in Nat
        /\ \A d \in Candidate \cup {NoCandidate} : d.rank \in Nat
    BY NoCandidateApart DEF Typed, TypeOK
  <1>3. CASE selected[n] # NoCandidate /\ selected' = selected
    BY <1>1, <1>2, <1>3 DEF Ranks
  <1>4. CASE /\ selected[n] = NoCandidate /\ shadowed' = shadowed
             /\ selected' = [selected EXCEPT ![n] = c]
    BY <1>1, <1>2, <1>4 DEF Ranks
  <1> QED
    BY <1>1, <1>3, <1>4

LEMMA RanksInductive ==
    ASSUME Kept, [Next]_vars
    PROVE  Ranks'
  <1> USE DEF Kept
  <1>1. CASE NextOverride
    <2>1. cursor \in Name /\ Overrides \in Place
      BY <1>1, RegistryAssumption DEF NextOverride, Typed, TypeOK, Name, InRoots, Place
    <2>2. selected[cursor] = NoCandidate
      BY <1>1, <2>1 DEF NextOverride, Paths, Typed, TypeOK
    <2>3. CASE cursor \in overridden
      BY <1>1, <2>1, <2>2, <2>3, InsertRanks DEF NextOverride
    <2>4. CASE cursor \notin overridden
      BY <1>1, <2>4 DEF NextOverride, Ranks
    <2> QED
      BY <2>3, <2>4
  <1>2. CASE InsertEntry
    <2>1. PICK n \in entries : Insert(n, RootList[cursor])
      BY <1>2 DEF InsertEntry
    <2>2. RootList[cursor] \in Place /\ n \in Name /\ RootList[cursor] # Overrides
      BY <1>2, <2>1, RootPlace, RootCount DEF InsertEntry, Typed, TypeOK, InRoots, Scanning
    <2> QED
      BY <2>1, <2>2, InsertRanks
  <1>3. CASE UNCHANGED <<selected, shadowed, precedence>>
    BY <1>3 DEF Ranks
  <1>4. CASE OverridesDone \/ NextRoot \/ NextEntry \/ RootDone \/ Discovered \/ Inspect
             \/ Choose \/ Change \/ Stop \/ UNCHANGED vars
    <2>1. UNCHANGED <<selected, shadowed, precedence>>
      BY <1>4 DEF OverridesDone, NextRoot, NextEntry, RootDone, Discovered, Inspect, Choose,
                  Change, Stop, vars, searchVars
    <2> QED
      BY <1>3, <2>1
  <1> QED
    BY <1>1, <1>2, <1>4 DEF Next

\* What has been searched stays so.
LEMMA SearchedStays ==
    ASSUME Typed, [Next]_vars, NEW n \in Name, NEW k \in 1 .. Len(RootList), Searched(k, n)
    PROVE  Searched(k, n)'
  <1> USE RootCount DEF Typed, TypeOK, InRoots, Searched, Scanning
  <1>1. CASE NextOverride \/ OverridesDone
    BY <1>1 DEF NextOverride, OverridesDone
  <1>2. CASE NextRoot
    BY <1>2 DEF NextRoot
  <1>3. CASE NextEntry \/ InsertEntry
    BY <1>3 DEF NextEntry, InsertEntry
  <1>4. CASE RootDone
    BY <1>4 DEF RootDone
  <1>5. CASE Discovered \/ Inspect
    BY <1>5 DEF Discovered, Inspect, searchVars
  <1>6. CASE Choose
    BY <1>6 DEF Choose, searchVars
  <1>7. CASE Change \/ Stop \/ UNCHANGED vars
    BY <1>7 DEF Change, Stop, vars, searchVars
  <1> QED
    BY <1>1, <1>2, <1>3, <1>4, <1>5, <1>6, <1>7 DEF Next

LEMMA PathsInductive ==
    ASSUME Kept, [Next]_vars
    PROVE  Paths'
  <1> USE DEF Kept
  <1>0. /\ shadowed \in [Name -> SUBSET Candidate]
        /\ selected \in [Name -> Candidate \cup {NoCandidate}]
        /\ cursor \in Nat
    BY DEF Typed, TypeOK
  <1>a. CASE UNCHANGED shadowed /\ phase' # "overrides"
    <2>1. \A n \in Name : \A c \in shadowed[n] :
             \E k \in 1 .. Len(RootList) : c.place = RootList[k] /\ Searched(k, n)'
      BY SearchedStays DEF Paths
    <2> QED
      BY <1>a, <2>1 DEF Paths
  <1>1. CASE NextOverride
    <2>1. cursor \in Name /\ Overrides \in Place
      BY <1>1, RegistryAssumption DEF NextOverride, Typed, TypeOK, Name, InRoots, Place
    <2>2. /\ phase = "overrides" /\ phase' = "overrides" /\ cursor' = cursor + 1
          /\ selected[cursor] = NoCandidate
          /\ \A n \in Name : shadowed[n] = {} /\ (selected[n] # NoCandidate => n < cursor)
      BY <1>1, <2>1 DEF NextOverride, Paths, Typed, TypeOK
    <2>3. /\ shadowed' = shadowed
          /\ \A n \in Name : n # cursor => selected'[n] = selected[n]
      <3>1. CASE cursor \in overridden
        <4>1. Insert(cursor, Overrides)
          BY <1>1, <3>1 DEF NextOverride
        <4> QED
          BY <1>0, <2>1, <2>2, <4>1, InsertCases
      <3>2. CASE cursor \notin overridden
        BY <1>1, <3>2 DEF NextOverride
      <3> QED
        BY <3>1, <3>2
    <2>4. \A n \in Name : n \in Nat
      BY DEF Name
    <2> QED
      BY <1>0, <2>1, <2>2, <2>3, <2>4 DEF Paths
  <1>2. CASE InsertEntry
    <2>1. PICK n \in entries : Insert(n, RootList[cursor]) /\ entries' = entries \ {n}
      BY <1>2 DEF InsertEntry
    <2>2. /\ RootList[cursor] \in Place /\ n \in Name /\ cursor \in 1 .. Len(RootList)
          /\ phase = "insert" /\ phase' = "entries" /\ cursor' = cursor
      BY <1>2, <2>1, RootPlace, RootCount DEF InsertEntry, Typed, TypeOK, InRoots, Scanning
    <2>3. CASE UNCHANGED shadowed
      BY <1>a, <2>2, <2>3
    <2>4. CASE ~UNCHANGED shadowed
      <3>1. PICK c \in Candidate :
                c.place = RootList[cursor] /\ shadowed' = [shadowed EXCEPT ![n] = @ \cup {c}]
        BY <2>1, <2>2, <2>4, InsertCases
      <3>2. \A d \in shadowed[n] : d.place # RootList[cursor]
        <4> SUFFICES ASSUME NEW d \in shadowed[n], d.place = RootList[cursor]
                     PROVE  FALSE
          OBVIOUS
        <4>1. PICK k \in 1 .. Len(RootList) : d.place = RootList[k] /\ Searched(k, n)
          BY <2>2 DEF Paths
        <4>2. k \in 1 .. cursor - 1
          BY <2>1, <2>2, <4>1 DEF Searched
        <4> QED
          BY <2>2, <4>1, <4>2 DEF Typed, InRoots, Repeated, Scanning
      <3>3. Searched(cursor, n)'
        BY <2>1, <2>2 DEF Searched, Scanning
      <3>4. \A m \in Name : \A d \in shadowed[m] :
                \E k \in 1 .. Len(RootList) : d.place = RootList[k] /\ Searched(k, m)'
        BY SearchedStays DEF Paths
      <3>5. \A m \in Name : \A d \in shadowed'[m] : d \in shadowed[m] \/ (m = n /\ d = c)
        BY <1>0, <2>2, <3>1
      <3>6. \A m \in Name : \A d \in shadowed'[m] :
                \E k \in 1 .. Len(RootList) : d.place = RootList[k] /\ Searched(k, m)'
        BY <2>2, <3>1, <3>3, <3>4, <3>5
      <3>7. \A m \in Name : \A d, e \in shadowed'[m] : d.place = e.place => d = e
        BY <3>1, <3>2, <3>5 DEF Paths
      <3> QED
        BY <2>2, <3>6, <3>7 DEF Paths
    <2> QED
      BY <2>3, <2>4
  <1>3. CASE OverridesDone \/ NextRoot \/ NextEntry \/ RootDone \/ Discovered \/ Inspect
             \/ Choose
    <2>1. UNCHANGED shadowed /\ phase' # "overrides"
      BY <1>3 DEF OverridesDone, NextRoot, NextEntry, RootDone, Discovered, Inspect, Choose,
                  searchVars
    <2> QED
      BY <1>a, <2>1
  <1>4. CASE Change \/ Stop \/ UNCHANGED vars
    <2>1. UNCHANGED <<phase, cursor, entries, selected, shadowed>>
      BY <1>4 DEF Change, Stop, vars, searchVars
    <2> QED
      BY <2>1 DEF Paths, Searched
  <1> QED
    BY <1>1, <1>2, <1>3, <1>4 DEF Next

LEMMA KeptInitially ==
    ASSUME Init
    PROVE  Kept
  <1>1. Typed /\ \A n \in Name : selected[n] = NoCandidate /\ shadowed[n] = {}
    BY TypedInitially DEF Init
  <1> QED
    BY <1>1 DEF Kept, Ranks, Paths

LEMMA KeptAlways == Spec => []Kept
  <1>1. Kept /\ [Next]_vars => Kept'
    BY TypedInductive, RanksInductive, PathsInductive DEF Kept
  <1> QED
    BY <1>1, KeptInitially, PTL DEF Spec

\* A shadowed candidate comes later than the selected one of its name, nothing
\* shadows an override, no path is reported twice and no rank is given twice,
\* for any names, roots and files and however often the files change during
\* the discovery (discovery.rs insert, discover_in_roots, build_roots).
THEOREM FirstWinsAlways == Spec => []FirstWins
  <1>1. Kept => FirstWins
    BY DEF Kept, Ranks, Paths, FirstWins
  <1> QED
    BY <1>1, KeptAlways, PTL

(***************************************************************************)
(* Proofs of the second part.                                              *)
(***************************************************************************)
\* While the count of changes is 0 nothing has happened to the files.
LEMMA Rest ==
    ASSUME Typed, [Next]_vars, changes' = 0
    PROVE  /\ changes = 0
           /\ UNCHANGED worldVars
           /\ \/ NextOverride \/ OverridesDone \/ NextRoot \/ NextEntry \/ InsertEntry \/ RootDone
              \/ Discovered \/ Inspect \/ Choose \/ UNCHANGED vars
  <1>1. ~Change
    BY DEF Change, Typed, TypeOK
  <1>2. CASE NextOverride \/ OverridesDone \/ NextRoot \/ NextEntry \/ InsertEntry \/ RootDone
             \/ Discovered \/ Inspect \/ Choose
    BY <1>2 DEF NextOverride, OverridesDone, NextRoot, NextEntry, InsertEntry, RootDone,
                Discovered, Inspect, Choose
  <1>3. CASE UNCHANGED vars
    BY <1>3 DEF vars
  <1> QED
    BY <1>1, <1>2, <1>3 DEF Next, Stop

LEMMA PositionStays ==
    ASSUME UNCHANGED worldVars
    PROVE  /\ \A n : Position(n)' = Position(n)
           /\ \A n, m : Earlier(n, m)' = Earlier(n, m)
           /\ \A p, n : WorthAt(p, n)' = WorthAt(p, n)
  BY DEF worldVars, Position, Earlier, WorthAt

\* The entry that InsertEntry takes.
LEMMA EntryTaken ==
    ASSUME Typed, InsertEntry
    PROVE  \E e \in entries :
              /\ \A m \in entries : e <= m
              /\ entries' = entries \ {e}
              /\ Insert(e, RootList[cursor])
              /\ e \in Name /\ RootList[cursor] \in Place /\ RootList[cursor] # Overrides
              /\ cursor \in 1 .. Len(RootList)
              /\ phase = "insert" /\ phase' = "entries" /\ cursor' = cursor
  BY RootPlace, RootCount DEF InsertEntry, Typed, TypeOK, InRoots, Scanning

\* How a place comes to be searched for a name.
LEMMA NewlySearched ==
    ASSUME Typed, NextOverride \/ OverridesDone \/ NextRoot \/ NextEntry \/ InsertEntry \/ RootDone
                  \/ Discovered \/ Inspect \/ Choose \/ UNCHANGED vars,
           NEW n \in Name, NEW k \in 1 .. Len(RootList), Searched(k, n)', ~Searched(k, n)
    PROVE  /\ k = cursor
           /\ \/ NextRoot /\ Repeated(cursor) /\ phase = "roots"
              \/ NextRoot /\ disk[RootList[cursor]][n] = NoFile
              \/ NextEntry /\ disk[RootList[cursor]][n] = NoFile
              \/ InsertEntry /\ n \in entries /\ n \notin entries'
  <1> USE RootCount DEF Typed, TypeOK, InRoots, Searched, Scanning
  <1>1. CASE NextOverride \/ OverridesDone
    BY <1>1 DEF NextOverride, OverridesDone
  <1>2. CASE NextRoot
    BY <1>2 DEF NextRoot
  <1>3. CASE NextEntry \/ InsertEntry
    BY <1>3 DEF NextEntry, InsertEntry
  <1>4. CASE RootDone
    BY <1>4 DEF RootDone
  <1>5. CASE Discovered \/ Inspect
    BY <1>5 DEF Discovered, Inspect, searchVars
  <1>6. CASE Choose
    BY <1>6 DEF Choose, searchVars
  <1>7. CASE UNCHANGED vars
    BY <1>7 DEF vars, searchVars
  <1> QED
    BY <1>1, <1>2, <1>3, <1>4, <1>5, <1>6, <1>7

\* A selected candidate stays, and so do the shadowed ones.
LEMMA SelectedStays ==
    ASSUME Typed, [Next]_vars, NEW n \in Name
    PROVE  /\ selected[n] # NoCandidate => selected'[n] = selected[n]
           /\ shadowed[n] \subseteq shadowed'[n]
  <1>0. /\ shadowed \in [Name -> SUBSET Candidate]
        /\ selected \in [Name -> Candidate \cup {NoCandidate}]
    BY DEF Typed, TypeOK
  <1>1. ASSUME NEW e \in Name, NEW p \in Place, Insert(e, p)
        PROVE  /\ selected[n] # NoCandidate => selected'[n] = selected[n]
               /\ shadowed[n] \subseteq shadowed'[n]
    BY <1>0, <1>1, InsertCases
  <1>2. CASE NextOverride
    <2>1. cursor \in Name /\ Overrides \in Place
      BY <1>2, RegistryAssumption DEF NextOverride, Typed, TypeOK, Name, InRoots, Place
    <2> QED
      BY <1>1, <1>2, <2>1 DEF NextOverride
  <1>3. CASE InsertEntry
    BY <1>1, <1>3, EntryTaken
  <1>4. CASE OverridesDone \/ NextRoot \/ NextEntry \/ RootDone \/ Discovered \/ Inspect
             \/ Choose \/ Change \/ Stop \/ UNCHANGED vars
    BY <1>4 DEF OverridesDone, NextRoot, NextEntry, RootDone, Discovered, Inspect, Choose,
                Change, Stop, vars, searchVars
  <1> QED
    BY <1>2, <1>3, <1>4 DEF Next

LEMMA ReportedInductive ==
    ASSUME Typed, AtRest, [Next]_vars, changes' = 0
    PROVE  Reported'
  <1> SUFFICES ASSUME NEW n \in Name, NEW k \in 1 .. Len(RootList),
                      Searched(k, n)', disk'[RootList[k]][n] # NoFile
               PROVE  Shown(k, n)'
    BY DEF Reported
  <1>0. /\ changes = 0 /\ disk' = disk
        /\ \/ NextOverride \/ OverridesDone \/ NextRoot \/ NextEntry \/ InsertEntry \/ RootDone
           \/ Discovered \/ Inspect \/ Choose \/ UNCHANGED vars
    BY Rest DEF worldVars
  <1>1. ASSUME NEW j \in 1 .. Len(RootList), Searched(j, n), RootList[j] = RootList[k]
        PROVE  Shown(k, n)'
    <2>1. Shown(j, n)
      BY <1>0, <1>1 DEF AtRest, Reported
    <2>2. selected'[n] = selected[n] /\ shadowed[n] \subseteq shadowed'[n]
      BY <2>1, SelectedStays DEF Shown
    <2> QED
      BY <1>0, <1>1, <2>1, <2>2 DEF Shown, same_file
  <1>2. CASE Searched(k, n)
    BY <1>1, <1>2
  <1>3. CASE NextRoot /\ k = cursor /\ Repeated(cursor) /\ phase = "roots"
    <2>1. PICK j \in 1 .. cursor - 1 : RootList[j] = RootList[cursor]
      BY <1>3 DEF Repeated
    <2>2. j \in 1 .. Len(RootList) /\ Searched(j, n)
      BY <1>3, <2>1, RootCount DEF Searched, Typed, TypeOK
    <2> QED
      BY <1>1, <1>3, <2>1, <2>2
  <1>4. CASE InsertEntry /\ k = cursor /\ n \in entries /\ n \notin entries'
    <2>1. /\ n \in Name /\ RootList[k] \in Place
          /\ Insert(n, RootList[k])
      BY <1>0, <1>4, EntryTaken
    <2>2. PICK c \in Candidate :
              /\ c = [name |-> n, place |-> RootList[k], rank |-> precedence]
              /\ c # NoCandidate /\ c.place = RootList[k]
              /\ \/ /\ selected[n] # NoCandidate /\ selected' = selected
                    /\ \/ shadowed' = shadowed /\ same_file(selected[n], c)
                       \/ shadowed' = [shadowed EXCEPT ![n] = @ \cup {c}]
                 \/ /\ selected[n] = NoCandidate /\ shadowed' = shadowed
                    /\ selected' = [selected EXCEPT ![n] = c]
      BY <2>1, InsertCases
    <2>3. CASE selected[n] # NoCandidate /\ selected' = selected /\ same_file(selected[n], c)
      BY <1>0, <2>2, <2>3 DEF Shown, same_file
    <2>4. CASE /\ selected[n] # NoCandidate /\ selected' = selected
               /\ shadowed' = [shadowed EXCEPT ![n] = @ \cup {c}]
      BY <2>2, <2>4 DEF Shown, Typed, TypeOK
    <2>5. CASE /\ selected[n] = NoCandidate
               /\ selected' = [selected EXCEPT ![n] = c]
      BY <2>2, <2>5 DEF Shown, Typed, TypeOK
    <2> QED
      BY <2>2, <2>3, <2>4, <2>5
  <1> QED
    BY <1>0, <1>2, <1>3, <1>4, NewlySearched

LEMMA EntriesInductive ==
    ASSUME Typed, AtRest, [Next]_vars, changes' = 0
    PROVE  Entries'
  <1>0. /\ changes = 0 /\ disk' = disk /\ Entries
        /\ \/ NextOverride \/ OverridesDone \/ NextRoot \/ NextEntry \/ InsertEntry \/ RootDone
           \/ Discovered \/ Inspect \/ Choose \/ UNCHANGED vars
    BY Rest DEF worldVars, AtRest
  <1>1. CASE NextRoot
    BY <1>0, <1>1 DEF NextRoot, Entries, Scanning
  <1>5. CASE NextEntry
    BY <1>0, <1>5 DEF NextEntry, Entries, Scanning
  <1>2. CASE InsertEntry
    <2>1. PICK e \in entries :
              /\ \A m \in entries : e <= m
              /\ entries' = entries \ {e}
              /\ phase = "insert" /\ cursor' = cursor
      BY <1>2, EntryTaken
    <2>2. entries \subseteq Nat /\ entries \subseteq Name
      BY DEF Typed, TypeOK, Name
    <2>3. ASSUME NEW n \in entries', NEW m \in Name \ entries',
                 disk[RootList[cursor]][m] # NoFile
          PROVE  m < n
      <3>1. n \in entries /\ n # e /\ n \in Nat /\ e \in Nat
        BY <2>1, <2>2
      <3>2. CASE m = e
        BY <2>1, <3>1, <3>2
      <3>3. CASE m \notin entries
        BY <1>0, <2>1, <2>3, <3>1, <3>3 DEF Entries, Scanning
      <3> QED
        BY <2>1, <3>2, <3>3
    <2> QED
      BY <1>0, <2>1, <2>3 DEF Entries, Scanning
  <1>3. CASE NextOverride \/ OverridesDone \/ RootDone \/ Discovered \/ Inspect \/ Choose
    BY <1>3 DEF NextOverride, OverridesDone, RootDone, Discovered, Inspect, Choose, Entries,
                Scanning
  <1>4. CASE UNCHANGED vars
    BY <1>0, <1>4 DEF vars, searchVars, Entries
  <1> QED
    BY <1>0, <1>1, <1>2, <1>3, <1>4, <1>5

\* How a name comes to be selected, with the files at rest.
LEMMA NewlySelected ==
    ASSUME Typed, AtRest, [Next]_vars, changes' = 0, NEW n \in Name,
           selected[n] = NoCandidate, selected'[n] # NoCandidate
    PROVE  /\ selected'[n].rank = precedence
           /\ \A m \in Name \ {n} : selected'[m] = selected[m]
           /\ \/ /\ NextOverride /\ phase = "overrides" /\ n = cursor /\ n \in overridden
                 /\ selected'[n].place = Overrides
              \/ /\ InsertEntry /\ phase = "insert" /\ n \in entries
                 /\ cursor \in 1 .. Len(RootList)
                 /\ disk[RootList[cursor]][n] # NoFile /\ entries' = entries \ {n}
                 /\ selected'[n].place = RootList[cursor]
  <1>0. /\ \/ NextOverride \/ OverridesDone \/ NextRoot \/ NextEntry \/ InsertEntry \/ RootDone
           \/ Discovered \/ Inspect \/ Choose \/ UNCHANGED vars
        /\ selected \in [Name -> Candidate \cup {NoCandidate}]
    BY Rest DEF Typed, TypeOK
  <1>a. ASSUME NEW e \in Name, NEW p \in Place, Insert(e, p)
        PROVE  /\ n = e /\ selected'[n].rank = precedence /\ selected'[n].place = p
               /\ \A m \in Name \ {n} : selected'[m] = selected[m]
    BY <1>0, <1>a, InsertCases
  <1>1. CASE NextOverride
    <2>1. cursor \in Name /\ Overrides \in Place
      BY <1>1, RegistryAssumption DEF NextOverride, Typed, TypeOK, Name, InRoots, Place
    <2>2. cursor \in overridden /\ Insert(cursor, Overrides) /\ phase = "overrides"
      BY <1>1 DEF NextOverride
    <2> QED
      BY <1>1, <1>a, <2>1, <2>2
  <1>2. CASE InsertEntry
    <2>1. PICK e \in entries :
              /\ entries' = entries \ {e}
              /\ Insert(e, RootList[cursor])
              /\ e \in Name /\ RootList[cursor] \in Place
              /\ cursor \in 1 .. Len(RootList) /\ phase = "insert"
      BY <1>2, EntryTaken
    <2>2. disk[RootList[cursor]][e] # NoFile
      BY <2>1, Rest DEF AtRest, Entries, Scanning
    <2> QED
      BY <1>2, <1>a, <2>1, <2>2
  <1>3. CASE OverridesDone \/ NextRoot \/ NextEntry \/ RootDone \/ Discovered \/ Inspect
             \/ Choose \/ UNCHANGED vars
    BY <1>3 DEF OverridesDone, NextRoot, NextEntry, RootDone, Discovered, Inspect, Choose,
                vars, searchVars
  <1> QED
    BY <1>0, <1>1, <1>2, <1>3

\* Where a name that is selected now is to be looked up.
LEMMA NewPosition ==
    ASSUME Typed, AtRest, [Next]_vars, changes' = 0, NEW n \in Name,
           selected[n] = NoCandidate, selected'[n] # NoCandidate
    PROVE  \/ /\ NextOverride /\ phase = "overrides" /\ n = cursor /\ n \in overridden
              /\ 0 \in Position(n)
           \/ /\ InsertEntry /\ phase = "insert" /\ n \notin overridden
              /\ cursor \in Position(n) /\ n \in entries
  <1>0. changes = 0 /\ Placed(n)
    BY Rest DEF AtRest
  <1>1. CASE NextOverride /\ phase = "overrides" /\ n = cursor /\ n \in overridden
    BY <1>1 DEF Position
  <1>2. CASE /\ InsertEntry /\ phase = "insert" /\ n \in entries
             /\ cursor \in 1 .. Len(RootList)
             /\ disk[RootList[cursor]][n] # NoFile
    <2>1. n \notin overridden
      BY <1>0, <1>2 DEF Placed
    <2>2. \A j \in 1 .. cursor - 1 : disk[RootList[j]][n] = NoFile
      <3> SUFFICES ASSUME NEW j \in 1 .. cursor - 1
                   PROVE  disk[RootList[j]][n] = NoFile
        OBVIOUS
      <3>1. j \in 1 .. Len(RootList) /\ Searched(j, n)
        BY <1>2, RootCount DEF Searched, Typed, TypeOK
      <3> QED
        BY <1>0, <1>2, <2>1, <3>1 DEF Placed
    <2> QED
      BY <1>2, <2>1, <2>2 DEF Position
  <1> QED
    BY <1>1, <1>2, NewlySelected

LEMMA PlacedInductive ==
    ASSUME Typed, AtRest, [Next]_vars, changes' = 0, NEW n \in Name
    PROVE  Placed(n)'
  <1>0. /\ changes = 0 /\ disk' = disk /\ overridden' = overridden /\ Placed(n)
        /\ Position(n)' = Position(n)
        /\ \/ NextOverride \/ OverridesDone \/ NextRoot \/ NextEntry \/ InsertEntry \/ RootDone
           \/ Discovered \/ Inspect \/ Choose \/ UNCHANGED vars
    BY Rest, PositionStays DEF worldVars, AtRest
  <1>1. CASE NextOverride
    <2>1. phase = "overrides" /\ phase' = "overrides" /\ cursor' = cursor + 1
      BY <1>1 DEF NextOverride
    <2>2. n \in Nat /\ cursor \in Nat
      BY DEF Name, Typed, TypeOK
    <2>3. CASE selected'[n] = selected[n]
      <3>1. n = cursor => n \notin overridden
        <4> SUFFICES ASSUME n = cursor, n \in overridden
                     PROVE  FALSE
          OBVIOUS
        <4>1. Insert(n, Overrides) /\ Overrides \in Place /\ selected[n] = NoCandidate
          BY <1>0, <1>1, <2>1, <2>2 DEF NextOverride, Place, Placed
        <4>2. selected'[n] # NoCandidate
          BY <4>1, InsertCases DEF Typed, TypeOK
        <4> QED
          BY <2>3, <4>1, <4>2
      <3> QED
        BY <1>0, <2>1, <2>2, <2>3, <3>1 DEF Placed
    <2>4. CASE selected'[n] # selected[n]
      <3>1. selected[n] = NoCandidate /\ selected'[n] # NoCandidate
        BY <2>4, SelectedStays
      <3>2. n = cursor /\ n \in overridden /\ selected'[n].place = Overrides
        BY <2>1, <3>1, NewlySelected
      <3> QED
        BY <1>0, <2>1, <2>2, <3>1, <3>2 DEF Placed
    <2> QED
      BY <2>3, <2>4
  <1>2. CASE OverridesDone
    <2>1. /\ phase = "overrides" /\ phase' = "roots" /\ cursor' = 1 /\ selected' = selected
          /\ n < cursor
      BY <1>2, RegistryAssumption DEF OverridesDone, Name, Typed, TypeOK
    <2>2. \A k \in 1 .. Len(RootList) : ~Searched(k, n)'
      BY <2>1, RootCount DEF Searched, Scanning
    <2> QED
      BY <1>0, <2>1, <2>2 DEF Placed
  <1>3. CASE ~NextOverride /\ ~OverridesDone
    <2>0. (phase # "overrides" /\ phase' # "overrides") \/ UNCHANGED vars
      BY <1>0, <1>3 DEF NextRoot, NextEntry, InsertEntry, RootDone, Discovered, Inspect,
                        Choose
    <2>1. CASE UNCHANGED vars
      BY <1>0, <2>1 DEF vars, searchVars, Placed, Searched
    <2>2. CASE phase # "overrides" /\ phase' # "overrides"
      <3>1. CASE n \in overridden
        BY <1>0, <2>2, <3>1, SelectedStays DEF Placed
      <3>2. CASE n \notin overridden /\ selected[n] # NoCandidate
        <4>1. PICK k \in Position(n) : selected[n].place = RootList[k] /\ Searched(k, n)
          BY <1>0, <2>2, <3>2 DEF Placed
        <4>2. Searched(k, n)' /\ selected'[n] = selected[n]
          BY <3>2, <4>1, SearchedStays, SelectedStays DEF Position
        <4> QED
          BY <1>0, <2>2, <3>2, <4>1, <4>2 DEF Placed
      <3>3. CASE /\ n \notin overridden /\ selected[n] = NoCandidate
                 /\ selected'[n] # NoCandidate
        <4>1. /\ InsertEntry /\ phase = "insert" /\ cursor \in Position(n)
              /\ n \in entries /\ entries' = entries \ {n}
              /\ selected'[n].place = RootList[cursor]
          BY <2>2, <3>3, NewPosition, NewlySelected
        <4>2. PICK k \in Position(n) : k = cursor
          BY <4>1
        <4>3. Searched(k, n)'
          BY <4>1, <4>2 DEF InsertEntry, Searched, Scanning
        <4> QED
          BY <1>0, <2>2, <3>3, <4>1, <4>2, <4>3 DEF Placed
      <3>4. CASE /\ n \notin overridden /\ selected[n] = NoCandidate
                 /\ selected'[n] = NoCandidate
        <4> SUFFICES ASSUME NEW k \in 1 .. Len(RootList), Searched(k, n)'
                     PROVE  disk[RootList[k]][n] = NoFile
          BY <1>0, <2>2, <3>4 DEF Placed
        <4>1. \A j \in 1 .. Len(RootList) : Searched(j, n) => disk[RootList[j]][n] = NoFile
          BY <1>0, <2>2, <3>4 DEF Placed
        <4>2. CASE Searched(k, n)
          BY <4>1, <4>2
        <4>3. CASE k = cursor /\ Repeated(cursor) /\ phase = "roots"
          <5>1. PICK j \in 1 .. cursor - 1 : RootList[j] = RootList[cursor]
            BY <4>3 DEF Repeated
          <5>2. j \in 1 .. Len(RootList) /\ Searched(j, n)
            BY <4>3, <5>1, RootCount DEF Searched, Typed, TypeOK
          <5> QED
            BY <4>1, <4>3, <5>1, <5>2
        <4>4. CASE InsertEntry /\ k = cursor /\ n \in entries /\ n \notin entries'
          <5>1. RootList[cursor] \in Place /\ Insert(n, RootList[cursor])
            BY <4>4, EntryTaken
          <5>2. Insert(n, RootList[cursor]) => selected'[n] # NoCandidate
            BY <3>4, <5>1, InsertCases DEF Typed, TypeOK
          <5> QED
            BY <3>4, <4>4, <5>1, <5>2
        <4> QED
          BY <1>0, <4>2, <4>3, <4>4, NewlySearched
      <3> QED
        BY <3>1, <3>2, <3>3, <3>4
    <2> QED
      BY <2>0, <2>1, <2>2
  <1> QED
    BY <1>1, <1>2, <1>3

LEMMA OrderedInductive ==
    ASSUME Kept, AtRest, [Next]_vars, changes' = 0, NEW n \in Name, NEW m \in Name
    PROVE  Ordered(n, m)'
  <1> SUFFICES ASSUME selected'[n] # NoCandidate, selected'[m] # NoCandidate,
                      selected'[n].rank < selected'[m].rank
               PROVE  Earlier(n, m)
    BY Rest, PositionStays DEF Ordered, Kept
  <1>0. changes = 0 /\ Typed /\ Placed(n) /\ Ordered(n, m) /\ Entries
    BY Rest DEF AtRest, Kept
  <1>1. CASE selected[n] # NoCandidate /\ selected[m] # NoCandidate
    BY <1>0, <1>1, SelectedStays DEF Ordered
  <1>2. CASE selected[n] = NoCandidate
    <2>1. /\ selected'[n].rank = precedence
          /\ \A q \in Name \ {n} : selected'[q] = selected[q]
      BY <1>0, <1>2, NewlySelected
    <2>2. m # n
      BY <2>1 DEF Kept, Typed, TypeOK
    <2>3. selected[m] # NoCandidate /\ precedence < selected[m].rank
      BY <2>1, <2>2
    <2>4. selected[m].rank < precedence
      BY <2>3 DEF Kept, Ranks
    <2>5. selected[m].rank \in Nat /\ precedence \in Nat
      BY <1>0, NoCandidateApart DEF Typed, TypeOK
    <2> QED
      BY <2>3, <2>4, <2>5
  <1>3. CASE selected[n] # NoCandidate /\ selected[m] = NoCandidate
    <2>1. CASE /\ phase = "overrides" /\ m = cursor /\ 0 \in Position(m)
      <3>1. n < m /\ 0 \in Position(n)
        BY <1>0, <1>3, <2>1 DEF Placed, Position
      <3> QED
        BY <2>1, <3>1 DEF Earlier
    <2>2. CASE /\ phase = "insert" /\ cursor \in Position(m) /\ m \in entries
      <3>0. cursor >= 1 /\ cursor \in Nat
        BY <1>0 DEF Typed, TypeOK, InRoots
      <3>1. CASE n \in overridden
        <4>1. 0 \in Position(n)
          BY <3>1 DEF Position
        <4> QED
          BY <2>2, <3>0, <4>1 DEF Earlier
      <3>2. CASE n \notin overridden
        <4>1. PICK k \in Position(n) : Searched(k, n)
          BY <1>0, <1>3, <2>2, <3>2 DEF Placed
        <4>2. CASE k < cursor
          BY <2>2, <4>1, <4>2 DEF Earlier
        <4>3. CASE k = cursor /\ n \notin entries
          <5>1. disk[RootList[cursor]][n] # NoFile
            BY <3>2, <4>1, <4>3 DEF Position
          <5>2. n < m
            BY <1>0, <2>2, <4>3, <5>1 DEF Entries, Scanning
          <5> QED
            BY <2>2, <4>1, <4>3, <5>2 DEF Earlier
        <4> QED
          BY <4>1, <4>2, <4>3 DEF Searched
      <3> QED
        BY <3>1, <3>2
    <2> QED
      BY <1>0, <1>3, <2>1, <2>2, NewPosition
  <1> QED
    BY <1>1, <1>2, <1>3

LEMMA WorthStays ==
    ASSUME UNCHANGED <<worldVars, selected>>, NEW n
    PROVE  Worth(n)' = Worth(n)
  BY PositionStays DEF Worth, worldVars

LEMMA WeighedInductive ==
    ASSUME Typed, AtRest, [Next]_vars, changes' = 0
    PROVE  Weighed'
  <1>0. /\ changes = 0 /\ Weighed /\ want' = want /\ UNCHANGED worldVars
        /\ \/ NextOverride \/ OverridesDone \/ NextRoot \/ NextEntry \/ InsertEntry \/ RootDone
           \/ Discovered \/ Inspect \/ Choose \/ UNCHANGED vars
    BY Rest DEF worldVars, AtRest
  <1>1. CASE NextOverride \/ OverridesDone \/ NextRoot \/ NextEntry \/ InsertEntry \/ RootDone
    BY <1>0, <1>1 DEF NextOverride, OverridesDone, NextRoot, NextEntry, InsertEntry,
                      RootDone, inspectVars, Weighed, Scanning
  <1>2. CASE Discovered
    <2>1. /\ phase = "roots" /\ phase' = "inspect"
          /\ toInspect' = {n \in Name : selected[n] # NoCandidate /\ want \in {n, Anything}}
          /\ selected' = selected /\ fitting' = fitting
      BY <1>2 DEF Discovered, searchVars
    <2>2. \A n \in Name : n \notin toInspect' => Worth(n)' = 0
      BY <1>0, <2>1 DEF Worth
    <2> QED
      BY <1>0, <2>1, <2>2 DEF Weighed
  <1>3. CASE Inspect
    <2>1. PICK n \in toInspect :
              /\ fitting' = [fitting EXCEPT ![n] = WorthAt(selected[n].place, n)]
              /\ toInspect' = toInspect \ {n}
      BY <1>3 DEF Inspect
    <2>2. phase = "inspect" /\ phase' = "inspect" /\ selected' = selected
      BY <1>3 DEF Inspect, searchVars
    <2>3. n \in Name /\ fitting \in [Name -> 0 .. MaxWorth]
      BY <2>1 DEF Typed, TypeOK
    <2>4. WorthAt(selected[n].place, n) = Worth(n)
      BY <1>0, <2>1, <2>2, <2>3 DEF Weighed, Worth
    <2>5. \A q \in Name : IF q \in toInspect'
                          THEN /\ want \in {q, Anything} /\ selected[q] # NoCandidate
                               /\ fitting'[q] = 0
                          ELSE fitting'[q] = Worth(q)
      BY <1>0, <2>1, <2>2, <2>3, <2>4 DEF Weighed
    <2>6. \A q : Worth(q)' = Worth(q)
      BY <1>0, <2>2, WorthStays
    <2> QED
      BY <1>0, <2>2, <2>5, <2>6 DEF Weighed, Scanning
  <1>4. CASE Choose
    <2>1. /\ phase = "inspect" /\ toInspect = {} /\ toInspect' = toInspect
          /\ selected' = selected /\ fitting' = fitting
          /\ \/ /\ {n \in Name : fitting[n] > 0} = {} /\ phase' = "no_match"
             \/ /\ phase' = "resolved"
                /\ \E n \in Name :
                      /\ fitting[n] > 0
                      /\ \A m \in Name : fitting[m] > 0 => Before(n, m)
                      /\ resolved' = n
      BY <1>4 DEF Choose, searchVars
    <2>2. \A q : Worth(q)' = Worth(q)
      BY <1>0, <2>1, WorthStays
    <2>3. \A n \in Name : fitting[n] \in Nat
      BY RegistryAssumption DEF Typed, TypeOK
    <2>4. CASE phase' = "no_match" /\ {n \in Name : fitting[n] > 0} = {}
      BY <1>0, <2>1, <2>2, <2>3, <2>4 DEF Weighed
    <2>5. CASE phase' = "resolved"
      <3>1. PICK n \in Name :
                /\ fitting[n] > 0
                /\ \A m \in Name : fitting[m] > 0 => Before(n, m)
                /\ resolved' = n
        BY <2>1, <2>5
      <3>2. \A m \in Name : fitting'[m] > 0 => Before(resolved, m)'
        BY <2>1, <3>1 DEF Before
      <3> QED
        BY <1>0, <2>1, <2>2, <2>5, <3>1, <3>2 DEF Weighed, Scanning
    <2> QED
      BY <2>1, <2>4, <2>5
  <1>5. CASE UNCHANGED vars
    <2>1. UNCHANGED <<phase, toInspect, fitting, resolved, selected>>
      BY <1>5 DEF vars, searchVars, inspectVars
    <2>2. \A q : Worth(q)' = Worth(q)
      BY <1>0, <2>1, WorthStays
    <2> QED
      BY <1>0, <2>1, <2>2 DEF Weighed, Before
  <1> QED
    BY <1>0, <1>1, <1>2, <1>3, <1>4, <1>5

LEMMA AtRestInitially ==
    ASSUME Init
    PROVE  AtRest
  <1>1. /\ phase = "overrides" /\ cursor = 1
        /\ \A n \in Name : selected[n] = NoCandidate /\ fitting[n] = 0 /\ ~(n < 1)
    BY DEF Init, Name
  <1>2. Reported /\ Entries
    BY <1>1 DEF Reported, Entries, Searched, Scanning
  <1>3. \A n \in Name : Placed(n)
    BY <1>1 DEF Placed
  <1>4. \A n, m \in Name : Ordered(n, m)
    BY <1>1 DEF Ordered
  <1>5. Weighed
    BY <1>1 DEF Weighed, Scanning
  <1> QED
    BY <1>2, <1>3, <1>4, <1>5 DEF AtRest

LEMMA AtRestAlways == Spec => [](Kept /\ AtRest)
  <1>1. ASSUME Kept, AtRest, [Next]_vars
        PROVE  AtRest'
    <2> SUFFICES ASSUME changes' = 0
                 PROVE  /\ Reported' /\ Entries' /\ Weighed'
                        /\ \A n \in Name : Placed(n)'
                        /\ \A n, m \in Name : Ordered(n, m)'
      BY DEF AtRest
    <2>1. Typed
      BY <1>1 DEF Kept
    <2> QED
      BY <1>1, <2>1, ReportedInductive, EntriesInductive, WeighedInductive,
         PlacedInductive, OrderedInductive
  <1>2. Kept /\ [Next]_vars => Kept'
    BY TypedInductive, RanksInductive, PathsInductive DEF Kept
  <1> QED
    BY <1>1, <1>2, KeptInitially, AtRestInitially, PTL DEF Spec

\* With the files at rest everything a used root holds is reported, as the
\* selected candidate of its name, as a shadowed one, or because it is the
\* selected one's own file, for any names, roots and files (discovery.rs
\* insert, same_file; README "duplicate identities remain visible").
THEOREM NothingHiddenAlways == Spec => []NothingHidden
  <1>1. Kept /\ AtRest => NothingHidden
    <2> SUFFICES ASSUME Kept, AtRest, changes = 0,
                        phase \in {"inspect", "resolved", "no_match"},
                        NEW k \in 1 .. Len(RootList), NEW n \in Name,
                        disk[RootList[k]][n] # NoFile
                 PROVE  Shown(k, n)
      BY DEF NothingHidden, Shown
    <2>1. Searched(k, n)
      BY RootCount DEF Kept, Typed, TypeOK, InRoots, Searched
    <2> QED
      BY <2>1 DEF AtRest, Reported
  <1> QED
    BY <1>1, AtRestAlways, PTL

\* A name has one position at most.
LEMMA OnePosition ==
    ASSUME NEW n, NEW i \in Position(n), NEW j \in Position(n)
    PROVE  i = j
  <1>1. CASE n \in overridden
    BY <1>1 DEF Position
  <1>2. CASE n \notin overridden
    <2>1. /\ i \in 1 .. Len(RootList) /\ j \in 1 .. Len(RootList)
          /\ disk[RootList[i]][n] # NoFile /\ disk[RootList[j]][n] # NoFile
          /\ \A q \in 1 .. i - 1 : disk[RootList[q]][n] = NoFile
          /\ \A q \in 1 .. j - 1 : disk[RootList[q]][n] = NoFile
      BY <1>2 DEF Position
    <2>2. ~(i < j) /\ ~(j < i)
      BY <2>1, RootCount
    <2> QED
      BY <2>1, <2>2, RootCount
  <1> QED
    BY <1>1, <1>2

\* When all is searched, the selected candidate is where the documented
\* precedence looks the name up.
LEMMA SelectedAtPosition ==
    ASSUME Kept, AtRest, changes = 0, phase \in {"resolved", "no_match"}, NEW n \in Name
    PROVE  /\ selected[n] = NoCandidate => Position(n) = {}
           /\ selected[n] # NoCandidate =>
                 /\ Position(n) # {}
                 /\ \A k \in Position(n) : k \in Nat /\ selected[n].place = PlaceAt(k)
  <1>0. Placed(n) /\ \A k \in 1 .. Len(RootList) : Searched(k, n)
    BY RootCount DEF AtRest, Kept, Typed, TypeOK, InRoots, Searched
  <1>1. CASE n \in overridden
    BY <1>0, <1>1 DEF Placed, Position, PlaceAt
  <1>2. CASE n \notin overridden /\ selected[n] = NoCandidate
    BY <1>0, <1>2 DEF Placed, Position
  <1>3. CASE n \notin overridden /\ selected[n] # NoCandidate
    <2>1. PICK k \in Position(n) : selected[n].place = RootList[k]
      BY <1>0, <1>3 DEF Placed
    <2>2. k \in 1 .. Len(RootList)
      BY <1>3, <2>1 DEF Position
    <2>3. \A j \in Position(n) : j = k
      BY <2>1, OnePosition
    <2> QED
      BY <1>3, <2>1, <2>2, <2>3, RootCount DEF PlaceAt
  <1> QED
    BY <1>1, <1>2, <1>3

\* With the files at rest resolve_best answers with the plugin that the
\* documented precedence and the application's scores single out, and with
\* NoMatch exactly when no plugin fits, for any number of names, executables
\* and roots (registry.rs resolve_best; README "Discovery precedence").
THEOREM ResolvesRightAlways == Spec => []ResolvesRight
  <1>1. Kept /\ AtRest => ResolvesRight
    <2> SUFFICES ASSUME Kept, AtRest, changes = 0, phase \in {"resolved", "no_match"}
                 PROVE  /\ phase = "resolved" => Right = {resolved}
                        /\ phase = "no_match" => Right = {}
      BY DEF ResolvesRight
    <2> DEFINE worth(n) == IF want \in {n, Anything} /\ Position(n) # {}
                           THEN WorthAt(PlaceAt(CHOOSE k \in Position(n) : TRUE), n) ELSE 0
               position(n) == CHOOSE k \in Position(n) : TRUE
               fits == {n \in Name : worth(n) > 0}
               beats(n, m) == \/ worth(m) < worth(n)
                              \/ worth(m) = worth(n) /\ position(m) > position(n)
                              \/ worth(m) = worth(n) /\ position(m) = position(n) /\ m > n
    <2>1. Right = {n \in fits : \A m \in fits \ {n} : beats(n, m)}
      BY DEF Right
    <2>2. ASSUME NEW n \in Name
          PROVE  /\ worth(n) = fitting[n]
                 /\ selected[n] # NoCandidate => position(n) \in Position(n) /\ position(n) \in Nat
                 /\ worth(n) > 0 => selected[n] # NoCandidate
      <3>1. CASE selected[n] = NoCandidate
        <4>1. Worth(n) = 0 /\ worth(n) = 0
          BY <3>1, SelectedAtPosition DEF Worth
        <4> QED
          BY <3>1, <4>1 DEF AtRest, Weighed
      <3>2. CASE selected[n] # NoCandidate
        <4>1. /\ Position(n) # {}
              /\ \A k \in Position(n) : k \in Nat /\ selected[n].place = PlaceAt(k)
          BY <3>2, SelectedAtPosition
        <4>2. position(n) \in Position(n)
          BY <4>1
        <4>3. worth(n) = Worth(n)
          BY <3>2, <4>1, <4>2 DEF Worth
        <4> QED
          BY <3>2, <4>1, <4>2, <4>3 DEF AtRest, Weighed
      <3> QED
        BY <3>1, <3>2
    <2> HIDE DEF worth, position
    <2>3. CASE phase = "no_match"
      <3>1. fits = {}
        BY <2>2, <2>3 DEF AtRest, Weighed
      <3> QED
        BY <2>1, <2>3, <3>1
    <2>4. CASE phase = "resolved"
      <3>1. /\ resolved \in Name /\ fitting[resolved] > 0
            /\ \A m \in Name : fitting[m] > 0 => Before(resolved, m)
        BY <2>4 DEF AtRest, Weighed
      <3>2. resolved \in fits
        BY <2>2, <3>1
      <3>3. \A n \in Name : fitting[n] \in Nat /\ selected[n].rank \in Nat /\ n \in Nat
        BY RegistryAssumption, NoCandidateApart DEF Kept, Typed, TypeOK, Name
      <3>4. ASSUME NEW m \in fits, m # resolved
            PROVE  beats(resolved, m) /\ ~beats(m, resolved)
        <4>0. /\ m \in Name /\ worth(m) = fitting[m] /\ worth(resolved) = fitting[resolved]
              /\ fitting[m] > 0
              /\ selected[m] # NoCandidate /\ selected[resolved] # NoCandidate
              /\ position(m) \in Position(m) /\ position(resolved) \in Position(resolved)
              /\ position(m) \in Nat /\ position(resolved) \in Nat
          BY <2>2, <3>1, <3>4
        <4>1. CASE fitting[resolved] > fitting[m]
          BY <3>1, <3>3, <4>0, <4>1
        <4>2. CASE fitting[resolved] = fitting[m] /\ selected[resolved].rank <= selected[m].rank
          <5>1. selected[resolved].rank # selected[m].rank
            BY <3>1, <3>4, <4>0 DEF Kept, Ranks
          <5>2. Earlier(resolved, m)
            BY <3>1, <3>3, <4>0, <4>2, <5>1 DEF AtRest, Ordered
          <5>3. PICK i \in Position(resolved), j \in Position(m) :
                    i < j \/ (i = j /\ resolved < m)
            BY <5>2 DEF Earlier
          <5>4. i = position(resolved) /\ j = position(m)
            BY <4>0, <5>3, OnePosition
          <5> QED
            BY <3>1, <3>3, <4>0, <4>2, <5>3, <5>4
        <4> QED
          BY <3>1, <4>0, <4>1, <4>2 DEF Before
      <3>5. resolved \in Right
        BY <2>1, <3>2, <3>4
      <3>6. \A n \in Right : n = resolved
        BY <2>1, <3>2, <3>4
      <3> QED
        BY <2>4, <3>5, <3>6
    <2> QED
      BY <2>3, <2>4
  <1> QED
    BY <1>1, AtRestAlways, PTL
=============================================================================
