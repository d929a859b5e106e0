------------------------- MODULE TopoParameterProofs -------------------------
(***************************************************************************)
(* Theorems about TopoParameter: for every file, every set of keys and     *)
(* whatever the parsing functions make of them.                            *)
(***************************************************************************)
EXTENDS TopoParameter, FunctionTheorems, FiniteSetTheorems, TLAPS

-----------------------------------------------------------------------------
(* Counting                                                                *)

(* The numbers below n + 1 that were counted, and one more.                *)
LEMMA CountedUpTo ==
    ASSUME NEW n \in Nat, NEW S \in SUBSET (1..n)
    PROVE  /\ IsFiniteSet(S) /\ Cardinality(S) \in Nat
           /\ n + 1 \notin S
           /\ Cardinality(S \cup {n + 1}) = Cardinality(S) + 1
<1>1. IsFiniteSet(1..n)
  BY FS_Interval
<1>2. IsFiniteSet(S)
  BY <1>1, FS_Subset
<1>3. n + 1 \notin S
  OBVIOUS
<1> QED
  BY <1>2, <1>3, FS_CardinalityType, FS_AddElement

(* The place of a counted number.                                          *)
LEMMA PlaceOf ==
    ASSUME NEW n \in Nat, NEW S \in SUBSET (1..n), NEW T \in SUBSET S, T # {}
    PROVE  Cardinality(T) \in 1..Cardinality(S)
<1>1. IsFiniteSet(S) /\ Cardinality(S) \in Nat
  BY CountedUpTo
<1>2. IsFiniteSet(T) /\ Cardinality(T) <= Cardinality(S)
  BY <1>1, FS_Subset
<1>3. Cardinality(T) \in Nat /\ Cardinality(T) # 0
  BY <1>2, FS_CardinalityType, FS_EmptySet
<1> QED
  BY <1>1, <1>2, <1>3

LEMMA LinesOfStep ==
    ASSUME NEW k, NEW n \in Nat
    PROVE  /\ LinesOf(k, 0) = {}
           /\ LinesOf(k, n) \in SUBSET (1..n)
           /\ LinesOf(k, n + 1) = IF file[n + 1].key = k THEN LinesOf(k, n) \cup {n + 1}
                                                          ELSE LinesOf(k, n)
           /\ \A i \in LinesOf(k, n) : LinesOf(k, i) \subseteq LinesOf(k, n) /\ i \in LinesOf(k, i)
BY DEF LinesOf

LEMMA PathsUpToStep ==
    ASSUME NEW n \in Nat
    PROVE  /\ PathsUpTo(0) = {}
           /\ PathsUpTo(n) \in SUBSET (1..n)
           /\ PathsUpTo(n + 1) = IF SortedKeys[n + 1] \in SoundPaths THEN PathsUpTo(n) \cup {n + 1}
                                                                     ELSE PathsUpTo(n)
           /\ \A i \in PathsUpTo(n) : PathsUpTo(i) \subseteq PathsUpTo(n) /\ i \in PathsUpTo(i)
BY DEF PathsUpTo

-----------------------------------------------------------------------------
(* What depends on the dictionary only                                     *)

LEMMA SameDictionary ==
    ASSUME parameters' = parameters
    PROVE  /\ SoundPaths' = SoundPaths
           /\ \A n : PathsUpTo(n)' = PathsUpTo(n)
           /\ ChangesOn' <=> ChangesOn
           /\ \A k : SoundPathLine(k)' <=> SoundPathLine(k)
           /\ \A k : SoundChange(k)' <=> SoundChange(k)
           /\ SoundFile' <=> SoundFile
           /\ \A l, n : ChangesNamed(l, n)' = ChangesNamed(l, n)
           /\ \A j : ChangeAt(j)' = ChangeAt(j)
<1>1. SoundPaths' = SoundPaths
  BY DEF SoundPaths, Present, IsList, Value
<1>2. \A n : PathsUpTo(n)' = PathsUpTo(n)
  BY <1>1 DEF PathsUpTo
<1>3. ChangesOn' <=> ChangesOn
  BY DEF ChangesOn
<1>4. \A k : SoundPathLine(k)' <=> SoundPathLine(k)
  BY DEF SoundPathLine, Present, IsList, Value
<1>5. \A k : SoundChange(k)' <=> SoundChange(k)
  BY <1>1 DEF SoundChange, Present, IsList, Value
<1>6. SoundFile' <=> SoundFile
  BY <1>3, <1>4, <1>5 DEF SoundFile
<1>7. \A l, n : ChangesNamed(l, n)' = ChangesNamed(l, n)
  BY DEF ChangesNamed, Value
<1>8. \A j : ChangeAt(j)' = ChangeAt(j)
  BY DEF ChangeAt, Value
<1> QED
  BY <1>1, <1>2, <1>3, <1>4, <1>5, <1>6, <1>7, <1>8

-----------------------------------------------------------------------------
(* load_parameter_file                                                     *)

(* Until the file is read there are no links.                              *)
LEMMA NoLinksYet ==
    ASSUME TopoInv, pc = "read"
    PROVE  link_characteristics = <<>>
<1>1. Len(link_characteristics) = Cardinality(PathsUpTo(0))
  BY DEF TopoInv, LoadInv, LinksAreSorted, KeysLoaded
<1>2. Cardinality(PathsUpTo(0)) = 0
  BY PathsUpToStep, FS_EmptySet
<1> QED
  BY <1>1, <1>2 DEF TopoInv, LoadInv, TypeOK

(* Without links, what is said about them is true.                         *)
LEMMA NothingLoaded ==
    ASSUME link_characteristics = <<>>, KeysLoaded = 0
    PROVE  LinksAreSorted /\ LinksAreNamed /\ ChangesInv
<1>1. PathsUpTo(0) = {} /\ Cardinality(PathsUpTo(0)) = 0
  BY PathsUpToStep, FS_EmptySet
<1> QED
  BY <1>1 DEF LinksAreSorted, LinksAreNamed, ChangesInv

LEMMA InitInv == Init => TopoInv
<1> SUFFICES ASSUME Init PROVE TopoInv
  OBVIOUS
<1>1. TypeOK
  <2>1. PICK n \in 0..MaxLines : file \in [1..n -> Lines]
    BY DEF Init
  <2>2. file \in Seq(Lines) /\ Len(file) \in Nat
    BY <2>1, TopoParameterAssumption
  <2> QED
    BY <2>2 DEF Init, TypeOK
<1>2. DictionaryIsFile
  <2>1. LinesRead = 0
    BY DEF Init, LinesRead
  <2>2. \A k : LinesOf(k, 0) = {}
    BY LinesOfStep
  <2> QED
    BY <2>1, <2>2, FS_EmptySet DEF Init, DictionaryIsFile
<1>3. KeysLoaded = 0
  BY DEF Init, KeysLoaded
<1>4. LinksAreSorted /\ LinksAreNamed /\ ChangesInv
  BY <1>3, NothingLoaded DEF Init
<1>5. SoundSoFar
  BY <1>3 DEF Init, SoundSoFar, Changing
<1> QED
  BY <1>1, <1>2, <1>4, <1>5 DEF TopoInv, LoadInv

LEMMA LineTypes ==
    ASSUME TypeOK, NEW n \in 1..Len(file)
    PROVE  file[n].key \in Keys \cup {NoKey} /\ file[n].value \in Values
<1>1. file[n] \in Lines
  BY DEF TypeOK
<1> QED
  BY <1>1, TopoParameterAssumption

(* One more line of the file is one more value of its key.                 *)
LEMMA DictionaryStep ==
    ASSUME TypeOK, DictionaryIsFile, pc = "read", at <= Len(file),
           pc' = pc, at' = at + 1, file' = file, parameters' = WithLine(file[at])
    PROVE  DictionaryIsFile'
<1> DEFINE n == at - 1
           line == file[at]
<1>1. n \in Nat /\ n + 1 = at /\ at \in 1..Len(file)
  BY DEF TypeOK
<1>2. LinesRead = n /\ LinesRead' = n + 1
  BY <1>1 DEF LinesRead
<1>3. parameters \in [Keys -> Seq(Values)] /\ line.key \in Keys \cup {NoKey} /\ line.value \in Values
  BY <1>1, LineTypes DEF TypeOK
<1>4. \A k, m : LinesOf(k, m)' = LinesOf(k, m)
  BY DEF LinesOf
<1> SUFFICES ASSUME NEW k \in Keys
             PROVE  /\ Len(parameters'[k]) = Cardinality(LinesOf(k, n + 1))
                    /\ \A i \in LinesOf(k, n + 1) :
                        parameters'[k][Cardinality(LinesOf(k, i))] = file[i].value
  BY <1>2, <1>4 DEF DictionaryIsFile
<1>5. /\ Len(parameters[k]) = Cardinality(LinesOf(k, n))
      /\ \A i \in LinesOf(k, n) : parameters[k][Cardinality(LinesOf(k, i))] = file[i].value
  BY <1>2 DEF DictionaryIsFile
<1>6. /\ LinesOf(k, n) \in SUBSET (1..n)
      /\ LinesOf(k, n + 1) = IF line.key = k THEN LinesOf(k, n) \cup {n + 1} ELSE LinesOf(k, n)
      /\ \A i \in LinesOf(k, n) : LinesOf(k, i) \subseteq LinesOf(k, n) /\ i \in LinesOf(k, i)
  <2>1. \A m \in Nat :
            /\ LinesOf(k, m) \in SUBSET (1..m)
            /\ LinesOf(k, m + 1) = IF file[m + 1].key = k THEN LinesOf(k, m) \cup {m + 1}
                                                          ELSE LinesOf(k, m)
            /\ \A i \in LinesOf(k, m) : LinesOf(k, i) \subseteq LinesOf(k, m) /\ i \in LinesOf(k, i)
    BY LinesOfStep
  <2>2. line = file[n + 1]
    BY <1>1
  <2> HIDE DEF n, line
  <2> QED
    BY <1>1, <2>1, <2>2
<1>7. CASE line.key # k
  <2>1. parameters'[k] = parameters[k]
    BY <1>3, <1>7 DEF WithLine
  <2> QED
    BY <1>5, <1>6, <1>7, <2>1
<1>8. CASE line.key = k
  <2>1. parameters'[k] = Append(parameters[k], line.value)
    BY <1>3, <1>8, TopoParameterAssumption DEF WithLine
  <2>2. parameters[k] \in Seq(Values) /\ line.value \in Values
    BY <1>3
  <2>3. Cardinality(LinesOf(k, n)) \in Nat /\ Cardinality(LinesOf(k, n + 1)) = Cardinality(LinesOf(k, n)) + 1
    BY <1>1, <1>6, <1>8, CountedUpTo
  <2>4. Len(parameters'[k]) = Cardinality(LinesOf(k, n + 1))
    BY <1>5, <2>1, <2>2, <2>3
  <2>5. ASSUME NEW i \in LinesOf(k, n)
        PROVE  parameters'[k][Cardinality(LinesOf(k, i))] = file[i].value
    <3>1. Cardinality(LinesOf(k, i)) \in 1..Cardinality(LinesOf(k, n))
      BY <1>1, <1>6, PlaceOf
    <3> QED
      BY <1>5, <2>1, <2>2, <3>1
  <2>6. parameters'[k][Cardinality(LinesOf(k, n + 1))] = file[n + 1].value
    BY <1>1, <1>5, <2>1, <2>2, <2>3
  <2> QED
    BY <1>6, <1>8, <2>4, <2>5, <2>6
<1> QED
  BY <1>7, <1>8

LEMMA ReadKeeps ==
    ASSUME TopoInv, ReadLine
    PROVE  TopoInv'
<1>1. /\ TypeOK /\ DictionaryIsFile /\ SoundSoFar /\ pc = "read" /\ link_characteristics = <<>>
      /\ raised = "none"
  BY NoLinksYet DEF TopoInv, LoadInv, ReadLine, SoundSoFar
<1>2. file' = file /\ link_characteristics' = <<>> /\ raised' = "none"
  BY <1>1 DEF ReadLine
<1>3. TypeOK' /\ DictionaryIsFile' /\ KeysLoaded' = 0 /\ pc' \in {"read", "links"}
  <2>1. CASE at <= Len(file)
    <3>1. pc' = "read" /\ at' = at + 1 /\ parameters' = WithLine(file[at])
      BY <1>1, <2>1 DEF ReadLine
    <3>2. DictionaryIsFile'
      BY <1>1, <1>2, <2>1, <3>1, DictionaryStep
    <3>3. file[at].key \in Keys \cup {NoKey} /\ file[at].value \in Values
      BY <1>1, <2>1, LineTypes DEF TypeOK
    <3>4. parameters' \in [Keys -> Seq(Values)]
      BY <1>1, <3>1, <3>3 DEF TypeOK, WithLine
    <3>5. at' \in 1..(Len(file) + 1)
      BY <1>1, <2>1, <3>1 DEF TypeOK
    <3> QED
      BY <1>1, <1>2, <3>1, <3>2, <3>4, <3>5 DEF TypeOK, KeysLoaded
  <2>2. CASE ~(at <= Len(file))
    <3>1. pc' = "links" /\ at' = 1 /\ parameters' = parameters
      BY <1>1, <2>2 DEF ReadLine
    <3>2. Len(file) = at - 1
      BY <1>1, <2>2 DEF TypeOK
    <3>3. LinesRead' = LinesRead
      BY <1>1, <1>2, <3>1, <3>2 DEF LinesRead
    <3>4. DictionaryIsFile'
      BY <1>1, <1>2, <3>1, <3>3 DEF DictionaryIsFile, LinesOf
    <3>5. Len(SortedKeys) \in Nat
      BY TopoParameterAssumption
    <3> QED
      BY <1>1, <1>2, <3>1, <3>4, <3>5 DEF TypeOK, KeysLoaded
  <2> QED
    BY <2>1, <2>2
<1>4. LinksAreSorted' /\ LinksAreNamed' /\ ChangesInv'
  <2>1. PathsUpTo(0)' = {} /\ Cardinality(PathsUpTo(0)') = 0
    BY FS_EmptySet DEF PathsUpTo
  <2> QED
    BY <1>2, <1>3, <2>1 DEF LinksAreSorted, LinksAreNamed, ChangesInv
<1>5. SoundSoFar'
  BY <1>2, <1>3 DEF SoundSoFar, Changing
<1> QED
  BY <1>3, <1>4, <1>5 DEF TopoInv, LoadInv

-----------------------------------------------------------------------------
(* load_link_characteristics                                               *)

Exceptions == {"ValueError", "AttributeError", "IndexError", "ZeroDivisionError"}

LEMMA KeyTypes ==
    /\ Len(SortedKeys) \in Nat
    /\ \A i \in 1..Len(SortedKeys) : SortedKeys[i] \in Keys
    /\ PathKeys \subseteq Keys /\ NetemKeys \subseteq Keys /\ ChangeNetem \in Keys
    /\ \A k \in Keys : \E i \in 1..Len(SortedKeys) : SortedKeys[i] = k
<1>1. SortedKeys \in Seq(Keys)
  BY TopoParameterAssumption
<1>2. Len(SortedKeys) \in Nat /\ \A i \in 1..Len(SortedKeys) : SortedKeys[i] \in Keys
  BY <1>1
<1>3. PathKeys \subseteq Keys /\ NetemKeys \subseteq Keys /\ ChangeNetem \in Keys
  <2>1. PathKeys \cup NetemKeys \cup {ChangeNetem} \subseteq Keys
    BY TopoParameterAssumption
  <2> QED
    BY <2>1
<1>4. \A k \in Keys : \E i \in 1..Len(SortedKeys) : SortedKeys[i] = k
  BY DEF Keys
<1> QED
  BY <1>2, <1>3, <1>4

(* A key of a link adds the link, is ignored, or is not all right and      *)
(* raises.                                                                 *)
LEMMA LoadLinkCases ==
    ASSUME NEW k, LoadLink(k)
    PROVE  /\ k \in SoundPaths => /\ link_characteristics' = Append(link_characteristics, NewLink(k))
                                  /\ raised' = raised
           /\ k \notin SoundPaths => link_characteristics' = link_characteristics
           /\ \/ raised' = raised /\ (k \in PathKeys => SoundPathLine(k))
              \/ raised' \in Exceptions /\ k \in PathKeys /\ ~SoundPathLine(k)
BY TopoParameterAssumption DEF LoadLink, SoundPaths, SoundPathLine, Exceptions

LEMMA SortedStep ==
    ASSUME TypeOK, LinksAreSorted, LinksAreNamed, NEW n \in Nat, KeysLoaded = n, KeysLoaded' = n + 1,
           parameters' = parameters, SortedKeys[n + 1] \in Keys, LoadLink(SortedKeys[n + 1])
    PROVE  LinksAreSorted' /\ LinksAreNamed' /\ link_characteristics' \in Seq([link : Links, netem_at : Seq(NetemAts)])
<1> DEFINE k == SortedKeys[n + 1]
           links == link_characteristics
<1>1. \A m : PathsUpTo(m)' = PathsUpTo(m)
  BY SameDictionary
<1>2. /\ PathsUpTo(n) \in SUBSET (1..n)
      /\ PathsUpTo(n + 1) = IF k \in SoundPaths THEN PathsUpTo(n) \cup {n + 1} ELSE PathsUpTo(n)
      /\ \A i \in PathsUpTo(n) : PathsUpTo(i) \subseteq PathsUpTo(n) /\ i \in PathsUpTo(i)
  BY PathsUpToStep
<1>3. /\ links \in Seq([link : Links, netem_at : Seq(NetemAts)])
      /\ Len(links) = Cardinality(PathsUpTo(n))
      /\ \A i \in PathsUpTo(n) : links[Cardinality(PathsUpTo(i))].link = LinkOf[SortedKeys[i]]
      /\ \A m \in 1..Len(links) : \E i \in PathsUpTo(n) : links[m].link = LinkOf[SortedKeys[i]]
  BY DEF TypeOK, LinksAreSorted, LinksAreNamed
<1>4. CASE k \notin SoundPaths
  <2>1. links' = links /\ PathsUpTo(n + 1) = PathsUpTo(n)
    BY <1>2, <1>4, LoadLinkCases
  <2>2. LinksAreSorted'
    BY <1>1, <1>3, <2>1 DEF LinksAreSorted
  <2>3. LinksAreNamed'
    BY <1>1, <1>3, <2>1 DEF LinksAreNamed
  <2> QED
    BY <1>3, <2>1, <2>2, <2>3
<1>5. CASE k \in SoundPaths
  <2>1. links' = Append(links, NewLink(k)) /\ PathsUpTo(n + 1) = PathsUpTo(n) \cup {n + 1}
    BY <1>2, <1>5, LoadLinkCases
  <2>2. NewLink(k) \in [link : Links, netem_at : Seq(NetemAts)] /\ NewLink(k).link = LinkOf[k]
    BY <1>5 DEF NewLink, Links, SoundPaths
  <2>3. Cardinality(PathsUpTo(n)) \in Nat /\ Cardinality(PathsUpTo(n + 1)) = Cardinality(PathsUpTo(n)) + 1
    BY <1>2, <2>1, CountedUpTo
  <2>4. /\ links' \in Seq([link : Links, netem_at : Seq(NetemAts)])
        /\ Len(links') = Len(links) + 1 /\ Len(links) \in Nat
        /\ \A m \in 1..Len(links) : links'[m] = links[m]
        /\ links'[Len(links) + 1] = NewLink(k)
    BY <1>3, <2>1, <2>2
  <2>5. ASSUME NEW i \in PathsUpTo(n)
        PROVE  links'[Cardinality(PathsUpTo(i))].link = LinkOf[SortedKeys[i]]
    <3>1. Cardinality(PathsUpTo(i)) \in 1..Len(links)
      BY <1>2, <1>3, PlaceOf
    <3> QED
      BY <1>3, <2>4, <3>1
  <2>6. links'[Cardinality(PathsUpTo(n + 1))].link = LinkOf[SortedKeys[n + 1]]
    BY <1>3, <2>2, <2>3, <2>4
  <2>7. LinksAreSorted'
    BY <1>1, <1>3, <2>1, <2>3, <2>4, <2>5, <2>6 DEF LinksAreSorted
  <2>8. ASSUME NEW m \in 1..Len(links')
        PROVE  \E i \in PathsUpTo(n + 1) : links'[m].link = LinkOf[SortedKeys[i]]
    <3>1. CASE m \in 1..Len(links)
      BY <1>3, <2>1, <2>4, <3>1
    <3>2. CASE m = Len(links) + 1
      BY <2>1, <2>2, <2>4, <3>2
    <3> QED
      BY <2>4, <2>8, <3>1, <3>2
  <2>9. LinksAreNamed'
    BY <1>1, <2>8 DEF LinksAreNamed
  <2> QED
    BY <2>4, <2>7, <2>9
<1> QED
  BY <1>4, <1>5

(* A link without changes, and without names of any.                       *)
LEMMA NoChanges ==
    /\ Records({}) = {}
    /\ AreRecords(<<>>, {})
<1>1. Records({}) = {}
  BY DEF Records
<1> QED
  BY <1>1 DEF AreRecords

(* The prime of what depends on the dictionary only.                       *)
LEMMA SameRecords ==
    ASSUME parameters' = parameters, NEW i
    PROVE  AreRecords(link_characteristics[i].netem_at, NamedSoFar(i))'
                <=> AreRecords(link_characteristics'[i].netem_at, NamedSoFar(i)')
<1>1. \A j : ChangeAt(j)' = ChangeAt(j)
  BY SameDictionary
<1>2. Records(NamedSoFar(i))' = Records(NamedSoFar(i)')
  BY <1>1 DEF Records
<1>3. {ChangeAt(j) : j \in Records(NamedSoFar(i))}' = {ChangeAt(j) : j \in Records(NamedSoFar(i)')}
  BY <1>1, <1>2
<1> QED
  BY <1>3, Zenon DEF AreRecords

LEMMA LinkKeeps ==
    ASSUME TopoInv, load_link_characteristics
    PROVE  TopoInv'
<1>1. /\ TypeOK /\ DictionaryIsFile /\ LinksAreSorted /\ LinksAreNamed /\ ChangesInv /\ SoundSoFar
      /\ pc = "links" /\ raised = "none" /\ file' = file /\ parameters' = parameters
  BY DEF TopoInv, LoadInv, load_link_characteristics
<1>2. at \in 1..(Len(SortedKeys) + 1) /\ Len(SortedKeys) \in Nat
  BY <1>1, KeyTypes DEF TypeOK
<1>3. \A i \in 1..Len(link_characteristics) : AreRecords(link_characteristics[i].netem_at, {})
  BY <1>1 DEF ChangesInv, NamedSoFar, Changing
<1>4. CASE at <= Len(SortedKeys)
  <2> DEFINE n == at - 1
             k == SortedKeys[at]
  <2>1. n \in Nat /\ n + 1 = at /\ k \in Keys /\ at \in 1..Len(SortedKeys)
    BY <1>2, <1>4, KeyTypes
  <2>2. pc' = "links" /\ at' = at + 1 /\ LoadLink(k)
    BY <1>1, <1>4 DEF load_link_characteristics
  <2>3. KeysLoaded = n /\ KeysLoaded' = n + 1
    BY <1>1, <2>1, <2>2 DEF KeysLoaded
  <2>4. LinksAreSorted' /\ LinksAreNamed' /\ link_characteristics' \in Seq([link : Links, netem_at : Seq(NetemAts)])
    <3>1. SortedKeys[n + 1] \in Keys /\ LoadLink(SortedKeys[n + 1])
      BY <2>1, <2>2
    <3> HIDE DEF n, k
    <3> QED
      BY <1>1, <2>1, <2>3, <3>1, SortedStep
  <2>5. /\ k \in SoundPaths => link_characteristics' = Append(link_characteristics, NewLink(k))
        /\ k \notin SoundPaths => link_characteristics' = link_characteristics
        /\ \/ raised' = "none" /\ (k \in PathKeys => SoundPathLine(k))
           \/ raised' \in Exceptions /\ k \in PathKeys /\ ~SoundPathLine(k)
    <3> HIDE DEF k
    <3> QED
      BY <1>1, <2>2, LoadLinkCases
  <2>6. TypeOK'
    <3>1. at' \in 1..(Len(SortedKeys) + 1)
      BY <1>2, <1>4, <2>2
    <3> QED
      BY <1>1, <2>2, <2>4, <2>5, <3>1 DEF TypeOK, Exceptions
  <2>7. DictionaryIsFile'
    <3>1. LinesRead' = LinesRead
      BY <1>1, <2>2 DEF LinesRead
    <3> QED
      BY <1>1, <3>1 DEF DictionaryIsFile, LinesOf
  <2>8. ChangesInv'
    <3>1. ASSUME NEW i \in 1..Len(link_characteristics')
          PROVE  /\ NamedSoFar(i)' = {}
                 /\ AreRecords(link_characteristics'[i].netem_at, {})
      <4>1. NamedSoFar(i)' = {}
        BY <2>2 DEF NamedSoFar, Changing
      <4>2. AreRecords(link_characteristics'[i].netem_at, {})
        <5>1. CASE k \notin SoundPaths
          BY <1>3, <2>5, <3>1, <5>1
        <5>2. CASE k \in SoundPaths
          <6>1. /\ link_characteristics \in Seq([link : Links, netem_at : Seq(NetemAts)])
                /\ NewLink(k) \in [link : Links, netem_at : Seq(NetemAts)]
                /\ NewLink(k).netem_at = <<>>
            BY <1>1, <5>2 DEF TypeOK, NewLink, Links, SoundPaths
          <6>2. \/ i \in 1..Len(link_characteristics) /\ link_characteristics'[i] = link_characteristics[i]
                \/ link_characteristics'[i] = NewLink(k)
            BY <2>5, <3>1, <5>2, <6>1
          <6> QED
            BY <1>3, <6>1, <6>2, NoChanges
        <5> QED
          BY <5>1, <5>2
      <4> QED
        BY <4>1, <4>2
    <3>2. ASSUME NEW i \in 1..Len(link_characteristics')
          PROVE  AreRecords(link_characteristics[i].netem_at, NamedSoFar(i))'
      BY <1>1, <3>1, SameRecords
    <3> QED
      BY <3>1, <3>2 DEF ChangesInv
  <2>9. SoundSoFar'
    <3>1. /\ \A j : SoundPathLine(j)' <=> SoundPathLine(j)
          /\ SoundFile' <=> SoundFile
      BY <1>1, SameDictionary
    <3>2. \A i \in 1..n : SortedKeys[i] \in PathKeys => SoundPathLine(SortedKeys[i])
      BY <1>1, <2>3 DEF SoundSoFar
    <3>3. raised' = "none" =>
            \A i \in 1..(n + 1) : SortedKeys[i] \in PathKeys => SoundPathLine(SortedKeys[i])
      BY <2>1, <2>5, <3>2 DEF Exceptions
    <3>4. raised' # "none" => ~SoundFile
      BY <2>5 DEF SoundFile
    <3>5. ~Changing' /\ pc' \notin {"read", "done"}
      BY <2>2 DEF Changing
    <3> QED
      BY <2>3, <3>1, <3>3, <3>4, <3>5 DEF SoundSoFar
  <2> QED
    BY <2>4, <2>6, <2>7, <2>8, <2>9 DEF TopoInv, LoadInv
<1>5. CASE ~(at <= Len(SortedKeys))
  <2>1. /\ pc' = "netem" /\ at' = 1 /\ link_characteristics' = link_characteristics
        /\ raised' = "none"
    BY <1>1, <1>5 DEF load_link_characteristics
  <2>2. KeysLoaded' = KeysLoaded /\ LinesRead' = LinesRead
    BY <1>1, <1>2, <1>5, <2>1 DEF KeysLoaded, LinesRead
  <2>3. TypeOK'
    BY <1>1, <1>2, <2>1 DEF TypeOK
  <2>4. DictionaryIsFile'
    BY <1>1, <2>2 DEF DictionaryIsFile, LinesOf
  <2>5. LinksAreSorted' /\ LinksAreNamed'
    <3>1. \A m : PathsUpTo(m)' = PathsUpTo(m)
      BY <1>1, SameDictionary
    <3> QED
      BY <1>1, <2>1, <2>2, <3>1 DEF LinksAreSorted, LinksAreNamed
  <2>6. ChangesInv'
    <3>1. \A i : NamedSoFar(i)' = {}
      BY <2>1 DEF NamedSoFar, ChangesNamed
    <3>2. ASSUME NEW i \in 1..Len(link_characteristics')
          PROVE  AreRecords(link_characteristics[i].netem_at, NamedSoFar(i))'
      BY <1>1, <1>3, <2>1, <3>1, SameRecords
    <3> QED
      BY <3>1, <3>2 DEF ChangesInv
  <2>7. SoundSoFar'
    <3>1. \A j : SoundPathLine(j)' <=> SoundPathLine(j)
      BY <1>1, SameDictionary
    <3>2. \A i \in 1..KeysLoaded : SortedKeys[i] \in PathKeys => SoundPathLine(SortedKeys[i])
      BY <1>1 DEF SoundSoFar
    <3>3. 1..(at' - 1) = {}
      BY <2>1
    <3> QED
      BY <2>1, <2>2, <3>1, <3>2, <3>3 DEF SoundSoFar
  <2> QED
    BY <2>3, <2>4, <2>5, <2>6, <2>7 DEF TopoInv, LoadInv
<1> QED
  BY <1>4, <1>5

-----------------------------------------------------------------------------
(* load_netem_at                                                           *)

(* Once all keys were seen there is a link for each path line that parses. *)
LEMMA LinksCounted ==
    ASSUME LinksAreSorted, KeysLoaded = Len(SortedKeys)
    PROVE  Len(link_characteristics) = Cardinality(SoundPaths)
<1> DEFINE N == Len(SortedKeys)
           f == [i \in PathsUpTo(N) |-> SortedKeys[i]]
<1>1. N \in Nat /\ SoundPaths \subseteq Keys
  BY KeyTypes DEF SoundPaths
<1>2. f \in Bijection(PathsUpTo(N), SoundPaths)
  <2>1. f \in [PathsUpTo(N) -> SoundPaths]
    BY DEF PathsUpTo
  <2>2. \A i, j \in PathsUpTo(N) : f[i] = f[j] => i = j
    BY TopoParameterAssumption DEF PathsUpTo
  <2>3. \A p \in SoundPaths : \E i \in PathsUpTo(N) : f[i] = p
    BY <1>1, KeyTypes DEF PathsUpTo
  <2> QED
    BY <2>1, <2>2, <2>3, Fun_IsBij
<1>3. IsFiniteSet(PathsUpTo(N))
  <2>1. \A m \in Nat : PathsUpTo(m) \in SUBSET (1..m)
    BY PathsUpToStep
  <2>2. \A m \in Nat : IsFiniteSet(PathsUpTo(m))
    BY <2>1, CountedUpTo
  <2> QED
    BY <1>1, <2>2
<1>4. Cardinality(SoundPaths) = Cardinality(PathsUpTo(N))
  BY <1>2, <1>3, FS_Bijection DEF ExistsBijection
<1> QED
  BY <1>4 DEF LinksAreSorted

LEMMA LoadedIsNamed ==
    ASSUME LinksAreSorted, LinksAreNamed, KeysLoaded = Len(SortedKeys), NEW l
    PROVE  Loaded(l) <=> \E p \in SoundPaths : LinkOf[p] = l
<1>1. Len(SortedKeys) \in Nat /\ SoundPaths \subseteq Keys
  BY KeyTypes DEF SoundPaths
<1>2. ASSUME Loaded(l) PROVE \E p \in SoundPaths : LinkOf[p] = l
  BY <1>2 DEF Loaded, LinksAreNamed, PathsUpTo
<1>3. ASSUME NEW p \in SoundPaths, LinkOf[p] = l PROVE Loaded(l)
  <2>1. PICK i \in 1..Len(SortedKeys) : SortedKeys[i] = p
    BY <1>1, KeyTypes
  <2>2. i \in PathsUpTo(Len(SortedKeys))
    BY <2>1 DEF PathsUpTo
  <2>3. Cardinality(PathsUpTo(i)) \in 1..Len(link_characteristics)
    <3>1. \A m \in Nat :
            /\ PathsUpTo(m) \in SUBSET (1..m)
            /\ \A j \in PathsUpTo(m) : PathsUpTo(j) \subseteq PathsUpTo(m) /\ j \in PathsUpTo(j)
      BY PathsUpToStep
    <3>2. \A m \in Nat : \A j \in PathsUpTo(m) : Cardinality(PathsUpTo(j)) \in 1..Cardinality(PathsUpTo(m))
      <4> SUFFICES ASSUME NEW m \in Nat, NEW j \in PathsUpTo(m)
                   PROVE  Cardinality(PathsUpTo(j)) \in 1..Cardinality(PathsUpTo(m))
        OBVIOUS
      <4>1. PathsUpTo(m) \in SUBSET (1..m) /\ PathsUpTo(j) \in SUBSET PathsUpTo(m) /\ PathsUpTo(j) # {}
        BY <3>1
      <4> QED
        BY <4>1, PlaceOf
    <3> QED
      BY <1>1, <2>2, <3>2 DEF LinksAreSorted
  <2> QED
    BY <1>3, <2>1, <2>2, <2>3 DEF Loaded, LinksAreSorted
<1> QED
  BY <1>2, <1>3

(* The first link of its type and identifier.                              *)
LEMMA FirstLink ==
    ASSUME TypeOK, NEW l, Loaded(l)
    PROVE  LET f == find_link_characteristic(l)
           IN  /\ f \in 1..Len(link_characteristics)
               /\ link_characteristics[f].link = l
               /\ \A j \in 1..(f - 1) : link_characteristics[j].link # l
<1> DEFINE P(i) == i \in 1..Len(link_characteristics) /\ link_characteristics[i].link = l
           S == {i \in Nat : P(i)}
<1>1. Len(link_characteristics) \in Nat
  BY DEF TypeOK
<1>2. S # {} /\ S \subseteq Nat
  BY <1>1 DEF Loaded
<1>3. PICK i \in S : \A j \in S : i <= j
  <2>1. \E i \in S : \A j \in S : ~(<<j, i>> \in OpToRel(<, Nat))
    BY <1>2, NatLessThanWellFounded, WFMin
  <2>2. \A i, j \in Nat : <<j, i>> \in OpToRel(<, Nat) <=> j < i
    BY DEF OpToRel
  <2> HIDE DEF S
  <2>3. \A a, b \in Nat : ~(b < a) => a <= b
    OBVIOUS
  <2> QED
    BY <1>2, <2>1, <2>2, <2>3
<1>4. P(i) /\ \A j \in 1..(i - 1) : link_characteristics[j].link # l
  BY <1>1, <1>3
<1> QED
  BY <1>4 DEF find_link_characteristic

(* One more name, and what add_netem_at makes of it: a change later than   *)
(* the last one is a record, and any other is none.                        *)
LEMMA RecordsStep ==
    ASSUME NEW n \in Nat, NEW named \in SUBSET (1..n), NEW changes \in Seq(NetemAts),
           AreRecords(changes, named),
           \A j \in named : changes # <<>> /\ AtOf[ChangeAt(j)] <= LastAt(changes),
           \A j \in named \cup {n + 1} : ChangeAt(j) \in ChangeValues
    PROVE  LET v   == ChangeAt(n + 1)
               new == WithChange(changes, AtOf[v], v)
           IN  /\ new \in Seq(NetemAts)
               /\ AreRecords(new, named \cup {n + 1})
               /\ \A j \in named \cup {n + 1} : new # <<>> /\ AtOf[ChangeAt(j)] <= LastAt(new)
<1> DEFINE v   == ChangeAt(n + 1)
           t   == AtOf[v]
           S   == named \cup {n + 1}
           new == WithChange(changes, t, v)
<1>1. /\ v \in ChangeValues /\ t \in Int /\ n + 1 \notin named
      /\ \A j \in S : ChangeAt(j) \in ChangeValues /\ AtOf[ChangeAt(j)] \in Int
  <2>1. \A w \in ChangeValues : AtOf[w] \in Int
    BY TopoParameterAssumption
  <2>2. n + 1 \notin named
    OBVIOUS
  <2>3. v \in ChangeValues
    OBVIOUS
  <2> QED
    BY <2>1, <2>2, <2>3
<1>2. Records(S) = Records(named) \cup {i \in {n + 1} : \A j \in named : AtOf[ChangeAt(j)] < t}
  <2>1. \A i \in named : i < n + 1 /\ ~(n + 1 < i) /\ i # n + 1
    OBVIOUS
  <2>2. ~(n + 1 < n + 1)
    OBVIOUS
  <2> QED
    BY <2>1, <2>2 DEF Records
<1>3. /\ \A j \in 1..Len(changes) :
            /\ changes[j].at = AtOf[changes[j].cmd]
            /\ changes[j].delta = changes[j].at - (IF j = 1 THEN 0 ELSE changes[j - 1].at)
            /\ j > 1 => changes[j - 1].at < changes[j].at
      /\ {changes[j].cmd : j \in 1..Len(changes)} = {ChangeAt(i) : i \in Records(named)}
  BY DEF AreRecords
<1>4. CASE changes = <<>>
  <2>1. named = {}
    BY <1>4
  <2> DEFINE c == [at |-> t, delta |-> t, cmd |-> v]
  <2>2. new = <<c>> /\ c \in NetemAts
    BY <1>1, <1>4 DEF WithChange, NetemAts
  <2>3. Records(S) = {n + 1}
    BY <1>2, <2>1, NoChanges
  <2>4. /\ new \in Seq(NetemAts) /\ Len(new) = 1
        /\ new[1].at = t /\ new[1].delta = t /\ new[1].cmd = v
    <3>1. c.at = t /\ c.delta = t /\ c.cmd = v
      OBVIOUS
    <3> HIDE DEF c, new, t, v
    <3> QED
      BY <2>2, <3>1
  <2>5. {new[j].cmd : j \in 1..Len(new)} = {v}
    BY <2>4
  <2>6. {ChangeAt(i) : i \in Records(S)} = {v}
    BY <2>3
  <2>7. AreRecords(new, S)
    <3> HIDE DEF new, t, S, v
    <3>1. \A j \in 1..Len(new) : j = 1
      BY <2>4
    <3>2. new[1].at = AtOf[new[1].cmd] /\ new[1].delta = new[1].at - 0 /\ ~(1 > 1)
      BY <1>1, <2>4 DEF t
    <3> QED
      BY <2>5, <2>6, <3>1, <3>2 DEF AreRecords
  <2>8. LastAt(new) = t /\ new # <<>>
    BY <2>4 DEF LastAt
  <2> QED
    BY <1>1, <2>1, <2>4, <2>7, <2>8
<1>5. ASSUME changes # <<>>
      PROVE  /\ Len(changes) \in Nat /\ Len(changes) >= 1
             /\ LastAt(changes) \in Int
             /\ \E i \in Records(named) : i \in named /\ AtOf[ChangeAt(i)] = LastAt(changes)
  <2>1. Len(changes) \in Nat /\ Len(changes) >= 1 /\ changes[Len(changes)] \in NetemAts
    BY <1>5
  <2>2. LastAt(changes) \in Int /\ LastAt(changes) = AtOf[changes[Len(changes)].cmd]
    BY <1>3, <2>1 DEF LastAt, NetemAts
  <2>3. changes[Len(changes)].cmd \in {ChangeAt(i) : i \in Records(named)}
    <3>1. Len(changes) \in 1..Len(changes)
      BY <2>1
    <3>2. changes[Len(changes)].cmd \in {changes[j].cmd : j \in 1..Len(changes)}
      BY <3>1
    <3> QED
      BY <1>3, <3>2
  <2> QED
    BY <2>1, <2>2, <2>3 DEF Records
<1>6. CASE changes # <<>> /\ t > LastAt(changes)
  <2> DEFINE c == [at |-> t, delta |-> t - LastAt(changes), cmd |-> v]
  <2>1. new = Append(changes, c)
    BY <1>6 DEF WithChange
  <2>2. c \in NetemAts
    BY <1>1, <1>5, <1>6 DEF NetemAts
  <2>3. /\ new \in Seq(NetemAts) /\ Len(new) = Len(changes) + 1 /\ new[Len(new)] = c
        /\ \A j \in 1..Len(changes) : new[j] = changes[j]
    <3> HIDE DEF c, new
    <3> QED
      BY <2>1, <2>2
  <2>4. Records(S) = Records(named) \cup {n + 1}
    <3>1. \A j \in named : AtOf[ChangeAt(j)] < t
      <4>1. \A j \in named : AtOf[ChangeAt(j)] \in Int /\ AtOf[ChangeAt(j)] <= LastAt(changes)
        BY <1>1
      <4> HIDE DEF t
      <4> QED
        BY <1>1, <1>5, <1>6, <4>1
    <3> QED
      BY <1>2, <3>1
  <2>5. {new[j].cmd : j \in 1..Len(new)} = {ChangeAt(i) : i \in Records(S)}
    <3>1. {new[j].cmd : j \in 1..Len(new)} = {changes[j].cmd : j \in 1..Len(changes)} \cup {v}
      <4>1. 1..Len(new) = 1..Len(changes) \cup {Len(new)}
        BY <1>5, <1>6, <2>3
      <4>2. new[Len(new)].cmd = v
        BY <2>3
      <4> HIDE DEF new, v, c
      <4> QED
        BY <2>3, <4>1, <4>2
    <3>2. {ChangeAt(i) : i \in Records(S)} = {ChangeAt(i) : i \in Records(named)} \cup {v}
      BY <2>4
    <3> QED
      BY <1>3, <3>1, <3>2
  <2>6. ASSUME NEW j \in 1..Len(new)
        PROVE  /\ new[j].at = AtOf[new[j].cmd]
               /\ new[j].delta = new[j].at - (IF j = 1 THEN 0 ELSE new[j - 1].at)
               /\ j > 1 => new[j - 1].at < new[j].at
    <3>1. CASE j \in 1..Len(changes)
      <4>1. new[j] = changes[j] /\ (j > 1 => new[j - 1] = changes[j - 1])
        BY <1>5, <1>6, <2>3, <3>1
      <4>2. j = 1 \/ j > 1
        BY <1>5, <1>6, <3>1
      <4> HIDE DEF new
      <4> QED
        BY <1>3, <3>1, <4>1, <4>2
    <3>2. CASE j = Len(new)
      <4>1. new[j] = c /\ j - 1 = Len(changes) /\ j # 1 /\ new[j - 1] = changes[Len(changes)]
        BY <1>5, <1>6, <2>3, <3>2
      <4>2. new[j - 1].at = LastAt(changes)
        BY <4>1 DEF LastAt
      <4>3. new[j].at = t /\ new[j].delta = t - LastAt(changes) /\ new[j].cmd = v
        BY <4>1
      <4>4. LastAt(changes) < t
        BY <1>1, <1>5, <1>6
      <4> HIDE DEF new, c
      <4> QED
        BY <4>1, <4>2, <4>3, <4>4
    <3> QED
      BY <1>5, <1>6, <2>3, <3>1, <3>2
  <2>7. AreRecords(new, S)
    <3> HIDE DEF new, S
    <3> QED
      BY <2>5, <2>6 DEF AreRecords
  <2>8. LastAt(new) = t /\ new # <<>>
    BY <1>5, <1>6, <2>3 DEF LastAt
  <2>9. \A j \in S : AtOf[ChangeAt(j)] <= t
    <3>1. \A j \in named : AtOf[ChangeAt(j)] \in Int /\ AtOf[ChangeAt(j)] <= LastAt(changes)
      BY <1>1
    <3>2. AtOf[ChangeAt(n + 1)] <= t
      BY <1>1
    <3> HIDE DEF t
    <3> QED
      BY <1>1, <1>5, <1>6, <3>1, <3>2
  <2> QED
    BY <2>3, <2>7, <2>8, <2>9
<1>7. CASE changes # <<>> /\ ~(t > LastAt(changes))
  <2>1. new = changes
    BY <1>7 DEF WithChange
  <2>2. Records(S) = Records(named)
    <3>1. PICK i \in named : AtOf[ChangeAt(i)] = LastAt(changes)
      BY <1>5, <1>7
    <3>2. ~(AtOf[ChangeAt(i)] < t)
      <4> HIDE DEF t
      <4> QED
        BY <1>1, <1>5, <1>7, <3>1
    <3> QED
      BY <1>2, <3>2
  <2>3. AreRecords(new, S)
    <3> HIDE DEF new, S
    <3>1. {ChangeAt(i) : i \in Records(S)} = {ChangeAt(i) : i \in Records(named)}
      BY <2>2
    <3>2. {changes[j].cmd : j \in 1..Len(changes)} = {ChangeAt(i) : i \in Records(S)}
      BY <1>3, <3>1
    <3>3. AreRecords(changes, S)
      BY <1>3, <3>2, Zenon DEF AreRecords
    <3> QED
      BY <2>1, <3>3
  <2>4. t <= LastAt(changes)
    BY <1>1, <1>5, <1>7
  <2> QED
    BY <1>7, <2>1, <2>3, <2>4
<1> QED
  BY <1>4, <1>6, <1>7

(* The key of a change that is not repeated and whose value parses.        *)
Names(k, l) ==
    k \in NetemKeys /\ LinkOf[k] = l /\ Len(parameters[k]) = 1 /\ Value(k) \in ChangeValues

LEMMA ChangesNamedStep ==
    ASSUME NEW l, NEW n \in Nat
    PROVE  /\ ChangesNamed(l, n) \in SUBSET (1..n)
           /\ \A i \in ChangesNamed(l, n) : ChangeAt(i) \in ChangeValues
           /\ ChangesNamed(l, n + 1) = IF Names(SortedKeys[n + 1], l) THEN ChangesNamed(l, n) \cup {n + 1}
                                                                     ELSE ChangesNamed(l, n)
BY DEF ChangesNamed, ChangeAt, Names

(* A key of a change changes the first link of that name, or none; and if  *)
(* it is not all right it raises.                                          *)
LEMMA LoadChangeCases ==
    ASSUME TypeOK, LinksAreSorted, LinksAreNamed, KeysLoaded = Len(SortedKeys),
           raised = "none", NEW k \in Keys, LoadChange(k)
    PROVE  LET l == LinkOf[k]
           IN  /\ IF Names(k, l) /\ Loaded(l)
                  THEN link_characteristics' =
                            [link_characteristics EXCEPT ![find_link_characteristic(l)].netem_at =
                                WithChange(@, AtOf[Value(k)], Value(k))]
                  ELSE link_characteristics' = link_characteristics
               /\ \/ raised' = "none" /\ (k \in NetemKeys => SoundChange(k))
                  \/ raised' \in Exceptions /\ k \in NetemKeys /\ ~SoundChange(k)
<1> DEFINE l == LinkOf[k]
           links == link_characteristics
<1>1. Len(links) = Cardinality(SoundPaths) /\ (Loaded(l) <=> \E p \in SoundPaths : LinkOf[p] = l)
  BY LinksCounted, LoadedIsNamed
<1>2. parameters[k] \in Seq(Values) /\ Len(parameters[k]) \in Nat
  BY DEF TypeOK
<1>3. Present(k) /\ ~IsList(k) <=> Len(parameters[k]) = 1
  <2>1. parameters[k] = <<>> <=> Len(parameters[k]) = 0
    <3>1. \A s \in Seq(Values) : Len(s) = 0 => s = <<>>
      OBVIOUS
    <3>2. Len(<<>>) = 0
      OBVIOUS
    <3> QED
      BY <1>2, <3>1, <3>2
  <2>2. \A m \in Nat : (m # 0 /\ ~(m > 1)) <=> m = 1
    OBVIOUS
  <2> QED
    BY <1>2, <2>1, <2>2 DEF Present, IsList
<1>4. Loaded(l) => l # NoLink
  BY <1>1 DEF SoundPaths
<1>5. CASE k \notin NetemKeys \/ ~Present(k)
  <2>1. ~Names(k, l)
    BY <1>3, <1>5 DEF Names
  <2>2. links' = links /\ raised' = "none" /\ (k \in NetemKeys => SoundChange(k))
    BY <1>5 DEF LoadChange, SoundChange
  <2> QED
    BY <2>1, <2>2
<1>6. CASE k \in NetemKeys /\ Present(k) /\ l = NoLink
  <2>1. ~Loaded(l) /\ links' = links /\ raised' = "ValueError" /\ ~SoundChange(k)
    BY <1>4, <1>6 DEF LoadChange, SoundChange
  <2> QED
    BY <1>6, <2>1 DEF Exceptions
<1>7. CASE k \in NetemKeys /\ Present(k) /\ l # NoLink
  <2>1. load_netem_at_value(l, k)
    BY <1>7 DEF LoadChange
  <2>2. CASE IsList(k)
    <3>1. ~Names(k, l) /\ links' = links /\ raised' = "AttributeError" /\ ~SoundChange(k)
      BY <1>3, <1>7, <2>1, <2>2 DEF load_netem_at_value, Names, SoundChange
    <3> QED
      BY <1>7, <3>1 DEF Exceptions
  <2>3. CASE ~IsList(k) /\ Value(k) \notin ChangeValues
    <3>1. ~Names(k, l) /\ links' = links
      BY <2>1, <2>3 DEF load_netem_at_value, Names
    <3>2. raised' = IF l.id < Cardinality(SoundPaths) THEN "none" ELSE "IndexError"
      BY <1>1, <2>1, <2>3 DEF load_netem_at_value, LogChange
    <3>3. SoundChange(k) <=> l.id < Cardinality(SoundPaths)
      BY <1>7, <2>3 DEF SoundChange
    <3> QED
      BY <1>7, <3>1, <3>2, <3>3 DEF Exceptions
  <2>4. CASE ~IsList(k) /\ Value(k) \in ChangeValues /\ ~Loaded(l)
    <3>1. links' = links /\ raised' = "AttributeError" /\ ~SoundChange(k)
      BY <1>1, <1>7, <2>1, <2>4 DEF load_netem_at_value, SoundChange
    <3> QED
      BY <1>7, <2>4, <3>1 DEF Exceptions
  <2>5. CASE ~IsList(k) /\ Value(k) \in ChangeValues /\ Loaded(l)
    <3>1. /\ Names(k, l)
          /\ links' = [links EXCEPT ![find_link_characteristic(l)].netem_at =
                            WithChange(@, AtOf[Value(k)], Value(k))]
      BY <1>3, <1>7, <2>1, <2>5 DEF load_netem_at_value, Names
    <3>2. raised' = IF l.id < Cardinality(SoundPaths) THEN "none" ELSE "IndexError"
      BY <1>1, <2>1, <2>5 DEF load_netem_at_value, LogChange
    <3>3. SoundChange(k) <=> l.id < Cardinality(SoundPaths)
      BY <1>1, <1>7, <2>5 DEF SoundChange
    <3> QED
      BY <1>7, <2>5, <3>1, <3>2, <3>3 DEF Exceptions
  <2> QED
    BY <2>2, <2>3, <2>4, <2>5
<1> QED
  BY <1>5, <1>6, <1>7

(* What holds of a link and the changes named for it so far.               *)
InOrder(changes, named) ==
    /\ AreRecords(changes, named)
    /\ \A j \in named : changes # <<>> /\ AtOf[ChangeAt(j)] <= LastAt(changes)

LEMMA InOrderPrimed ==
    ASSUME parameters' = parameters,
           \A i \in 1..Len(link_characteristics') :
                InOrder(link_characteristics'[i].netem_at, NamedSoFar(i)')
    PROVE  ChangesInv'
<1>1. \A j : ChangeAt(j)' = ChangeAt(j)
  BY SameDictionary
<1>2. ASSUME NEW i \in 1..Len(link_characteristics')
      PROVE  /\ AreRecords(link_characteristics[i].netem_at, NamedSoFar(i))'
             /\ \A j \in NamedSoFar(i)' : /\ link_characteristics'[i].netem_at # <<>>
                                          /\ AtOf[ChangeAt(j)] <= LastAt(link_characteristics'[i].netem_at)
  BY SameRecords DEF InOrder
<1> QED
  BY <1>1, <1>2 DEF ChangesInv, LastAt

(* A change of one link: the others stay as they are.                      *)
LEMMA OneLinkChanged ==
    ASSUME TypeOK, NEW f \in 1..Len(link_characteristics), NEW w \in Seq(NetemAts),
           link_characteristics' = [link_characteristics EXCEPT ![f].netem_at = w]
    PROVE  /\ link_characteristics' \in Seq([link : Links, netem_at : Seq(NetemAts)])
           /\ Len(link_characteristics') = Len(link_characteristics)
           /\ \A i \in 1..Len(link_characteristics) :
                /\ link_characteristics'[i].link = link_characteristics[i].link
                /\ i # f => link_characteristics'[i] = link_characteristics[i]
           /\ link_characteristics'[f].netem_at = w
<1> DEFINE links == link_characteristics
           T == [link : Links, netem_at : Seq(NetemAts)]
           r == [links[f] EXCEPT !.netem_at = w]
<1>1. links \in Seq(T) /\ links' = [links EXCEPT ![f] = r]
  BY DEF TypeOK
<1>2. links[f] \in T
  <2> HIDE DEF T
  <2> QED
    BY <1>1
<1>3. r \in T /\ r.link = links[f].link /\ r.netem_at = w
  BY <1>2
<1> HIDE DEF T, r
<1>4. /\ links' \in Seq(T) /\ Len(links') = Len(links)
      /\ links'[f] = r /\ \A i \in 1..Len(links) : i # f => links'[i] = links[i]
  BY <1>1, <1>3
<1> QED
  BY <1>3, <1>4 DEF T

LEMMA ChangesStep ==
    ASSUME TypeOK, LinksAreSorted, LinksAreNamed, ChangesInv, KeysLoaded = Len(SortedKeys),
           raised = "none", parameters' = parameters, pc = "netem", pc' = "netem", ChangesOn,
           NEW n \in Nat, at = n + 1, at' = n + 2, SortedKeys[n + 1] \in Keys,
           LoadChange(SortedKeys[n + 1])
    PROVE  /\ link_characteristics' \in Seq([link : Links, netem_at : Seq(NetemAts)])
           /\ Len(link_characteristics') = Len(link_characteristics)
           /\ \A i \in 1..Len(link_characteristics) :
                link_characteristics'[i].link = link_characteristics[i].link
           /\ ChangesInv'
<1> DEFINE k == SortedKeys[n + 1]
           l == LinkOf[k]
           links == link_characteristics
           f == find_link_characteristic(l)
           N(i, m) == IF IsFirst(i) THEN ChangesNamed(links[i].link, m) ELSE {}
<1>1. IF Names(k, l) /\ Loaded(l)
      THEN links' = [links EXCEPT ![f].netem_at = WithChange(@, AtOf[Value(k)], Value(k))]
      ELSE links' = links
  <2>1. k \in Keys /\ LoadChange(k)
    OBVIOUS
  <2> HIDE DEF k
  <2> QED
    BY <2>1, LoadChangeCases
<1>2. links \in Seq([link : Links, netem_at : Seq(NetemAts)]) /\ Len(links) \in Nat
  BY DEF TypeOK
<1>3. \A i \in 1..Len(links) : NamedSoFar(i) = N(i, n)
  BY DEF NamedSoFar, Changing
<1>4. \A i \in 1..Len(links) : InOrder(links[i].netem_at, N(i, n))
  <2> HIDE DEF N
  <2> QED
    BY <1>3 DEF ChangesInv, InOrder
<1>5. ASSUME Len(links') = Len(links),
             \A i \in 1..Len(links) : links'[i].link = links[i].link
      PROVE  \A i \in 1..Len(links') : NamedSoFar(i)' = N(i, n + 1)
  <2> SUFFICES ASSUME NEW i \in 1..Len(links') PROVE NamedSoFar(i)' = N(i, n + 1)
    OBVIOUS
  <2>1. IsFirst(i)' <=> IsFirst(i)
    <3>1. \A j \in 1..(i - 1) : j \in 1..Len(links)
      BY <1>2, <1>5
    <3>2. links'[i].link = links[i].link
      BY <1>5
    <3> QED
      BY <1>5, <3>1, <3>2 DEF IsFirst
  <2>2. Changing' /\ at' - 1 = n + 1
    BY SameDictionary DEF Changing
  <2>3. ChangesNamed(links[i].link, n + 1)' = ChangesNamed(links'[i].link, n + 1)
    BY DEF ChangesNamed, Value
  <2> QED
    BY <1>5, <2>1, <2>2, <2>3 DEF NamedSoFar
<1>6. ASSUME NEW i \in 1..Len(links)
      PROVE  /\ N(i, n) \in SUBSET (1..n)
             /\ \A j \in N(i, n) : ChangeAt(j) \in ChangeValues
             /\ N(i, n + 1) = IF IsFirst(i) /\ Names(k, links[i].link) THEN N(i, n) \cup {n + 1}
                                                                      ELSE N(i, n)
  <2> DEFINE h == links[i].link
  <2> HIDE DEF h
  <2>1. /\ ChangesNamed(h, n) \in SUBSET (1..n)
        /\ \A j \in ChangesNamed(h, n) : ChangeAt(j) \in ChangeValues
        /\ ChangesNamed(h, n + 1) = IF Names(k, h) THEN ChangesNamed(h, n) \cup {n + 1}
                                                   ELSE ChangesNamed(h, n)
    BY ChangesNamedStep
  <2> QED
    BY <2>1 DEF h
<1>7. CASE ~(Names(k, l) /\ Loaded(l))
  <2>1. links' = links
    BY <1>1, <1>7
  <2>2. \A i \in 1..Len(links) : ~Names(k, links[i].link)
    BY <1>7 DEF Names, Loaded
  <2>3. \A i \in 1..Len(links') : NamedSoFar(i)' = N(i, n)
    <3> HIDE DEF N, k
    <3> QED
      BY <1>5, <1>6, <2>1, <2>2
  <2>4. \A i \in 1..Len(links') : InOrder(links'[i].netem_at, NamedSoFar(i)')
    <3> HIDE DEF N
    <3> QED
      BY <1>4, <2>1, <2>3
  <2>5. ChangesInv'
    BY <2>4, InOrderPrimed
  <2> QED
    BY <1>2, <2>1, <2>5
<1>8. CASE Names(k, l) /\ Loaded(l)
  <2>1. f \in 1..Len(links) /\ links[f].link = l /\ \A j \in 1..(f - 1) : links[j].link # l
    BY <1>8, FirstLink
  <2>2. IsFirst(f) /\ N(f, n + 1) = N(f, n) \cup {n + 1}
    <3>1. IsFirst(f)
      BY <2>1 DEF IsFirst
    <3> HIDE DEF N, f, k
    <3> QED
      BY <1>6, <1>8, <2>1, <3>1
  <2>3. ChangeAt(n + 1) = Value(k) /\ Value(k) \in ChangeValues
    BY <1>8 DEF ChangeAt, Names
  <2> DEFINE c == links[f].netem_at
             w == WithChange(c, AtOf[Value(k)], Value(k))
  <2>4. c \in Seq(NetemAts) /\ InOrder(c, N(f, n)) /\ N(f, n) \in SUBSET (1..n)
        /\ \A j \in N(f, n) \cup {n + 1} : ChangeAt(j) \in ChangeValues
    <3>1. links[f] \in [link : Links, netem_at : Seq(NetemAts)]
      <4> DEFINE T == [link : Links, netem_at : Seq(NetemAts)]
      <4>1. links \in Seq(T) /\ f \in 1..Len(links)
        BY <1>2, <2>1
      <4> HIDE DEF f, T
      <4>2. links[f] \in T
        BY <4>1
      <4> QED
        BY <4>2 DEF T
    <3>2. c \in Seq(NetemAts)
      BY <3>1
    <3>3. f \in 1..Len(links)
      BY <2>1
    <3> HIDE DEF N, f, k
    <3>4. InOrder(c, N(f, n)) /\ N(f, n) \in SUBSET (1..n) /\ \A j \in N(f, n) : ChangeAt(j) \in ChangeValues
      BY <1>4, <1>6, <3>3
    <3> QED
      BY <2>3, <3>2, <3>4
  <2>5. w \in Seq(NetemAts) /\ InOrder(w, N(f, n) \cup {n + 1})
    <3> DEFINE S == N(f, n)
    <3>1. /\ S \in SUBSET (1..n) /\ c \in Seq(NetemAts) /\ AreRecords(c, S)
          /\ \A j \in S : c # <<>> /\ AtOf[ChangeAt(j)] <= LastAt(c)
          /\ \A j \in S \cup {n + 1} : ChangeAt(j) \in ChangeValues
      BY <2>4 DEF InOrder
    <3>2. w = WithChange(c, AtOf[ChangeAt(n + 1)], ChangeAt(n + 1))
      BY <2>3
    <3> HIDE DEF S, c, w
    <3>3. LET v   == ChangeAt(n + 1)
              new == WithChange(c, AtOf[v], v)
          IN  /\ new \in Seq(NetemAts)
              /\ AreRecords(new, S \cup {n + 1})
              /\ \A j \in S \cup {n + 1} : new # <<>> /\ AtOf[ChangeAt(j)] <= LastAt(new)
      BY <3>1, RecordsStep
    <3>4. w \in Seq(NetemAts) /\ InOrder(w, S \cup {n + 1})
      BY <3>2, <3>3 DEF InOrder
    <3> QED
      BY <3>4 DEF S
  <2>6. /\ links' \in Seq([link : Links, netem_at : Seq(NetemAts)])
        /\ Len(links') = Len(links)
        /\ \A i \in 1..Len(links) : /\ links'[i].link = links[i].link
                                    /\ i # f => links'[i] = links[i]
        /\ links'[f].netem_at = w
    <3>1. links' = [links EXCEPT ![f].netem_at = w] /\ w \in Seq(NetemAts) /\ f \in 1..Len(links)
      BY <1>1, <1>8, <2>1, <2>5
    <3> HIDE DEF f, w
    <3> QED
      BY <3>1, OneLinkChanged
  <2>7. ASSUME NEW i \in 1..Len(links') PROVE InOrder(links'[i].netem_at, NamedSoFar(i)')
    <3>1. NamedSoFar(i)' = N(i, n + 1) /\ i \in 1..Len(links)
      BY <1>5, <2>6
    <3>2. CASE i = f
      <4> HIDE DEF N, f, w
      <4> QED
        BY <2>2, <2>5, <2>6, <3>1, <3>2
    <3>3. CASE i # f
      <4>1. N(i, n + 1) = N(i, n)
        <5>1. CASE links[i].link = l
          <6>1. ~IsFirst(i)
            <7>1. f < i
              BY <1>2, <2>1, <3>1, <3>3, <5>1
            <7>2. f \in 1..(i - 1)
              BY <1>2, <2>1, <3>1, <7>1
            <7> HIDE DEF f, l
            <7> QED
              BY <2>1, <5>1, <7>2 DEF IsFirst
          <6> QED
            BY <6>1
        <5>2. CASE links[i].link # l
          <6>1. ~Names(k, links[i].link)
            BY <5>2 DEF Names
          <6> HIDE DEF N, k
          <6> QED
            BY <1>6, <3>1, <6>1
        <5> QED
          BY <5>1, <5>2
      <4>2. links'[i] = links[i] /\ InOrder(links[i].netem_at, N(i, n))
        <5> HIDE DEF N, f
        <5> QED
          BY <1>4, <2>6, <3>1, <3>3
      <4> HIDE DEF N
      <4> QED
        BY <3>1, <4>1, <4>2
    <3> QED
      BY <3>2, <3>3
  <2>8. ChangesInv'
    BY <2>7, InOrderPrimed
  <2> QED
    BY <2>6, <2>8
<1> QED
  BY <1>7, <1>8

LEMMA ChangeKeeps ==
    ASSUME TopoInv, load_netem_at
    PROVE  TopoInv'
<1>1. /\ TypeOK /\ DictionaryIsFile /\ LinksAreSorted /\ LinksAreNamed /\ ChangesInv /\ SoundSoFar
      /\ pc = "netem" /\ raised = "none" /\ file' = file /\ parameters' = parameters
  BY DEF TopoInv, LoadInv, load_netem_at
<1>2. at \in 1..(Len(SortedKeys) + 1) /\ Len(SortedKeys) \in Nat
  BY <1>1, KeyTypes DEF TypeOK
<1>3. /\ pc' \in {"netem", "done"} /\ at' \in 1..(Len(SortedKeys) + 1)
      /\ link_characteristics' \in Seq([link : Links, netem_at : Seq(NetemAts)])
      /\ Len(link_characteristics') = Len(link_characteristics)
      /\ \A i \in 1..Len(link_characteristics) :
            link_characteristics'[i].link = link_characteristics[i].link
      /\ ChangesInv' /\ SoundSoFar' /\ raised' \in Exceptions \cup {"none"}
  <2>1. /\ \A j : SoundPathLine(j)' <=> SoundPathLine(j)
        /\ \A j : SoundChange(j)' <=> SoundChange(j)
        /\ SoundFile' <=> SoundFile
        /\ ChangesOn' <=> ChangesOn
    BY <1>1, SameDictionary
  <2>2. /\ KeysLoaded = Len(SortedKeys)
        /\ \A i \in 1..Len(SortedKeys) : SortedKeys[i] \in PathKeys => SoundPathLine(SortedKeys[i])
        /\ ChangesOn =>
            \A i \in 1..(at - 1) : SortedKeys[i] \in NetemKeys => SoundChange(SortedKeys[i])
    BY <1>1 DEF SoundSoFar, KeysLoaded, Changing
  <2>3. CASE ChangesOn /\ at <= Len(SortedKeys)
    <3> DEFINE n == at - 1
               k == SortedKeys[at]
    <3>1. n \in Nat /\ at = n + 1 /\ at \in 1..Len(SortedKeys) /\ k \in Keys
      BY <1>2, <2>3, KeyTypes
    <3>2. pc' = "netem" /\ at' = n + 2 /\ LoadChange(k)
      BY <1>1, <1>2, <2>3 DEF load_netem_at
    <3>3. /\ link_characteristics' \in Seq([link : Links, netem_at : Seq(NetemAts)])
          /\ Len(link_characteristics') = Len(link_characteristics)
          /\ \A i \in 1..Len(link_characteristics) :
                link_characteristics'[i].link = link_characteristics[i].link
          /\ ChangesInv'
      <4>1. k = SortedKeys[n + 1]
        BY <3>1
      <4> HIDE DEF n, k
      <4>2. SortedKeys[n + 1] \in Keys /\ LoadChange(SortedKeys[n + 1])
        BY <3>1, <3>2, <4>1
      <4> QED
        BY <1>1, <2>2, <2>3, <3>1, <3>2, <4>2, ChangesStep
    <3>4. \/ raised' = "none" /\ (k \in NetemKeys => SoundChange(k))
          \/ raised' \in Exceptions /\ k \in NetemKeys /\ ~SoundChange(k)
      <4> HIDE DEF k
      <4> QED
        BY <1>1, <2>2, <3>1, <3>2, LoadChangeCases
    <3>5. SoundSoFar'
      <4>1. KeysLoaded' = Len(SortedKeys) /\ Changing' /\ at' - 1 = n + 1
        BY <2>1, <2>3, <3>1, <3>2 DEF KeysLoaded, Changing
      <4>2. raised' = "none" =>
              \A i \in 1..(n + 1) : SortedKeys[i] \in NetemKeys => SoundChange(SortedKeys[i])
        BY <2>2, <2>3, <3>1, <3>4 DEF Exceptions
      <4>3. raised' # "none" => ~SoundFile
        BY <2>3, <3>4 DEF SoundFile
      <4> HIDE DEF n
      <4> QED
        BY <2>1, <2>2, <3>2, <4>1, <4>2, <4>3 DEF SoundSoFar
    <3>6. at' \in 1..(Len(SortedKeys) + 1)
      BY <1>2, <3>1, <3>2
    <3> QED
      BY <3>2, <3>3, <3>4, <3>5, <3>6
  <2>4. CASE ~(ChangesOn /\ at <= Len(SortedKeys))
    <3>1. /\ pc' = "done" /\ at' = at /\ link_characteristics' = link_characteristics
          /\ raised' = "none"
      BY <1>1, <2>4 DEF load_netem_at
    <3>2. ChangesOn => at = Len(SortedKeys) + 1
      BY <1>2, <2>4
    <3>3. Changing' <=> Changing
      BY <1>1, <2>1, <3>1 DEF Changing
    <3>4. \A i : NamedSoFar(i)' = NamedSoFar(i)
      <4>1. \A i, m : ChangesNamed(link_characteristics[i].link, m)' = ChangesNamed(link_characteristics[i].link, m)
        BY <1>1, <3>1 DEF ChangesNamed, Value
      <4>2. \A i : IsFirst(i)' <=> IsFirst(i)
        BY <3>1 DEF IsFirst
      <4> QED
        BY <3>1, <3>3, <4>1, <4>2 DEF NamedSoFar
    <3>5. ChangesInv'
      <4>1. \A i \in 1..Len(link_characteristics') :
                InOrder(link_characteristics'[i].netem_at, NamedSoFar(i)')
        BY <1>1, <3>1, <3>4 DEF ChangesInv, InOrder
      <4> QED
        BY <1>1, <4>1, InOrderPrimed
    <3>6. SoundSoFar'
      <4>1. KeysLoaded' = Len(SortedKeys)
        BY <3>1 DEF KeysLoaded
      <4>2. Changing' <=> ChangesOn
        BY <2>1, <3>1 DEF Changing
      <4> QED
        BY <2>1, <2>2, <3>1, <3>2, <4>1, <4>2 DEF SoundSoFar
    <3>7. link_characteristics \in Seq([link : Links, netem_at : Seq(NetemAts)])
      BY <1>1 DEF TypeOK
    <3> QED
      BY <1>2, <3>1, <3>5, <3>6, <3>7
  <2> QED
    BY <2>3, <2>4
<1>4. KeysLoaded' = KeysLoaded /\ LinesRead' = LinesRead
  BY <1>1, <1>3 DEF KeysLoaded, LinesRead
<1>5. TypeOK'
  BY <1>1, <1>3 DEF TypeOK, Exceptions
<1>6. DictionaryIsFile'
  BY <1>1, <1>4 DEF DictionaryIsFile, LinesOf
<1>7. LinksAreSorted' /\ LinksAreNamed'
  <2>1. \A m : PathsUpTo(m)' = PathsUpTo(m)
    BY <1>1, SameDictionary
  <2>2. LinksAreNamed'
    BY <1>1, <1>3, <1>4, <2>1 DEF LinksAreNamed
  <2>3. \A i \in PathsUpTo(KeysLoaded) : Cardinality(PathsUpTo(i)) \in 1..Len(link_characteristics)
    <3> SUFFICES ASSUME NEW i \in PathsUpTo(KeysLoaded)
                 PROVE  Cardinality(PathsUpTo(i)) \in 1..Len(link_characteristics)
      OBVIOUS
    <3> DEFINE m == KeysLoaded
    <3>1. m \in Nat /\ i \in PathsUpTo(m) /\ Len(link_characteristics) = Cardinality(PathsUpTo(m))
      BY <1>1, <1>2 DEF KeysLoaded, LinksAreSorted
    <3> HIDE DEF m
    <3>2. PathsUpTo(m) \in SUBSET (1..m) /\ PathsUpTo(i) \in SUBSET PathsUpTo(m) /\ PathsUpTo(i) # {}
      BY <3>1, PathsUpToStep
    <3> QED
      BY <3>1, <3>2, PlaceOf
  <2>4. LinksAreSorted'
    BY <1>1, <1>3, <1>4, <2>1, <2>3 DEF LinksAreSorted
  <2> QED
    BY <2>2, <2>4
<1> QED
  BY <1>3, <1>5, <1>6, <1>7 DEF TopoInv, LoadInv

-----------------------------------------------------------------------------
(* The theorems                                                            *)

(* At any time of the loading, what has been made of the file is known:    *)
(* the values of each key, the links, the changes of each, and whether the *)
(* keys seen so far were all right.                                        *)
THEOREM TopoInvariant == Spec => []TopoInv
<1>1. TopoInv /\ UNCHANGED vars => TopoInv'
  <2> SUFFICES ASSUME TopoInv, UNCHANGED vars PROVE TopoInv'
    OBVIOUS
  <2>1. /\ file' = file /\ pc' = pc /\ at' = at /\ parameters' = parameters
        /\ link_characteristics' = link_characteristics /\ raised' = raised
    BY DEF vars
  <2>2. /\ \A n : PathsUpTo(n)' = PathsUpTo(n)
        /\ ChangesOn' <=> ChangesOn
        /\ \A k : SoundPathLine(k)' <=> SoundPathLine(k)
        /\ \A k : SoundChange(k)' <=> SoundChange(k)
        /\ SoundFile' <=> SoundFile
    BY <2>1, SameDictionary
  <2>3. KeysLoaded' = KeysLoaded /\ (Changing' <=> Changing)
    BY <2>1, <2>2 DEF KeysLoaded, Changing
  <2>4. TypeOK' /\ DictionaryIsFile'
    <3>1. TypeOK'
      BY <2>1 DEF TopoInv, LoadInv, TypeOK
    <3>2. LinesRead' = LinesRead
      BY <2>1 DEF LinesRead
    <3>3. DictionaryIsFile'
      BY <2>1, <3>2 DEF TopoInv, LoadInv, DictionaryIsFile, LinesOf
    <3> QED
      BY <3>1, <3>3
  <2>5. LinksAreSorted' /\ LinksAreNamed'
    BY <2>1, <2>2, <2>3 DEF TopoInv, LoadInv, LinksAreSorted, LinksAreNamed
  <2>6. ChangesInv'
    <3>1. \A i : NamedSoFar(i)' = NamedSoFar(i)
      <4>1. \A i, m : ChangesNamed(link_characteristics[i].link, m)' = ChangesNamed(link_characteristics[i].link, m)
        BY <2>1 DEF ChangesNamed, Value
      <4>2. \A i : IsFirst(i)' <=> IsFirst(i)
        BY <2>1 DEF IsFirst
      <4> QED
        BY <2>1, <2>3, <4>1, <4>2 DEF NamedSoFar
    <3>2. \A i \in 1..Len(link_characteristics') :
              InOrder(link_characteristics'[i].netem_at, NamedSoFar(i)')
      BY <2>1, <3>1 DEF TopoInv, ChangesInv, InOrder
    <3> QED
      BY <2>1, <3>2, InOrderPrimed
  <2>7. SoundSoFar'
    BY <2>1, <2>2, <2>3 DEF TopoInv, SoundSoFar
  <2> QED
    BY <2>4, <2>5, <2>6, <2>7 DEF TopoInv, LoadInv
<1>2. TopoInv /\ [Next]_vars => TopoInv'
  BY <1>1, ReadKeeps, LinkKeeps, ChangeKeeps DEF Next
<1> QED
  BY <1>2, InitInv, PTL DEF Spec

(* The dictionary has all the values of each key in the order of the file, *)
(* and the links are the path lines that parse, in sorted order.           *)
THEOREM FileIsLoaded == Spec => []LoadInv
<1>1. TopoInv => LoadInv
  BY DEF TopoInv
<1> QED
  BY <1>1, TopoInvariant, PTL

(* When a file is loaded, the changes of a link are the records among      *)
(* those that the file names for it.                                       *)
THEOREM RecordsRemain == Spec => []ChangesAreRecords
<1>1. ASSUME TopoInv, pc = "done", NEW i \in 1..Len(link_characteristics)
      PROVE  AreRecords(link_characteristics[i].netem_at,
                        IF ChangesOn /\ IsFirst(i)
                        THEN ChangesNamed(link_characteristics[i].link, Len(SortedKeys)) ELSE {})
  <2>1. AreRecords(link_characteristics[i].netem_at, NamedSoFar(i))
    BY <1>1 DEF TopoInv, ChangesInv
  <2>2. ChangesOn => at - 1 = Len(SortedKeys)
    BY <1>1, KeyTypes DEF TopoInv, SoundSoFar
  <2>3. NamedSoFar(i) = IF ChangesOn /\ IsFirst(i)
                        THEN ChangesNamed(link_characteristics[i].link, Len(SortedKeys)) ELSE {}
    BY <1>1, <2>2 DEF NamedSoFar, Changing
  <2> QED
    BY <2>1, <2>3
<1>2. TopoInv => ChangesAreRecords
  BY <1>1 DEF ChangesAreRecords
<1> QED
  BY <1>2, TopoInvariant, PTL

(* The files that load without an exception are exactly the sound ones.    *)
THEOREM SoundFilesOnly == Spec => []SoundFilesLoad
<1>1. ASSUME TopoInv, pc = "done" PROVE SoundFile
  <2>1. /\ \A i \in 1..Len(SortedKeys) : SortedKeys[i] \in PathKeys => SoundPathLine(SortedKeys[i])
        /\ ChangesOn => at - 1 = Len(SortedKeys)
        /\ ChangesOn =>
            \A i \in 1..(at - 1) : SortedKeys[i] \in NetemKeys => SoundChange(SortedKeys[i])
    BY <1>1, KeyTypes DEF TopoInv, SoundSoFar, KeysLoaded, Changing
  <2>2. \A k \in PathKeys : SoundPathLine(k)
    BY <2>1, KeyTypes
  <2>3. ChangesOn => \A k \in NetemKeys : SoundChange(k)
    BY <2>1, KeyTypes
  <2> QED
    BY <2>2, <2>3 DEF SoundFile
<1>2. TopoInv => SoundFilesLoad
  BY <1>1 DEF TopoInv, SoundSoFar, SoundFilesLoad
<1> QED
  BY <1>2, TopoInvariant, PTL
=============================================================================
