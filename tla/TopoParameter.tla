---------------------------- MODULE TopoParameter ----------------------------
(***************************************************************************)
(* Loading a topology's parameter file: the dictionary that                *)
(* load_parameter_file of core/parameter.py fills line by line, then the   *)
(* links and the changes of links that TopoParameter of core/topo.py finds *)
(* in it, key by key in sorted order.                                      *)
(*                                                                         *)
(* Keys and values stand for strings; what the parsing functions make of   *)
(* them is given by the constants.                                         *)
(***************************************************************************)
EXTENDS LinkCharacteristics, FiniteSets

CONSTANTS
    SortedKeys,     \* the keys a file may have, in sorted order
    PathKeys,       \* those that start with "path"
    NetemKeys,      \* those that start with "netemAt_"
    LinkOf,         \* the link such a key names, as [link_type, id], or NoLink
    NoLink,         \* ... if it does not parse
    ChangeNetem,    \* the key changeNetem
    Yes,            \* the value "yes"
    Values,         \* the values a line may have
    LinkValues,     \* those that parse as the characteristics of a link
    ZeroValues,     \* those of them with the bandwidth 0
    ChangeValues,   \* those that parse as the time and command of a change
    AtOf,           \* the time of such a change
    NoKey,          \* the key of a comment or of a line without one colon
    Lines,          \* the lines a file may have, each with a key and a value
    MaxLines        \* lines of a file

Keys == {SortedKeys[i] : i \in 1..Len(SortedKeys)}

ASSUME TopoParameterAssumption ==
    /\ SortedKeys \in Seq(Keys)
    /\ \A i, j \in 1..Len(SortedKeys) : SortedKeys[i] = SortedKeys[j] => i = j
    /\ PathKeys \cup NetemKeys \cup {ChangeNetem} \subseteq Keys
    /\ PathKeys \cap NetemKeys = {}
    /\ NoKey \notin Keys
    /\ \A k \in PathKeys \cup NetemKeys : LinkOf[k] = NoLink \/ LinkOf[k].id \in Nat
    /\ ZeroValues \subseteq LinkValues
    /\ AtOf \in [ChangeValues -> Int]
    /\ Lines \subseteq [key : Keys \cup {NoKey}, value : Values]
    /\ MaxLines \in Nat

VARIABLES
    file,                   \* the lines of the file
    pc,                     \* "read", "links", "netem" or "done"
    at,                     \* the line, or the key, that comes next
    parameters,             \* the values of each key: none, one or a list
    link_characteristics,   \* the links
    raised                  \* the exception that ends the program, or "none"

vars == <<file, pc, at, parameters, link_characteristics, raised>>

NetemAts == [at : Int, delta : Int, cmd : ChangeValues]

Links == {LinkOf[k] : k \in PathKeys} \ {NoLink}

TypeOK ==
    /\ file \in Seq(Lines)
    /\ pc \in {"read", "links", "netem", "done"}
    /\ at \in 1..((IF pc = "read" THEN Len(file) ELSE Len(SortedKeys)) + 1)
    /\ parameters \in [Keys -> Seq(Values)]
    /\ link_characteristics \in Seq([link : Links, netem_at : Seq(NetemAts)])
    /\ raised \in {"none", "ValueError", "AttributeError", "IndexError", "ZeroDivisionError"}

Init ==
    /\ file \in UNION {[1..n -> Lines] : n \in 0..MaxLines}
    /\ pc = "read"
    /\ at = 1
    /\ parameters = [k \in Keys |-> <<>>]
    /\ link_characteristics = <<>>
    /\ raised = "none"

-----------------------------------------------------------------------------
(* load_parameter_file                                                     *)

(* Mutant: the last value of a key replaces the others.                    *)
WithLineLast(line) ==
    IF line.key = NoKey THEN parameters
                        ELSE [parameters EXCEPT ![line.key] = <<line.value>>]

(* A second value turns what the key has into a list.                      *)
WithLine(line) ==
    IF line.key = NoKey THEN parameters
                        ELSE [parameters EXCEPT ![line.key] = Append(@, line.value)]

ReadLine ==
    /\ pc = "read"
    /\ IF at <= Len(file)
       THEN parameters' = WithLine(file[at]) /\ at' = at + 1 /\ UNCHANGED pc
       ELSE pc' = "links" /\ at' = 1 /\ UNCHANGED parameters
    /\ UNCHANGED <<file, link_characteristics, raised>>

Present(k) == parameters[k] # <<>>

IsList(k) == Len(parameters[k]) > 1

Value(k) == parameters[k][1]

-----------------------------------------------------------------------------
(* load_link_characteristics                                               *)

NewLink(k) == [link |-> LinkOf[k], netem_at |-> <<>>]

(* What the program does with the key of a link: a key or a value that     *)
(* does not parse is ignored, a list has no split, and the queuing delay   *)
(* is a division by the bandwidth.                                         *)
LoadLink(k) ==
    IF k \notin PathKeys \/ ~Present(k) \/ LinkOf[k] = NoLink
    THEN UNCHANGED <<link_characteristics, raised>>
    ELSE IF IsList(k)
    THEN raised' = "AttributeError" /\ UNCHANGED link_characteristics
    ELSE IF Value(k) \notin LinkValues
    THEN UNCHANGED <<link_characteristics, raised>>
    ELSE IF Value(k) \in ZeroValues
    THEN raised' = "ZeroDivisionError" /\ UNCHANGED link_characteristics
    ELSE /\ link_characteristics' = Append(link_characteristics, NewLink(k))
         /\ UNCHANGED raised

load_link_characteristics ==
    /\ pc = "links"
    /\ raised = "none"
    /\ IF at <= Len(SortedKeys)
       THEN LoadLink(SortedKeys[at]) /\ at' = at + 1 /\ UNCHANGED pc
       ELSE pc' = "netem" /\ at' = 1 /\ UNCHANGED <<link_characteristics, raised>>
    /\ UNCHANGED <<file, parameters>>

-----------------------------------------------------------------------------
(* load_netem_at                                                           *)

ChangesOn == parameters[ChangeNetem] = <<Yes>>

Loaded(l) == \E i \in 1..Len(link_characteristics) : link_characteristics[i].link = l

(* Mutant: the link is looked for by its identifier alone.                 *)
FindLinkById(l) ==
    CHOOSE i \in 1..Len(link_characteristics) :
        /\ link_characteristics[i].link.id = l.id
        /\ \A j \in 1..(i - 1) : link_characteristics[j].link.id # l.id

(* The first link with that type and identifier.                           *)
find_link_characteristic(l) ==
    CHOOSE i \in 1..Len(link_characteristics) :
        /\ link_characteristics[i].link = l
        /\ \A j \in 1..(i - 1) : link_characteristics[j].link # l

(* Mutant: the links are counted from 1.                                   *)
LogChangeFromOne(l) ==
    raised' = IF l.id + 1 < Len(link_characteristics) THEN raised ELSE "IndexError"

(* The list of links is read at the identifier of the link, to log it.     *)
LogChange(l) ==
    raised' = IF l.id < Len(link_characteristics) THEN raised ELSE "IndexError"

(* A value that does not parse is logged; a ValueError in the place of the *)
(* link has no add_netem_at.                                               *)
load_netem_at_value(l, k) ==
    IF IsList(k)
    THEN raised' = "AttributeError" /\ UNCHANGED link_characteristics
    ELSE IF Value(k) \notin ChangeValues
    THEN LogChange(l) /\ UNCHANGED link_characteristics
    ELSE IF ~Loaded(l)
    THEN raised' = "AttributeError" /\ UNCHANGED link_characteristics
    ELSE /\ link_characteristics' =
                [link_characteristics EXCEPT ![find_link_characteristic(l)].netem_at =
                    WithChange(@, AtOf[Value(k)], Value(k))]
         /\ LogChange(l)

LoadChange(k) ==
    IF k \notin NetemKeys \/ ~Present(k)
    THEN UNCHANGED <<link_characteristics, raised>>
    ELSE IF LinkOf[k] = NoLink
    THEN raised' = "ValueError" /\ UNCHANGED link_characteristics
    ELSE load_netem_at_value(LinkOf[k], k)

load_netem_at ==
    /\ pc = "netem"
    /\ raised = "none"
    /\ IF ChangesOn /\ at <= Len(SortedKeys)
       THEN LoadChange(SortedKeys[at]) /\ at' = at + 1 /\ UNCHANGED pc
       ELSE pc' = "done" /\ UNCHANGED <<at, link_characteristics, raised>>
    /\ UNCHANGED <<file, parameters>>

Next == ReadLine \/ load_link_characteristics \/ load_netem_at

Spec == Init /\ [][Next]_vars

-----------------------------------------------------------------------------
(* What a loaded file means                                                *)

(* The lines of a file with the key k among the first n, by their numbers. *)
LinesOf(k, n) == {i \in 1..n : file[i].key = k}

LinesRead == IF pc = "read" THEN at - 1 ELSE Len(file)

(* The dictionary is the file: each key has the values of its lines, all   *)
(* of them and in their order, whatever lines come between.                *)
DictionaryIsFile ==
    \A k \in Keys :
        /\ Len(parameters[k]) = Cardinality(LinesOf(k, LinesRead))
        /\ \A i \in LinesOf(k, LinesRead) :
            parameters[k][Cardinality(LinesOf(k, i))] = file[i].value

(* The path lines that become links.                                       *)
SoundPaths ==
    {k \in PathKeys : Present(k) /\ LinkOf[k] # NoLink /\ ~IsList(k)
                        /\ Value(k) \in LinkValues \ ZeroValues}

(* Those among the first n keys, by their places in the sorted order.      *)
PathsUpTo(n) == {i \in 1..n : SortedKeys[i] \in SoundPaths}

KeysLoaded == IF pc = "read" THEN 0 ELSE IF pc = "links" THEN at - 1 ELSE Len(SortedKeys)

(* The links are the path lines that parse, in the sorted order of their   *)
(* keys and not in the order of the file.                                  *)
LinksAreSorted ==
    /\ Len(link_characteristics) = Cardinality(PathsUpTo(KeysLoaded))
    /\ \A i \in PathsUpTo(KeysLoaded) :
        link_characteristics[Cardinality(PathsUpTo(i))].link = LinkOf[SortedKeys[i]]

(* At any time of the loading: what was read and what was made of it so    *)
(* far is what the file says.                                              *)
LoadInv == TypeOK /\ DictionaryIsFile /\ LinksAreSorted

(* The changes that the first n keys name for a link.                      *)
ChangesNamed(l, n) ==
    {i \in 1..n : LET k == SortedKeys[i]
                  IN  /\ k \in NetemKeys
                      /\ LinkOf[k] = l
                      /\ Len(parameters[k]) = 1
                      /\ Value(k) \in ChangeValues}

ChangeAt(i) == Value(SortedKeys[i])

(* Those that are later than all the changes named before them.            *)
Records(named) == {i \in named : \A j \in named : j < i => AtOf[ChangeAt(j)] < AtOf[ChangeAt(i)]}

(* The changes of a link are in the order of time, each sleeps from the    *)
(* one before, and they are the records of those named.                    *)
AreRecords(changes, named) ==
    /\ \A j \in 1..Len(changes) :
        /\ changes[j].at = AtOf[changes[j].cmd]
        /\ changes[j].delta = changes[j].at - (IF j = 1 THEN 0 ELSE changes[j - 1].at)
        /\ j > 1 => changes[j - 1].at < changes[j].at
    /\ {changes[j].cmd : j \in 1..Len(changes)} = {ChangeAt(i) : i \in Records(named)}

(* No link before the i-th has its type and identifier.                    *)
IsFirst(i) ==
    \A j \in 1..(i - 1) : link_characteristics[j].link # link_characteristics[i].link

(* When a file is loaded, the changes of a link are in the order of time,  *)
(* and they are those that the file names for this link and that are later *)
(* than every change named before; none without changeNetem, and none for  *)
(* a link whose name another has before it.                                *)
ChangesAreRecords ==
    pc = "done" => \A i \in 1..Len(link_characteristics) :
        LET l == link_characteristics[i]
        IN  AreRecords(l.netem_at, IF ChangesOn /\ IsFirst(i)
                                   THEN ChangesNamed(l.link, Len(SortedKeys)) ELSE {})

(* A path line is all right if its key does not parse, or is not repeated  *)
(* and has no bandwidth of 0.                                              *)
SoundPathLine(k) == Present(k) /\ LinkOf[k] # NoLink => ~IsList(k) /\ Value(k) \notin ZeroValues

(* A change is all right if its key is not repeated and names a link whose *)
(* identifier is below the number of links; this link has to exist if the  *)
(* value parses.                                                           *)
SoundChange(k) ==
    Present(k) =>
        /\ ~IsList(k)
        /\ LinkOf[k] # NoLink
        /\ Value(k) \in ChangeValues => \E p \in SoundPaths : LinkOf[p] = LinkOf[k]
        /\ LinkOf[k].id < Cardinality(SoundPaths)

SoundFile ==
    /\ \A k \in PathKeys : SoundPathLine(k)
    /\ ChangesOn => \A k \in NetemKeys : SoundChange(k)

(* The files that load are the sound ones: a sound file raises nothing,    *)
(* whatever is wrong with its other lines; and no other file gets through, *)
(* although most errors are meant to be logged.                            *)
SoundFilesLoad ==
    /\ pc # "read" /\ SoundFile => raised = "none"
    /\ pc = "done" => SoundFile

-----------------------------------------------------------------------------
(* Why: what is known between two keys                                     *)

(* Every link is one that a key before names.                              *)
LinksAreNamed ==
    \A m \in 1..Len(link_characteristics) : \E i \in PathsUpTo(KeysLoaded) :
        link_characteristics[m].link = LinkOf[SortedKeys[i]]

Changing == pc \in {"netem", "done"} /\ ChangesOn

NamedSoFar(i) ==
    IF Changing /\ IsFirst(i) THEN ChangesNamed(link_characteristics[i].link, at - 1) ELSE {}

(* No change named so far is later than the last one of its link.          *)
ChangesInv ==
    \A i \in 1..Len(link_characteristics) :
        LET changes == link_characteristics[i].netem_at
        IN  /\ AreRecords(changes, NamedSoFar(i))
            /\ \A j \in NamedSoFar(i) : changes # <<>> /\ AtOf[ChangeAt(j)] <= LastAt(changes)

(* The keys that the program got past are all right.                       *)
SoundSoFar ==
    /\ pc \in {"read", "done"} => raised = "none"
    /\ pc = "done" /\ ChangesOn => at = Len(SortedKeys) + 1
    /\ raised = "none" =>
        /\ \A i \in 1..KeysLoaded : SortedKeys[i] \in PathKeys => SoundPathLine(SortedKeys[i])
        /\ Changing =>
            \A i \in 1..(at - 1) : SortedKeys[i] \in NetemKeys => SoundChange(SortedKeys[i])
    /\ raised # "none" => ~SoundFile

TopoInv == LoadInv /\ LinksAreNamed /\ ChangesInv /\ SoundSoFar
=============================================================================
