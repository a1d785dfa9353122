------------------------------ MODULE Language ------------------------------
(***************************************************************************)
(* Class Language (language.h, language.cc): the parse of the table into    *)
(* the colours and the languages of file extensions, one step for each      *)
(* entry.  A colour is its language's name; the padding of names of one     *)
(* letter is left out.                                                      *)
(***************************************************************************)
EXTENDS Integers, Sequences

CONSTANTS
  Table,       \* the entries of LANGUAGE_JSON, in the order they are read
  Extensions   \* the extensions that are looked up

VARIABLE lang        \* the members of Language, and the place in the loop

NoLanguage == ""     \* a null PropsPointer

Names == {Table[k].name : k \in DOMAIN Table}
Entry == [n \in Names |-> Table[CHOOSE k \in DOMAIN Table : Table[k].name = n]]
Groups == {Table[k].group : k \in DOMAIN Table} \ {""}

\* find_group: up to the language that belongs to none, or to a name that is not in
\* the table.  Its last turn reads a key that is not there: see ParseAborts.
find_group[n \in Names \cup Groups] ==
  IF n \in Names /\ Entry[n].group # "" THEN find_group[Entry[n].group] ELSE n

\* How many groups the walk passes.
Depth[n \in Names \cup Groups] ==
  IF n \in Names /\ Entry[n].group # "" THEN Depth[Entry[n].group] + 1 ELSE 0

\* The keys of an object differ.  Of this table: no name is empty, no language of
\* a group has a colour of its own, and no group is, in the end, in itself.
ASSUME TableAssumption ==
  /\ Table \in Seq([name : STRING, group : STRING, color : BOOLEAN, exts : SUBSET STRING])
  /\ \A j, k \in DOMAIN Table : Table[j].name = Table[k].name => j = k
  /\ NoLanguage \notin Names
  /\ \A k \in DOMAIN Table : Table[k].group = "" \/ ~Table[k].color
  /\ Depth \in [Names \cup Groups -> 0..Len(Table)]
  /\ \A n \in Names : Entry[n].group # "" => Depth[Entry[n].group] < Depth[n]

\* parse_colors: the languages that have a colour.  lang.added are the keys with
\* an empty one.
Painted == {n \in Names : Entry[n].group = "" /\ Entry[n].color}

LanguageInit ==
  lang = [next |-> 1, aborted |-> FALSE, added |-> {},
          extension_map |-> [x \in Extensions |-> NoLanguage]]

Parsing == ~lang.aborted /\ lang.next \in DOMAIN Table
Parsed == ~lang.aborted /\ lang.next \notin DOMAIN Table

\* Mutant: a later language takes the extension.
Overwritten(v) ==
  [x \in Extensions |-> IF x \in v.exts THEN v.name ELSE lang.extension_map[x]]

\* "Don't overwrite."
Extended(v) ==
  [x \in Extensions |-> IF x \in v.exts /\ lang.extension_map[x] = NoLanguage
                        THEN v.name ELSE lang.extension_map[x]]

\* Mutant: a language of a group without a colour is not skipped.
SkippedUnlessChild(v) == v.group = "" /\ ~v.color

\* The two conditions that leave out a language without a colour.
Skipped(v) ==
  \/ v.group = "" /\ ~v.color
  \/ ~v.color /\ find_group[v.name] \notin Painted \cup lang.added

\* One turn of the loop of the constructor.  operator[] adds the group to the
\* colours when it is missing.
ParseEntry ==
  /\ Parsing
  /\ LET v == Table[lang.next]
     IN  lang' = IF Skipped(v) THEN [lang EXCEPT !.next = @ + 1]
                 ELSE [lang EXCEPT !.next = @ + 1,
                                   !.added = @ \cup ({find_group[v.name]} \ Painted),
                                   !.extension_map = Extended(v)]

\* Every walk of find_group ends where operator[] of a constant json gets a key
\* that is not there, "group" or the name itself, which is undefined: with
\* assertions the process aborts; without, what is read is no string.
ParseAborts ==
  /\ Parsing
  /\ Table[lang.next].group # "" \/ Table[lang.next].color
  /\ lang' = [lang EXCEPT !.aborted = TRUE]

get_props(x) == IF x \in Extensions THEN lang.extension_map[x] ELSE NoLanguage

-----------------------------------------------------------------------------

\* A language Discord can draw: it has a colour, or its group has one.
Drawable(v) == IF v.group = "" THEN v.color ELSE find_group[v.name] \in Painted

\* The entries that list an extension and can be drawn.
Takers == [x \in Extensions |->
             {k \in DOMAIN Table : x \in Table[k].exts /\ Drawable(Table[k])}]

\* Of the languages read so far that list an extension, the first that can be
\* drawn has it, whatever order of groups and children the table has, and a
\* language that cannot be drawn never shadows one that can ("Don't overwrite",
\* "Some rare entries may point to groups with no colors").
FirstDrawableWins ==
  \A x \in Extensions :
    LET Read == {k \in Takers[x] : k < lang.next}
    IN  lang.extension_map[x] =
          IF Read = {} THEN NoLanguage
          ELSE Table[CHOOSE k \in Read : \A j \in Read : k =< j].name

\* The colour a language points to is one of the table's, never the empty string
\* that a lookup has put there: the small image of a presence has a key.
ColoursNotEmpty ==
  \A x \in Extensions : lang.extension_map[x] # NoLanguage =>
    find_group[lang.extension_map[x]] \in Painted

=============================================================================
