--------------------------- MODULE MCDestination ---------------------------
(***************************************************************************)
(* Two names that sanitize to the same one, and the name that numbering    *)
(* makes of it; and a name of which nothing is left.                       *)
(***************************************************************************)
EXTENDS Destination

Names ==
  {<<"a", ".", "b">>, <<"/", "a", ".", "b", " ">>, <<"a", " ", "(", "1", ")", ".", "b">>,
   <<".", "TAB">>}

Letters ==
  {"a", "b", ".", " ", "/", "TAB", "_", "(", ")", "download"} \cup {ToString(n) : n \in 0..9}

Symmetry == Permutations(Tasks)

\* Every number that build_task tries has a numeral of its own, and sanitizing
\* removes none of them.
ASSUME NumeralsDiffer ==
  LET numerals == {ToString(n) : n \in 0..9999} IN
  Cardinality(numerals) = 10000 /\ numerals \cap (Separators \cup Controls \cup Edges) = {}

ASSUME NamesOfTheRun == NamesKept

AllRaw == BoundedSeq({"a", ".", " ", "/", "TAB", "w"}, 4)

\* Whatever a server or a page sends and wherever the limit cuts it, the name a
\* task starts from (sanitized by add and once more by build_task) is one path
\* component of visible characters, within the limit, not empty, not "." or
\* ".." (sanitize.rs, its first lines), and sanitizing it again changes nothing.
ASSUME NamesAreClean ==
  \A max \in 1..3, raw \in AllRaw :
    LET name == SanitizeTo(max, SanitizeTo(max, raw)) IN
    /\ Len(name) \in 1..max
    /\ ToSet(name) \cap (Separators \cup Controls) = {}
    /\ name[1] \notin Edges /\ name[Len(name)] \notin Edges
    /\ SanitizeTo(max, name) = name
=============================================================================
