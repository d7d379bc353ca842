------------------------------ MODULE FileName ------------------------------
(***************************************************************************)
(* The names of files: core/src/sanitize.rs as operators on sequences of   *)
(* characters.  A character is a string; "TAB" stands for any control      *)
(* character that is also white space, "BEL" for one that is not, "w" for  *)
(* a letter of two bytes and "download" for the letters of that word.      *)
(* Percent decoding happens before: a raw name is what it yields.          *)
(***************************************************************************)
EXTENDS Integers, SequencesExt

Separators == {"/", "\\"}
Controls == {"TAB", "BEL"}
WhiteSpace == {" ", "TAB"}
Edges == {" ", "."}

FallbackName == <<"download">>

\* String::len counts bytes.
Bytes(name) == FoldSeq(LAMBDA c, n : n + (IF c = "w" THEN 2 ELSE 1), 0, name)

LastComponent(raw) ==
  SubSeq(raw, SelectLastInSeq(raw, LAMBDA c : c \in Separators) + 1, Len(raw))

Trimmed(name, chars) ==
  LET kept == {i \in DOMAIN name : name[i] \notin chars}
  IN IF kept = {} THEN <<>> ELSE SubSeq(name, Min(kept), Max(kept))

Uncontrolled(name) ==
  [i \in DOMAIN name |-> IF name[i] \in Controls THEN "_" ELSE name[i]]

\* The limit is compared with the bytes and applied to the characters.
SanitizeTo(max, raw) ==
  LET bare == Trimmed(Uncontrolled(Trimmed(LastComponent(raw), WhiteSpace)), Edges)
      cleaned == IF bare = <<>> THEN FallbackName ELSE bare
  IN IF Bytes(cleaned) > max THEN SubSeq(cleaned, 1, Min({max, Len(cleaned)})) ELSE cleaned

-----------------------------------------------------------------------------
LastDot(name) == SelectLastInSeq(name, LAMBDA c : c = ".")

\* Path::file_stem and Path::extension; the dot goes with the extension here.
Stem(name) == IF LastDot(name) <= 1 THEN name ELSE SubSeq(name, 1, LastDot(name) - 1)
Extension(name) == SubSeq(name, Len(Stem(name)) + 1, Len(name))

\* A plausible slip: the dot is written whether or not there is an extension.
NumberedDotted(name, n) ==
  IF n = 0 THEN name
  ELSE Stem(name) \o <<" ", "(", ToString(n), ")", ".">> \o SubSeq(Extension(name), 2, Len(Extension(name)))

Numbered(name, n) ==
  IF n = 0 THEN name ELSE Stem(name) \o <<" ", "(", ToString(n), ")">> \o Extension(name)

\* The first of name, "name (1)", "name (2)", ... that is not taken.  One of
\* the first Cardinality(taken) + 1 is free; the code's fallback after 10 000
\* collisions is beyond every bound used here.
ResolveNonColliding(name, taken) ==
  Numbered(name, Min({n \in 0..Cardinality(taken) : Numbered(name, n) \notin taken}))

=============================================================================
