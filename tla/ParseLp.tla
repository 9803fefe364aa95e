-------------------------------- MODULE ParseLp --------------------------------
(***************************************************************************)
(* parse_lp_var: from the name of an LP variable to the arc it stands for. *)
(*                                                                         *)
(*   y(1|2|16|neg1|3|false|37,1|2|neg2|0|3|true|37)                        *)
(*                                                                         *)
(* A name is a sequence of tokens: the delimiters, "neg", the two words    *)
(* for a boolean, digits, and other words.  Positions count from 1, and 0  *)
(* is std::string::npos: the position behind a delimiter that is not there *)
(* is the first of the name, as with the int positions of the code.        *)
(*                                                                         *)
(* The parsing functions return a set: one value, or none where the code   *)
(* throws or aborts, or the name is no y-variable.  What TLC must evaluate *)
(* only once is a function of its argument.                                *)
(***************************************************************************)
EXTENDS Integers, Sequences, SequencesExt

Digits == <<"0", "1", "2", "3", "4", "5", "6", "7", "8", "9">>

Find[s \in Seq(STRING), token \in STRING, from \in Nat] ==
  SelectInSubSeq(s, from, Len(s), LAMBDA t : t = token)

Substr(s, from, next) == SubSeq(s, from, IF next = 0 THEN Len(s) ELSE next - 1)

(* std::stoi reads the digits in front and ignores what follows them. *)
Stoi(s) ==
  LET digits == SelectInSeq(s \o <<"end">>, LAMBDA t : ~Contains(Digits, t)) - 1
      Append10(n, t) == 10 * n + Find[Digits, t, 1] - 1
  IN  IF digits = 0 THEN {} ELSE {FoldLeft(Append10, 0, SubSeq(s, 1, digits))}

ParseNegx(s) ==
  LET neg == Find[s, "neg", 1]
  IN  IF neg = 0 THEN Stoi(s) ELSE {-n : n \in Stoi(Substr(s, neg + 1, 0))}

(* Mutant: what is not "true" is false. *)
ParseBoolLeniently(s) == {s = <<"true">>}

ParseBool(s) == {b \in BOOLEAN : s = <<IF b THEN "true" ELSE "false">>}

ParseIndices[f \in Seq(Seq(STRING))] ==
  [laufbahngruppe : Stoi(f[1]),
   laufbahn       : Stoi(f[2]),
   dienstgrad     : ParseNegx(f[3]),
   zeitscheibe    : ParseNegx(f[4]),
   status         : Stoi(f[5]),
   ausbildung     : ParseBool(f[6]),
   netzwerk       : Stoi(f[7])]

(* The seven indices of the node that starts at first; the last of them    *)
(* ends at the token last, which is looked for from there on.              *)
Indices(s, first, last) ==
  LET next[k \in 0..7] ==
        IF k = 0 THEN first - 1 ELSE Find[s, IF k = 7 THEN last ELSE "|", next[k - 1] + 1]
  IN  [k \in 1..7 |-> Substr(s, next[k - 1] + 1, next[k])]

IsLpVar(s) == Find[s, "y(", 1] # 0

(* The "," is looked for in the whole name, the part before "y(" included. *)
ParseLpVar(s) ==
  IF ~IsLpVar(s) \/ Find[s, ",", 1] = 0
  THEN {}
  ELSE [source : ParseIndices[Indices(s, Find[s, "y(", 1] + 1, ",")],
        target : ParseIndices[Indices(s, Find[s, ",", 1] + 1, ")")]]

(* The components of two arcs that differ, in the order of the name. *)
NodeFields == <<"laufbahngruppe", "laufbahn", "dienstgrad", "zeitscheibe", "status", "ausbildung", "netzwerk">>

Differences(a, b) ==
  {i \in 1..7 : a.source[NodeFields[i]] # b.source[NodeFields[i]]} \cup
  {i + 7 : i \in {j \in 1..7 : a.target[NodeFields[j]] # b.target[NodeFields[j]]}}
================================================================================
