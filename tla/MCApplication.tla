----------------------------- MODULE MCApplication -----------------------------
(* An LP with one variable, whose name may have one token wrong, and      *)
(* configurations that each leave something out.                          *)
EXTENDS Application, TLC

Number(n) ==
  IF n < 10 THEN <<Digits[n + 1]>> ELSE <<Digits[(n \div 10) + 1], Digits[(n % 10) + 1]>>

Negx(n) == IF n < 0 THEN <<"neg">> \o Number(-n) ELSE Number(n)

NameOfNode(n) ==
  Number(n.laufbahngruppe) \o <<"|">> \o Number(n.laufbahn) \o <<"|">> \o
  Negx(n.dienstgrad) \o <<"|">> \o Negx(n.zeitscheibe) \o <<"|">> \o
  Number(n.status) \o <<"|", IF n.ausbildung THEN "true" ELSE "false", "|">> \o Number(n.netzwerk)

NameOf(arc) == <<"y(">> \o NameOfNode(arc.source) \o <<",">> \o NameOfNode(arc.target) \o <<")">>

Node(g, l, d, z, s, a, n) ==
  [laufbahngruppe |-> g, laufbahn |-> l, dienstgrad |-> d, zeitscheibe |-> z,
   status |-> s, ausbildung |-> a, netzwerk |-> n]

MCArc == [source |-> Node(5, 1, -2, 41, 3, TRUE, 37), target |-> Node(4, 6, 16, -8, 2, FALSE, 9)]

OtherArc == [source |-> Node(0, 0, 12, 40, 0, FALSE, 3), target |-> Node(5, 1, 16, -1, 7, TRUE, 37)]

MCTokens == {"y(", "|", ",", ")", "neg", "true", "false", "1", "x"}

Edits(s) ==
  {RemoveAt(s, i) : i \in DOMAIN s}
    \cup {ReplaceAt(s, i, t) : i \in DOMAIN s, t \in MCTokens}
    \cup {InsertAt(s, i, t) : i \in 1..(Len(s) + 1), t \in MCTokens}

Problem(name, arc) == [name |-> name, arc |-> arc, exact |-> name = NameOf(arc)]

FullConfig ==
  [keys |-> Keys, lp |-> "a.lp", graphs |-> "g", threadcount |-> 1, pricing_strategy |-> 0,
   report_results_csv |-> TRUE]

(* The configuration of the repository, and each of the ways to change it. *)
Configs ==
  {FullConfig,
   [FullConfig EXCEPT !.lp = ""],
   [FullConfig EXCEPT !.threadcount = 0],
   [FullConfig EXCEPT !.threadcount = -1, !.pricing_strategy = 2],
   [FullConfig EXCEPT !.pricing_strategy = -1, !.report_results_csv = FALSE]}
    \cup {[FullConfig EXCEPT !.keys = Keys \ {k}] : k \in Keys}

Argvs == {<< >>, <<"a.lp", "g">>, <<"-v">>, <<"-v", "9">>, <<"-v", "x">>, <<"-v", "-v">>}

Run(c, a, h, p, g) ==
  [config |-> c, argv |-> a, hardware |-> h, problem |-> p, graphs |-> g]

MCRuns ==
  {Run(c, a, h, Problem(NameOf(MCArc), MCArc), g) :
     c \in Configs, a \in Argvs, h \in {0, 2}, g \in {"sound", "throws", "aborts", "missing"}}
    \cup {Run(FullConfig, << >>, 2, Problem(n, MCArc), "sound") : n \in Edits(NameOf(MCArc))}
    \cup {Run(FullConfig, << >>, 2, Problem(n, OtherArc), "sound") :
            n \in {NameOf(OtherArc)} \cup Edits(NameOf(OtherArc))}

Var(name, arcs, val) ==
  [name |-> name, path |-> [arcs |-> arcs, network_group |-> 1], val |-> val]

LpVar == Var("x", << >>, 3)

(* Two columns that share an arc, one at zero; two with one name; no flow. *)
MCSolutions ==
  {[feasible |-> TRUE, vars |-> <<LpVar, Var("p1", <<"a", "b">>, v), Var("p2", <<"a", "c", "d">>, w)>>] :
     v \in {0, 1}, w \in {0, 2}}
    \cup {[feasible |-> TRUE, vars |-> <<Var("p1", <<"a", "b">>, 1), Var("p1", <<"c", "d">>, 2)>>],
          [feasible |-> TRUE, vars |-> <<LpVar>>],
          [feasible |-> FALSE, vars |-> <<LpVar, Var("p1", <<"a", "b">>, 0)>>]}

(* test_parse_lp.cpp:12-32 and :34-54. *)
UmP(z) == <<"UmP", "|", "TrD", "|", "1", "6", "|", "4", z, "|", "3", "|", "false", "|", "3", "7">>

Tested(name, arc) == [Problem(name, arc) EXCEPT !.exact = TRUE]

TestedRuns ==
  {Run(FullConfig, << >>, 2, p, "sound") : p \in
     {Tested(<<"y(">> \o UmP("0") \o <<",">> \o UmP("1") \o <<")">>,
             [source |-> Node(5, 1, 16, 40, 3, FALSE, 37), target |-> Node(5, 1, 16, 41, 3, FALSE, 37)]),
      Tested(<<"y(", "Unbek", "|", "Unbek", "|", "neg", "2", "|", "neg", "1", "|", "3", "|", "false",
               "|", "3", "7", ",">> \o UmP("1") \o <<")">>,
             [source |-> Node(0, 0, -2, -1, 3, FALSE, 37), target |-> Node(5, 1, 16, 41, 3, FALSE, 37)])}}
================================================================================
