--------------------------- MODULE MCQueryEngine ---------------------------
(* An instance of QueryEngine.  The runes are 1 to 3, which fold to         *)
(* themselves, and 4, which folds to 3; as texts, <<1, 2>> (10, say) comes  *)
(* before <<2>> (9) and <<2, 1>> (9.0), as numbers after.                   *)
EXTENDS QueryEngine

Fold    == [r \in 1..4 |-> IF r = 4 THEN 3 ELSE r]
Numbers == (<<1, 2>> :> 10) @@ (<<2>> :> 9) @@ (<<2, 1>> :> 9)

TextFile(lines) ==
  [format |-> "text", state |-> "ready", utf8 |-> TRUE, lines |-> lines,
   header |-> <<>>, rows |-> <<>>]
CSVFile(header, rows) ==
  [format |-> "csv", state |-> "ready", utf8 |-> TRUE, lines |-> <<>>,
   header |-> header, rows |-> rows]

UpTo(S, n) == UNION {[1..k -> S] : k \in 0..n}

Lines == {<<3>>, <<4, 1, 3>>, <<1, 1, 3, 4, 1>>, <<1, 1>>}
Texts == {TextFile(lines) : lines \in UpTo(Lines, 2)}

Cells   == {<<>>, <<2>>, <<2, 1>>, <<1, 2>>, <<4>>}
OneColumn == {CSVFile(<<<<1>>>>, rows) : rows \in UpTo({<<cell>> : cell \in Cells}, 2)}
Longer  == {CSVFile(<<<<1>>>>, <<<<<<2>>>>, <<<<2, 1>>>>, <<<<1, 2>>>>>>),
            CSVFile(<<<<1>>>>, <<<<<<4>>>>, <<<<2>>>>, <<<<4>>>>, <<<<2>>>>, <<<<2>>>>>>),
            CSVFile(<<<<1>>, <<3>>>>, <<<<<<2>>, <<3>>>>, <<<<1, 2>>, <<4>>>>, <<<<>>, <<4>>>>>>),
            CSVFile(<<<<1>>, <<1>>>>, <<>>), CSVFile(<<<<1>>, <<>>>>, <<>>)}
Others  == {[TextFile(<<<<3>>>>) EXCEPT !.format = "binary"],
            [TextFile(<<<<3>>>>) EXCEPT !.utf8 = FALSE],
            [CSVFile(<<<<1>>>>, <<>>) EXCEPT !.state = "parse_failed"]}

SmallFiles == Texts \cup OneColumn \cup Longer \cup Others

FilterBy(operator, value) == [column |-> <<1>>, operator |-> operator, value |-> value]
CSV(select, filters, limit) ==
  [operation |-> "csv_query", select |-> select, filters |-> filters, limit |-> limit]

SmallQueries ==
  {[operation |-> "text_search", query |-> text] : text \in {<<>>, <<3>>, <<1, 3, 3>>}}
    \cup {CSV(<<>>, <<>>, limit) : limit \in {-1, 0, 1, 4}}
    \cup {CSV(<<>>, <<FilterBy(operator, <<2, 1>>)>>, 1) : operator \in {"=", "<", "unknown"}}
    \cup {CSV(<<<<3>>>>, <<FilterBy("contains", <<2>>)>>, 1),
          CSV(<<<<1>>>>, <<FilterBy(">=", <<2>>), FilterBy("!=", <<4>>)>>, 2)}
=============================================================================
