----------------------------- MODULE QueryEngine -----------------------------
(***************************************************************************)
(* query/service.go, which computes what travels a route: text_search and  *)
(* csv_query over the assets of a path, in the order of its scope.  Both   *)
(* are loops that stop at limits shared by all files; a client that was    *)
(* told that a file has more asks for the rows that follow.                *)
(*                                                                         *)
(* A text is a sequence of runes.  Assets that do not parse as what their  *)
(* format says are not ready (assets/files.go), so that the errors of the  *)
(* CSV reader cannot occur here; JSON and base64 are left out, and so is   *)
(* raw_read, which only copies.                                            *)
(***************************************************************************)
EXTENDS Integers, SequencesExt

CONSTANTS
  Folded,            (* what each rune is equal to without regard to case  *)
  NumberOf,          (* the texts that are finite decimals, with the number*)
  Files,             (* the assets that a scope may hold                   *)
  MaxScope,          (* the largest number of them                         *)
  Queries,           (* what may be asked of them                          *)
  DefaultCSVRows, MaxCSVRows, MaxCSVOffset, MaxTextMatches, MaxTextContextRunes

VARIABLES
  assets,            (* the loaded assets, in the order of the scope       *)
  request,           (* the query                                          *)
  offset,            (* the offset of the client's next request            *)
  pages,             (* what the client was answered, in order             *)
  phase              (* "asking", "finished" or "refused"                  *)

vars == <<assets, request, offset, pages, phase>>

Runes     == DOMAIN Folded
Text      == Seq(Runes)
Blank     == <<>>
Operators == {"=", "!=", "contains", ">", "<", ">=", "<="}

File   == [format: {"text", "markdown", "csv", "binary"}, state: {"ready", "parse_failed"},
           utf8: BOOLEAN, lines: Seq(Text), header: Seq(Text), rows: Seq(Seq(Text))]
Filter == [column: Text, operator: Operators \cup {"unknown"}, value: Text]
Query  == [operation: {"text_search"}, query: Text]
            \cup [operation: {"csv_query"}, select: Seq(Text), filters: Seq(Filter), limit: Int]

ASSUME InputsAreTyped ==
  /\ \A r \in Runes : Folded[r] \in Runes
  /\ DOMAIN NumberOf \subseteq Text \ {Blank}
  /\ \A t \in DOMAIN NumberOf : NumberOf[t] \in Int
  /\ \A f \in Files :
       /\ f \in File
       /\ \A i \in DOMAIN f.rows : Len(f.rows[i]) = Len(f.header)
  /\ \A q \in Queries : q \in Query

ASSUME LimitsArePositive ==
  /\ DefaultCSVRows \in Nat \ {0} /\ MaxCSVRows \in Nat \ {0} /\ MaxCSVOffset \in Nat
  /\ MaxTextMatches \in Nat \ {0} /\ MaxTextContextRunes \in Nat \ {0}
  /\ MaxScope \in Nat

Repeats(list) == \E i, j \in DOMAIN list : i # j /\ list[i] = list[j]

-----------------------------------------------------------------------------
(* findFoldRunes: where the needle begins in the haystack, without regard   *)
(* to case; 0 where it does not.                                            *)
FindFold(haystack, needle) ==
  LET EqualAt(i) == \A k \in DOMAIN needle : Folded[haystack[i + k - 1]] = Folded[needle[k]]
      found == {i \in 1..(Len(haystack) - Len(needle) + 1) : EqualAt(i)}
  IN  IF needle = Blank \/ found = {} THEN 0
      ELSE CHOOSE i \in found : \A j \in found : i <= j

(* Seeded fault: the context starts half its length before the match.       *)
ContextAround(length, start, end, max) ==
  IF length <= max THEN [start |-> 0, end |-> length]
  ELSE LET before  == start - max \div 2
           clamped == IF before < 0 THEN 0 ELSE IF before + max > length THEN length - max ELSE before
       IN  [start |-> clamped, end |-> clamped + max]

(* boundedContext: the part of a line of this length that is shown with the *)
(* match from start to end, both from zero and the end exclusive.           *)
BoundedContext(length, start, end, max) ==
  IF length <= max THEN [start |-> 0, end |-> length]
  ELSE IF end - start >= max THEN [start |-> start, end |-> start + max]
  ELSE LET centred == start - (max - (end - start)) \div 2
           clamped == IF centred < 0 THEN 0
                      ELSE IF centred + max > length THEN length - max
                      ELSE centred
       IN  [start |-> clamped, end |-> clamped + max]

Searchable(a) == a.state = "ready" /\ a.format \in {"text", "markdown"} /\ a.utf8

Match(scope, a, line, needle) ==
  LET text  == scope[a].lines[line]
      start == FindFold(text, needle) - 1
  IN  [asset |-> a, line |-> line,
       context |-> BoundedContext(Len(text), start, start + Len(needle), MaxTextContextRunes)]

Full(found) == Len(found.matches) >= MaxTextMatches

(* One line of one asset, once the search has stopped and before.           *)
SearchLine(scope, found, a, line, needle) ==
  IF found.truncated \/ FindFold(scope[a].lines[line], needle) = 0 THEN found
  ELSE IF Full(found) THEN [found EXCEPT !.truncated = TRUE]
  ELSE [found EXCEPT !.matches = Append(@, Match(scope, a, line, needle))]

SearchAsset(scope, found, a, needle) ==
  IF ~Searchable(scope[a]) THEN [found EXCEPT !.skipped = Append(@, a)]
  ELSE FoldLeftDomain(LAMBDA so_far, line : SearchLine(scope, so_far, a, line, needle),
                      found, scope[a].lines)

(* textSearch.                                                              *)
TextSearch(scope, needle) ==
  FoldLeftDomain(LAMBDA found, a : SearchAsset(scope, found, a, needle),
                 [matches |-> <<>>, truncated |-> FALSE, skipped |-> <<>>], scope)

-----------------------------------------------------------------------------
Column(f, name) == CHOOSE c \in DOMAIN f.header : f.header[c] = name

(* The type inference of queryCSVAsset: some cell, and every cell that is   *)
(* not blank is a number.                                                   *)
NumericColumn(f, c) ==
  LET cells == {f.rows[i][c] : i \in DOMAIN f.rows} \ {Blank}
  IN  cells # {} /\ cells \subseteq DOMAIN NumberOf

(* strings.Compare.                                                         *)
CompareTexts(s, t) ==
  IF s = t THEN 0
  ELSE LET differ == {i \in DOMAIN s \cap DOMAIN t : s[i] # t[i]}
       IN  IF differ = {} THEN IF Len(s) < Len(t) THEN -1 ELSE 1
           ELSE LET i == CHOOSE i \in differ : \A j \in differ : i <= j
                IN  IF s[i] < t[i] THEN -1 ELSE 1

CompareNumbers(m, n) == IF m < n THEN -1 ELSE IF m > n THEN 1 ELSE 0

(* filterMatches compares numbers only where both sides are.                *)
Compare(cell, value, numeric) ==
  IF numeric /\ {cell, value} \subseteq DOMAIN NumberOf
    THEN CompareNumbers(NumberOf[cell], NumberOf[value])
    ELSE CompareTexts(cell, value)

(* Seeded fault: equality is of texts, whatever the column.                 *)
MatchesTextually(cell, operator, value, numeric) ==
  LET order == Compare(cell, value, numeric) IN
  \/ operator = "contains" /\ (value = Blank \/ FindFold(cell, value) # 0)
  \/ operator = "=" /\ cell = value
  \/ operator = "!=" /\ cell # value
  \/ operator = ">" /\ order > 0
  \/ operator = "<" /\ order < 0
  \/ operator = ">=" /\ order >= 0
  \/ operator = "<=" /\ order <= 0

FilterMatches(cell, operator, value, numeric) ==
  LET order == Compare(cell, value, numeric) IN
  \/ operator = "contains" /\ (value = Blank \/ FindFold(cell, value) # 0)
  \/ operator = "=" /\ order = 0
  \/ operator = "!=" /\ order # 0
  \/ operator = ">" /\ order > 0
  \/ operator = "<" /\ order < 0
  \/ operator = ">=" /\ order >= 0
  \/ operator = "<=" /\ order <= 0

RowMatches(f, row, filters) ==
  \A i \in DOMAIN filters :
    LET c == Column(f, filters[i].column)
    IN  FilterMatches(row[c], filters[i].operator, filters[i].value, NumericColumn(f, c))

(* What a file's header makes of the request.                               *)
Acceptable(f, q) ==
  /\ ~Repeats(f.header) /\ Blank \notin ToSet(f.header)
  /\ ToSet(q.select) \subseteq ToSet(f.header) /\ ~Repeats(q.select)
  /\ \A i \in DOMAIN q.filters :
       q.filters[i].column \in ToSet(f.header) /\ q.filters[i].operator \in Operators

Selected(f, q) == IF q.select = <<>> THEN f.header ELSE q.select

Project(f, row, q) ==
  [i \in DOMAIN Selected(f, q) |-> row[Column(f, Selected(f, q)[i])]]

OnPage(found, from, limit) == found.matched >= from /\ Len(found.rows) < limit

(* Seeded fault: a full page is taken for one with more to come.            *)
FullPage(found, from, limit) == Len(found.rows) = limit

HasMore(found, from, limit) == from + Len(found.rows) < found.matched

QueryRow(f, q, from, limit, found, row) ==
  IF ~RowMatches(f, row, q.filters) THEN found
  ELSE [matched |-> found.matched + 1,
        rows |-> IF OnPage(found, from, limit)
                   THEN Append(found.rows, Project(f, row, q)) ELSE found.rows]

(* queryCSVAsset's second pass.                                             *)
QueryFile(f, q, from, limit) ==
  LET found == FoldLeft(LAMBDA so_far, row : QueryRow(f, q, from, limit, so_far, row),
                        [matched |-> 0, rows |-> <<>>], f.rows)
  IN  [rows |-> found.rows, matched |-> found.matched, more |-> HasMore(found, from, limit)]

QueryableCSV(a) == a.format = "csv" /\ a.state = "ready"

Limit(q) ==
  LET limit == IF q.limit = 0 THEN DefaultCSVRows ELSE q.limit
  IN  IF limit > MaxCSVRows THEN MaxCSVRows ELSE limit

(* Each file gets what the ones before it left of the limit.                *)
QueryAsset(scope, q, from, result, a) ==
  IF ~QueryableCSV(scope[a]) THEN [result EXCEPT !.skipped = Append(@, a)]
  ELSE LET answer == QueryFile(scope[a], q, from, result.remaining)
       IN  [result EXCEPT !.files = Append(@, [asset |-> a, answer |-> answer]),
                          !.remaining = @ - Len(answer.rows)]

(* csvQuery.                                                                *)
CSVQuery(scope, q, from) ==
  FoldLeftDomain(LAMBDA result, a : QueryAsset(scope, q, from, result, a),
                 [files |-> <<>>, remaining |-> Limit(q), skipped |-> <<>>], scope)

(* Seeded fault: a limit may be negative.                                   *)
OutOfOffset(q, from) == from > MaxCSVOffset

OutOfBounds(q, from) == from > MaxCSVOffset \/ q.limit < 0

(* The errors of Execute and of the two operations.                         *)
Refused(q, from) ==
  \/ assets = <<>>
  \/ /\ q.operation = "text_search"
     /\ q.query = Blank \/ ~\E a \in DOMAIN assets : Searchable(assets[a])
  \/ /\ q.operation = "csv_query"
     /\ \/ OutOfBounds(q, from)
        \/ ~\E a \in DOMAIN assets : QueryableCSV(assets[a])
        \/ \E a \in DOMAIN assets : QueryableCSV(assets[a]) /\ ~Acceptable(assets[a], q)

-----------------------------------------------------------------------------
Init ==
  /\ assets \in UNION {[1..n -> Files] : n \in 0..MaxScope}
  /\ request \in Queries
  /\ offset = 0
  /\ pages = <<>>
  /\ phase = "asking"

Refuse ==
  /\ phase = "asking" /\ Refused(request, offset)
  /\ phase' = "refused"
  /\ UNCHANGED <<assets, request, offset, pages>>

Search ==
  /\ phase = "asking" /\ request.operation = "text_search" /\ ~Refused(request, offset)
  /\ pages' = <<TextSearch(assets, request.query)>>
  /\ phase' = "finished"
  /\ UNCHANGED <<assets, request, offset>>

(* Each page is a request of its own, whose offset is the client's to keep: *)
(* it asks for the next one while a file has more.                          *)
NextPage ==
  /\ phase = "asking" /\ request.operation = "csv_query" /\ ~Refused(request, offset)
  /\ LET page == CSVQuery(assets, request, offset) IN
     /\ pages' = Append(pages, page)
     /\ phase' = IF \E i \in DOMAIN page.files : page.files[i].answer.more
                   THEN "asking" ELSE "finished"
  /\ offset' = offset + Limit(request)
  /\ UNCHANGED <<assets, request>>

Next == Refuse \/ Search \/ NextPage

Spec == Init /\ [][Next]_vars

-----------------------------------------------------------------------------
TypeOK ==
  /\ assets \in Seq(Files)
  /\ request \in Queries
  /\ offset \in Nat
  /\ phase \in {"asking", "finished", "refused"}
  /\ phase = "refused" /\ pages # <<>> => offset > MaxCSVOffset

Answers == phase # "refused" /\ pages # <<>>

(* The lines of the scope that have the text, and their order.              *)
Hits(scope, needle) ==
  {h \in UNION {{a} \X DOMAIN scope[a].lines : a \in DOMAIN scope} :
     Searchable(scope[h[1]]) /\ FindFold(scope[h[1]].lines[h[2]], needle) # 0}

Before(h, k) == h[1] < k[1] \/ (h[1] = k[1] /\ h[2] < k[2])

Place(match) == <<match.asset, match.line>>

(* However the limit falls on files and lines, a search returns the first   *)
(* hits of the scope, in order, and says that it is truncated exactly when  *)
(* it left one out.                                                         *)
TruncationIsTold ==
  Answers /\ request.operation = "text_search" =>
    LET hits    == Hits(assets, request.query)
        matches == pages[1].matches
        left    == hits \ {Place(matches[i]) : i \in DOMAIN matches}
    IN  /\ Len(matches) <= MaxTextMatches
        /\ \A i \in DOMAIN matches :
             /\ Place(matches[i]) \in hits
             /\ \A h \in left : Before(Place(matches[i]), h)
             /\ \A j \in DOMAIN matches : i < j => Before(Place(matches[i]), Place(matches[j]))
        /\ pages[1].truncated <=> left # {}
        /\ pages[1].truncated => Len(matches) = MaxTextMatches

(* The context of a match is a part of its line, no longer than the limit,  *)
(* and the match is in it, as far as it fits.                               *)
ContextsHoldMatches ==
  Answers /\ request.operation = "text_search" =>
    \A i \in DOMAIN pages[1].matches :
      LET m     == pages[1].matches[i]
          line  == assets[m.asset].lines[m.line]
          shown == SubSeq(line, m.context.start + 1, m.context.end)
      IN  /\ 0 <= m.context.start /\ m.context.end <= Len(line)
          /\ Len(shown) <= MaxTextContextRunes
          /\ \/ FindFold(shown, request.query) # 0
             \/ /\ Len(request.query) > MaxTextContextRunes
                /\ FindFold(request.query, shown) = 1

(* A search says what it found, where, and that it left something out.      *)
SearchesAreExact == TruncationIsTold /\ ContextsHoldMatches

(* The rows of a file that the filters select, as the client would read     *)
(* them if there were no limits.                                            *)
AllRows(f, q) ==
  LET first[n \in 0..Len(f.rows)] ==
        IF n = 0 THEN <<>>
        ELSE IF RowMatches(f, f.rows[n], q.filters)
               THEN Append(first[n - 1], Project(f, f.rows[n], q))
               ELSE first[n - 1]
  IN  first[Len(f.rows)]

(* Whatever other files the page shares its limit with, a file's part of it *)
(* continues the file's rows where the offset says, counts them all, and    *)
(* says that it has more exactly when a row after it was left out.          *)
PagesContinue ==
  Answers /\ request.operation = "csv_query" =>
    \A p \in DOMAIN pages : \A i \in DOMAIN pages[p].files :
      LET part == pages[p].files[i]
          all  == AllRows(assets[part.asset], request)
          from == (p - 1) * Limit(request)
      IN  /\ part.answer.rows = SubSeq(all, from + 1, from + Len(part.answer.rows))
          /\ part.answer.matched = Len(all)
          /\ part.answer.more <=> from + Len(part.answer.rows) < Len(all)

Shown(i) == FlattenSeq([p \in DOMAIN pages |-> pages[p].files[i].answer.rows])

(* A client that follows has_more to its end has read every row of a file   *)
(* once, in order, if no file was queried before it; one that was can use   *)
(* up the limit of a page, and the rows in its place are never shown.       *)
FirstFileIsReadOut ==
  phase = "finished" /\ request.operation = "csv_query" =>
    LET all(i) == AllRows(assets[pages[1].files[i].asset], request) IN
    /\ Shown(1) = all(1)
    /\ \A i \in DOMAIN pages[1].files :
         Len(Shown(i)) < Len(all(i)) =>
           \E p \in DOMAIN pages : \E j \in 1..(i - 1) :
             pages[p].files[i].answer.more /\ pages[p].files[j].answer.rows # <<>>

(* What a client reads in pages is what the filters select: page by page,   *)
(* and, but for a file behind another that used up the limit, to the end.   *)
PagesReadOut == PagesContinue /\ FirstFileIsReadOut

(* In every column, numeric or not, a cell is less than a value, equal to   *)
(* it or greater, and != , >= and <= agree with that.                       *)
OrderIsTotal ==
  phase = "asking" =>
    \A a \in DOMAIN assets : \A c \in DOMAIN assets[a].header : \A i \in DOMAIN assets[a].rows :
      \A v \in DOMAIN NumberOf \cup {assets[a].rows[j][c] : j \in DOMAIN assets[a].rows} :
        LET Holds(operator) == FilterMatches(assets[a].rows[i][c], operator, v,
                                             NumericColumn(assets[a], c))
        IN  /\ Cardinality({o \in {"<", "=", ">"} : Holds(o)}) = 1
            /\ Holds("!=") <=> ~Holds("=")
            /\ Holds(">=") <=> Holds(">") \/ Holds("=")
            /\ Holds("<=") <=> Holds("<") \/ Holds("=")
=============================================================================
