--------------------------- MODULE QueryEngineProofs ---------------------------
(* Theorems about QueryEngine, for every alphabet, every scope of files,    *)
(* every query and all positive limits.                                     *)
EXTENDS QueryEngine, FiniteSetTheorems, SequenceTheorems, WellFoundedInduction, TLAPS

-----------------------------------------------------------------------------
(* Every set of natural numbers has a least member: what findFoldRunes and  *)
(* strings.Compare stop at is well defined.                                 *)
LEMMA Least ==
  ASSUME NEW S, S \subseteq Nat, S # {}
  PROVE  \E i \in S : \A j \in S : i <= j
<1> DEFINE R == OpToRel(<, Nat)
<1>1. IsWellFoundedOn(R, Nat)
  BY NatLessThanWellFounded
<1>2. \A i, j \in Nat : ~(<<j, i>> \in R) => i <= j
  BY DEF OpToRel
<1> HIDE DEF R
<1>3. \E i \in S : \A j \in S : ~(<<j, i>> \in R)
  BY <1>1, WFMin
<1> QED
  BY <1>2, <1>3

(* A set of natural numbers with 0 and, for each of its members, the next.  *)
LEMMA Induction ==
  ASSUME NEW S, 0 \in S, \A n \in Nat : n \in S => n + 1 \in S
  PROVE  Nat \subseteq S
<1> DEFINE rest == Nat \ S
<1> SUFFICES ASSUME rest # {} PROVE FALSE
  OBVIOUS
<1>1. PICK i \in rest : \A j \in rest : i <= j
  BY Least
<1>2. i \in Nat /\ i # 0
  OBVIOUS
<1>3. i - 1 \in Nat /\ (i - 1) + 1 = i /\ ~(i <= i - 1)
  BY <1>2
<1>4. i - 1 \in S
  BY <1>1, <1>3
<1> QED
  BY <1>3, <1>4

(* The greatest member of a set of positions.                               *)
LEMMA Greatest ==
  ASSUME NEW n \in Nat, NEW S, S \subseteq 1..n, S # {}
  PROVE  Max(S) \in S /\ \A i \in S : i <= Max(S)
<1> DEFINE below == {n - i : i \in S}
<1>1. below \subseteq Nat
  OBVIOUS
<1>6. below # {}
  OBVIOUS
<1>2. PICK d \in below : \A e \in below : d <= e
  BY <1>1, <1>6, Least
<1>3. PICK i \in S : d = n - i
  BY <1>2
<1>4. \A j \in S : i >= j
  BY <1>2, <1>3
<1>5. Max(S) \in S /\ \A j \in S : Max(S) >= j
  BY <1>4 DEF Max
<1> QED
  BY <1>5

(* A fold comes to its positions in order.                                  *)
LEMMA LastOf ==
  ASSUME NEW n \in Nat, NEW i \in 1..n
  PROVE  /\ 1..i \in SUBSET (1..n) /\ 1..i # {}
         /\ Max(1..i) = i /\ (1..i) \ {i} = 1..(i - 1)
<1>1. i \in Nat /\ 1..i \in SUBSET (1..n) /\ 1..i # {} /\ (1..i) \ {i} = 1..(i - 1)
  OBVIOUS
<1>2. Max(1..i) \in 1..i /\ \A j \in 1..i : j <= Max(1..i)
  BY <1>1, Greatest
<1>3. i \in 1..i
  OBVIOUS
<1>4. i <= Max(1..i)
  BY <1>2, <1>3
<1> QED
  BY <1>1, <1>2, <1>4

(* The function that a fold over n positions is defined by.                 *)
IsFold(h, n, X, base, step) ==
  /\ h \in [SUBSET (1..n) -> X]
  /\ \A s \in SUBSET (1..n) :
       h[s] = IF s = {} THEN base ELSE step[Max(s)][h[s \ {Max(s)}]]

(* There is such a function, so that a fold is what its CHOOSE says.        *)
LEMMA FoldExists ==
  ASSUME NEW n \in Nat, NEW X, NEW base \in X, NEW step \in [1..n -> [X -> X]]
  PROVE  \E h : IsFold(h, n, X, base, step)
<1> DEFINE Folds(h, m) == \A s \in SUBSET (1..m) :
             h[s] = IF s = {} THEN base ELSE step[Max(s)][h[s \ {Max(s)}]]
           Done(m) == \E h \in [SUBSET (1..m) -> X] : Folds(h, m)
           done == {m \in Nat : m <= n => Done(m)}
<1>1. Done(0)
  <2> DEFINE h == [s \in SUBSET (1..0) |-> base]
  <2>1. 1..0 = {}
    OBVIOUS
  <2>2. h \in [SUBSET (1..0) -> X] /\ Folds(h, 0)
    BY <2>1
  <2> QED
    BY <2>2
<1>2. ASSUME NEW m \in Nat, Done(m), m + 1 <= n
      PROVE  Done(m + 1)
  <2>1. PICK g \in [SUBSET (1..m) -> X] : Folds(g, m)
    BY <1>2
  <2> DEFINE last == m + 1
             h == [s \in SUBSET (1..last) |->
                     IF last \in s THEN step[last][g[s \ {last}]] ELSE g[s]]
  <2>2. \A s \in SUBSET (1..last) : s \ {last} \in SUBSET (1..m)
    OBVIOUS
  <2>3. \A s \in SUBSET (1..last) : last \notin s => s \in SUBSET (1..m)
    OBVIOUS
  <2>4. step[last] \in [X -> X]
    BY <1>2
  <2>5. h \in [SUBSET (1..last) -> X]
    BY <2>1, <2>2, <2>3, <2>4
  <2>6. \A s \in SUBSET (1..m) : s \in SUBSET (1..last) /\ h[s] = g[s]
    OBVIOUS
  <2>7. ASSUME NEW s \in SUBSET (1..last), s # {}, last \in s
        PROVE  h[s] = step[Max(s)][h[s \ {Max(s)}]]
    <3>1. Max(s) = last
      <4> HIDE DEF h
      <4>1. s \subseteq 1..(m + 1) /\ m + 1 \in Nat
        OBVIOUS
      <4>2. Max(s) \in s /\ \A i \in s : i <= Max(s)
        BY <2>7, <4>1, Greatest
      <4>3. Max(s) \in 1..last /\ last <= Max(s)
        BY <2>7, <4>2
      <4> QED
        BY <4>3
    <3>2. h[s] = step[last][g[s \ {last}]]
      BY <2>7
    <3>3. g[s \ {last}] = h[s \ {last}]
      BY <2>2, <2>6
    <3> QED
      BY <3>1, <3>2, <3>3
  <2>8. ASSUME NEW s \in SUBSET (1..last), s # {}, last \notin s
        PROVE  h[s] = step[Max(s)][h[s \ {Max(s)}]]
    <3>1. s \in SUBSET (1..m) /\ s \ {Max(s)} \in SUBSET (1..m)
      BY <2>3, <2>8
    <3>2. h[s] = g[s] /\ h[s \ {Max(s)}] = g[s \ {Max(s)}]
      BY <2>6, <3>1
    <3>3. g[s] = step[Max(s)][g[s \ {Max(s)}]]
      BY <2>1, <2>8, <3>1
    <3> QED
      BY <3>2, <3>3
  <2>9. h[{}] = base
    BY <2>1, <2>6
  <2>10. Folds(h, last)
    BY <2>7, <2>8, <2>9
  <2> HIDE DEF h, Folds
  <2> QED
    BY <2>5, <2>10
<1> HIDE DEF Done
<1>3. \A m \in Nat : m \in done => m + 1 \in done
  BY <1>2
<1>4. 0 \in done
  BY <1>1
<1> HIDE DEF done
<1>5. Nat \subseteq done
  BY <1>3, <1>4, Induction
<1>6. Done(n)
  BY <1>5 DEF done
<1> QED
  BY <1>6 DEF Done, IsFold

(* findFoldRunes finds the first occurrence of the needle, or none if there *)
(* is none.                                                                 *)
THEOREM FindsTheFirst ==
  ASSUME NEW haystack \in Text, NEW needle \in Text
  PROVE  LET i == FindFold(haystack, needle)
             EqualAt(j) == \A k \in DOMAIN needle :
                             Folded[haystack[j + k - 1]] = Folded[needle[k]]
         IN
         /\ i \in Nat
         /\ i # 0 => /\ needle # Blank /\ i + Len(needle) - 1 <= Len(haystack) /\ EqualAt(i)
                     /\ \A j \in 1..(i - 1) : ~EqualAt(j)
         /\ i = 0 /\ needle # Blank =>
              \A j \in 1..(Len(haystack) - Len(needle) + 1) : ~EqualAt(j)
<1> DEFINE EqualAt(j) == \A k \in DOMAIN needle :
                           Folded[haystack[j + k - 1]] = Folded[needle[k]]
           last == Len(haystack) - Len(needle) + 1
           found == {i \in 1..last : EqualAt(i)}
<1>1. Len(haystack) \in Nat /\ Len(needle) \in Nat /\ last \in Int /\ found \subseteq Nat \ {0}
  BY DEF Text
<1>2. CASE needle = Blank \/ found = {}
  <2>1. FindFold(haystack, needle) = 0
    BY <1>2 DEF FindFold
  <2>2. needle # Blank => \A j \in 1..last : ~EqualAt(j)
    BY <1>2
  <2> HIDE DEF EqualAt
  <2> QED
    BY <2>1, <2>2 DEF EqualAt
<1>3. CASE needle # Blank /\ found # {}
  <2> DEFINE i == CHOOSE i \in found : \A j \in found : i <= j
  <2>1. FindFold(haystack, needle) = i
    BY <1>3 DEF FindFold
  <2>2. i \in found /\ \A j \in found : i <= j
    BY <1>1, <1>3, Least
  <2> HIDE DEF i
  <2>3. i \in 1..last /\ EqualAt(i)
    BY <2>2
  <2>4. \A j \in 1..(i - 1) : ~EqualAt(j)
    <3> SUFFICES ASSUME NEW j \in 1..(i - 1), EqualAt(j)
                 PROVE  FALSE
      OBVIOUS
    <3>1. j \in 1..last /\ ~(i <= j)
      BY <1>1, <2>3
    <3> QED
      BY <2>2, <3>1
  <2>5. i \in Nat /\ i # 0 /\ i + Len(needle) - 1 <= Len(haystack)
    BY <1>1, <2>3
  <2> HIDE DEF EqualAt
  <2> QED
    BY <1>3, <2>1, <2>3, <2>4, <2>5 DEF EqualAt
<1> QED
  BY <1>2, <1>3

(* boundedContext shows a part of the line that is no longer than the limit *)
(* and has the whole match in it, or begins with as much of it as fits.     *)
THEOREM ContextHoldsMatch ==
  ASSUME NEW length \in Nat, NEW start \in Nat, NEW end \in Nat, NEW max \in Nat \ {0},
         start < end, end <= length
  PROVE  LET shown == BoundedContext(length, start, end, max) IN
         /\ shown.start \in Nat /\ shown.end \in Nat
         /\ shown.start < shown.end /\ shown.end <= length
         /\ shown.end - shown.start <= max
         /\ IF end - start <= max THEN shown.start <= start /\ end <= shown.end
            ELSE shown.start = start /\ shown.end = start + max
<1> DEFINE shown == BoundedContext(length, start, end, max)
           half == (max - (end - start)) \div 2
           centred == start - half
           clamped == IF centred < 0 THEN 0
                      ELSE IF centred + max > length THEN length - max
                      ELSE centred
<1>1. CASE length <= max
  <2>1. shown = [start |-> 0, end |-> length]
    BY <1>1 DEF BoundedContext
  <2> HIDE DEF shown
  <2> QED
    BY <1>1, <2>1 DEF shown
<1>2. CASE length > max /\ end - start >= max
  <2>1. shown = [start |-> start, end |-> start + max]
    BY <1>2 DEF BoundedContext
  <2> HIDE DEF shown
  <2> QED
    BY <1>2, <2>1 DEF shown
<1>3. CASE length > max /\ end - start < max
  <2>1. shown = [start |-> clamped, end |-> clamped + max]
    BY <1>3 DEF BoundedContext
  <2>2. half \in Nat /\ half <= max - (end - start)
    <3>1. max - (end - start) \in Nat
      BY <1>3
    <3>2. \A n \in Nat : n \div 2 \in Nat /\ n \div 2 <= n
      OBVIOUS
    <3> QED
      BY <3>1, <3>2
  <2> HIDE DEF half
  <2>3. /\ clamped \in Nat /\ clamped + max <= length
        /\ clamped <= start /\ end <= clamped + max
    BY <1>3, <2>2
  <2> HIDE DEF clamped, shown
  <2> QED
    BY <1>3, <2>1, <2>3 DEF shown
<1> QED
  BY <1>1, <1>2, <1>3

-----------------------------------------------------------------------------
(* What a list of matches says of the places that have the text.            *)
FirstOf(hits, found) ==
  LET matches == found.matches
      left    == hits \ {Place(matches[i]) : i \in DOMAIN matches}
  IN  /\ Len(matches) <= MaxTextMatches
      /\ \A i \in DOMAIN matches :
           /\ Place(matches[i]) \in hits
           /\ \A h \in left : Before(Place(matches[i]), h)
           /\ \A j \in DOMAIN matches : i < j => Before(Place(matches[i]), Place(matches[j]))
      /\ found.truncated <=> left # {}
      /\ found.truncated => Len(matches) = MaxTextMatches

HitsTo(scope, needle, a, line) ==
  {h \in Hits(scope, needle) : h[1] < a \/ (h[1] = a /\ h[2] <= line)}

Matches(scope, needle) ==
  {Match(scope, a, line, needle) : a \in Nat, line \in Nat}

Found(scope, needle) ==
  [matches: Seq(Matches(scope, needle)), truncated: BOOLEAN, skipped: Seq(Nat)]

(* The next place that has the text goes behind the matches, or is what is  *)
(* left out.                                                                *)
LEMMA FirstOfExtends ==
  ASSUME NEW M, NEW hits, NEW found \in [matches: Seq(M), truncated: BOOLEAN, skipped: Seq(Nat)],
         FirstOf(hits, found), NEW match \in M,
         hits \subseteq Nat \X Nat, Place(match) \in Nat \X Nat,
         \A h \in hits : Before(h, Place(match))
  PROVE  FirstOf(hits \cup {Place(match)},
                 IF found.truncated THEN found
                 ELSE IF Full(found) THEN [found EXCEPT !.truncated = TRUE]
                 ELSE [found EXCEPT !.matches = Append(@, match)])
<1> DEFINE matches == found.matches
           n == Len(matches)
           new == Place(match)
           places == {Place(matches[i]) : i \in DOMAIN matches}
           left == hits \ places
<1>1. /\ matches \in Seq(M) /\ n \in Nat /\ DOMAIN matches = 1..n /\ found.truncated \in BOOLEAN
      /\ MaxTextMatches \in Nat \ {0}
  BY LimitsArePositive
<1>2. /\ n <= MaxTextMatches
      /\ found.truncated <=> left # {}
      /\ found.truncated => n = MaxTextMatches
      /\ \A i \in 1..n : Place(matches[i]) \in hits
      /\ \A i \in 1..n : \A h \in left : Before(Place(matches[i]), h)
      /\ \A i, j \in 1..n : i < j => Before(Place(matches[i]), Place(matches[j]))
  BY <1>1 DEF FirstOf
<1>3. new \notin hits
  BY DEF Before
<1>4. new \notin places /\ places \subseteq hits
  BY <1>1, <1>2, <1>3
<1>5. (hits \cup {new}) \ places = left \cup {new}
  BY <1>4
<1>6. \A i \in 1..n : Before(Place(matches[i]), new)
  BY <1>2
<1>7. CASE found.truncated
  <2> HIDE DEF new
  <2>1. FirstOf(hits \cup {new}, found)
    BY <1>1, <1>2, <1>5, <1>6, <1>7 DEF FirstOf
  <2> QED
    BY <1>7, <2>1 DEF new
<1>8. CASE ~found.truncated /\ Full(found)
  <2> DEFINE next == [found EXCEPT !.truncated = TRUE]
  <2>1. next.matches = matches /\ next.truncated = TRUE
    OBVIOUS
  <2>2. n = MaxTextMatches
    BY <1>1, <1>2, <1>8 DEF Full
  <2> HIDE DEF new, next
  <2>3. FirstOf(hits \cup {new}, next)
    BY <1>1, <1>2, <1>5, <1>6, <1>8, <2>1, <2>2 DEF FirstOf
  <2> QED
    BY <1>8, <2>3 DEF next, new
<1>9. CASE ~found.truncated /\ ~Full(found)
  <2> DEFINE next == [found EXCEPT !.matches = Append(@, match)]
             longer == Append(matches, match)
  <2>1. next.matches = longer /\ next.truncated = FALSE
    BY <1>9
  <2>2. /\ Len(longer) = n + 1 /\ DOMAIN longer = 1..(n + 1) /\ longer[n + 1] = match
        /\ \A i \in 1..n : longer[i] = matches[i]
    BY <1>1
  <2>3. n < MaxTextMatches
    BY <1>1, <1>9 DEF Full
  <2>4. left = {}
    BY <1>2, <1>9
  <2> HIDE DEF longer
  <2> DEFINE all == {Place(longer[i]) : i \in DOMAIN longer}
  <2>5. hits \cup {new} = all
    <3>1. hits = places
      BY <1>4, <2>4
    <3>2. ASSUME NEW h \in hits
          PROVE  h \in all
      <4>1. PICK i \in 1..n : h = Place(matches[i])
        BY <1>1, <3>1
      <4> HIDE DEF new
      <4>2. i \in 1..(n + 1) /\ longer[i] = matches[i]
        BY <1>1, <2>2
      <4> QED
        BY <2>2, <4>1, <4>2
    <3>3. new \in all
      <4>1. n + 1 \in DOMAIN longer /\ Place(longer[n + 1]) = new
        BY <1>1, <2>2
      <4> HIDE DEF new
      <4> QED
        BY <4>1
    <3>4. ASSUME NEW i \in 1..(n + 1)
          PROVE  Place(longer[i]) \in hits \cup {new}
      <4>1. CASE i = n + 1
        BY <2>2, <4>1
      <4>2. CASE i # n + 1
        <5>1. i \in 1..n
          BY <1>1, <4>2
        <5> QED
          BY <1>2, <2>2, <5>1
      <4> QED
        BY <4>1, <4>2
    <3> QED
      BY <2>2, <3>2, <3>3, <3>4
  <2>6. ASSUME NEW i \in 1..(n + 1), NEW j \in 1..(n + 1), i < j
        PROVE  Before(Place(longer[i]), Place(longer[j]))
    <3>1. i \in 1..n
      BY <1>1, <2>6
    <3>2. CASE j = n + 1
      BY <1>6, <2>2, <3>1, <3>2
    <3>3. CASE j # n + 1
      <4>1. j \in 1..n
        BY <1>1, <3>3
      <4> QED
        BY <1>2, <2>2, <2>6, <3>1, <4>1
    <3> QED
      BY <3>2, <3>3
  <2>7. \A i \in 1..(n + 1) : Place(longer[i]) \in hits \cup {new}
    BY <2>2, <2>5
  <2> HIDE DEF next, new
  <2>9. (hits \cup {new}) \ all = {}
    BY <2>5
  <2>8. FirstOf(hits \cup {new}, next)
    <3>1. all = {Place(next.matches[i]) : i \in DOMAIN next.matches}
      BY <2>1
    <3> HIDE DEF all
    <3>2. /\ Len(next.matches) = n + 1 /\ DOMAIN next.matches = 1..(n + 1)
          /\ n + 1 <= MaxTextMatches /\ ~next.truncated
      BY <1>1, <2>1, <2>2, <2>3
    <3>3. \A i \in 1..(n + 1) : Place(next.matches[i]) \in hits \cup {new}
      BY <2>1, <2>7
    <3>4. \A i, j \in 1..(n + 1) : i < j =>
            Before(Place(next.matches[i]), Place(next.matches[j]))
      BY <2>1, <2>6
    <3> QED
      BY <2>9, <3>1, <3>2, <3>3, <3>4 DEF FirstOf
  <2> QED
    BY <1>9, <2>8 DEF next, new
<1> QED
  BY <1>7, <1>8, <1>9

(* A hit is a line of an asset that is searched.                            *)
LEMMA HitsAreLines ==
  ASSUME NEW scope, NEW needle, NEW h
  PROVE  h \in Hits(scope, needle) <=>
           \E a \in DOMAIN scope : \E line \in DOMAIN scope[a].lines :
             /\ h = <<a, line>>
             /\ Searchable(scope[a]) /\ FindFold(scope[a].lines[line], needle) # 0
<1> DEFINE places == UNION {{a} \X DOMAIN scope[a].lines : a \in DOMAIN scope}
<1>1. h \in places <=>
        \E a \in DOMAIN scope : \E line \in DOMAIN scope[a].lines : h = <<a, line>>
  OBVIOUS
<1> HIDE DEF places
<1>2. h \in Hits(scope, needle) <=>
        /\ h \in places
        /\ Searchable(scope[h[1]]) /\ FindFold(scope[h[1]].lines[h[2]], needle) # 0
  BY DEF Hits, places
<1> QED
  BY <1>1, <1>2

(* A hit is the position of an asset and of one of its lines.               *)
LEMMA HitsTyped ==
  ASSUME NEW scope, NEW needle, NEW h \in Hits(scope, needle)
  PROVE  /\ h = <<h[1], h[2]>>
         /\ h[1] \in DOMAIN scope /\ h[2] \in DOMAIN scope[h[1]].lines
<1>1. PICK a \in DOMAIN scope : \E line \in DOMAIN scope[a].lines : h = <<a, line>>
  BY HitsAreLines
<1>2. PICK line \in DOMAIN scope[a].lines : h = <<a, line>>
  BY <1>1
<1> QED
  BY <1>2

(* The files of a scope, as far as a search reads them.                     *)
LEMMA ScopeTyped ==
  ASSUME NEW scope \in Seq(File), NEW a \in DOMAIN scope
  PROVE  /\ a \in Nat \ {0} /\ Len(scope) \in Nat /\ DOMAIN scope = 1..Len(scope)
         /\ scope[a] \in File /\ scope[a].lines \in Seq(Text)
         /\ Len(scope[a].lines) \in Nat /\ DOMAIN scope[a].lines = 1..Len(scope[a].lines)
<1>1. Len(scope) \in Nat /\ DOMAIN scope = 1..Len(scope) /\ scope[a] \in File
  OBVIOUS
<1>2. scope[a].lines \in Seq(Text)
  BY <1>1 DEF File
<1> QED
  BY <1>1, <1>2

(* One line: what was found stays the first of the places up to it.         *)
LEMMA LineKeepsFirst ==
  ASSUME NEW scope \in Seq(File), NEW needle, NEW a \in DOMAIN scope, Searchable(scope[a]),
         NEW line \in DOMAIN scope[a].lines, NEW found \in Found(scope, needle),
         FirstOf(HitsTo(scope, needle, a, line - 1), found)
  PROVE  /\ SearchLine(scope, found, a, line, needle) \in Found(scope, needle)
         /\ FirstOf(HitsTo(scope, needle, a, line), SearchLine(scope, found, a, line, needle))
         /\ SearchLine(scope, found, a, line, needle).skipped = found.skipped
<1> DEFINE before == HitsTo(scope, needle, a, line - 1)
           upto == HitsTo(scope, needle, a, line)
           match == Match(scope, a, line, needle)
           next == SearchLine(scope, found, a, line, needle)
<1>1. a \in Nat \ {0} /\ line \in Nat \ {0} /\ \A b \in DOMAIN scope :
        b \in Nat /\ \A l \in DOMAIN scope[b].lines : l \in Nat
  BY ScopeTyped
<1>2. /\ before \subseteq Nat \X Nat
      /\ \A h \in before : Before(h, <<a, line>>)
  <2> SUFFICES ASSUME NEW h \in before
               PROVE  h \in Nat \X Nat /\ Before(h, <<a, line>>)
    OBVIOUS
  <2>1. h \in Hits(scope, needle) /\ (h[1] < a \/ (h[1] = a /\ h[2] <= line - 1))
    BY DEF HitsTo
  <2>2. /\ h = <<h[1], h[2]>>
        /\ h[1] \in DOMAIN scope /\ h[2] \in DOMAIN scope[h[1]].lines
    BY <2>1, HitsTyped
  <2>3. h[1] \in Nat /\ h[2] \in Nat
    BY <1>1, <2>2
  <2> QED
    BY <1>1, <2>1, <2>2, <2>3 DEF Before
<1>3. Place(match) = <<a, line>> /\ match \in Matches(scope, needle)
  <2>1. match.asset = a /\ match.line = line
    BY DEF Match
  <2>2. match \in Matches(scope, needle)
    BY <1>1 DEF Matches
  <2> HIDE DEF match
  <2> QED
    BY <2>1, <2>2 DEF Place
<1>4. upto = before \cup {h \in {<<a, line>>} : FindFold(scope[a].lines[line], needle) # 0}
  <2>1. ASSUME NEW h
        PROVE  h \in upto <=>
                 \/ h \in before
                 \/ h = <<a, line>> /\ FindFold(scope[a].lines[line], needle) # 0
    <3>1. h \in upto <=> h \in Hits(scope, needle) /\ (h[1] < a \/ (h[1] = a /\ h[2] <= line))
      BY DEF HitsTo
    <3>2. h \in before <=>
            h \in Hits(scope, needle) /\ (h[1] < a \/ (h[1] = a /\ h[2] <= line - 1))
      BY DEF HitsTo
    <3>3. CASE h = <<a, line>>
      <4>1. h \in Hits(scope, needle) <=> FindFold(scope[a].lines[line], needle) # 0
        BY <3>3, HitsAreLines
      <4>2. h[1] = a /\ h[2] = line
        BY <3>3
      <4> QED
        BY <1>1, <3>1, <3>2, <3>3, <4>1, <4>2
    <3>4. CASE h # <<a, line>>
      <4>1. ASSUME h \in Hits(scope, needle)
            PROVE  h[1] = a /\ h[2] <= line => h[2] <= line - 1
        <5>1. /\ h = <<h[1], h[2]>>
              /\ h[1] \in DOMAIN scope /\ h[2] \in DOMAIN scope[h[1]].lines
          BY <4>1, HitsTyped
        <5>2. h[1] \in Nat /\ h[2] \in Nat
          BY <1>1, <5>1
        <5>3. h[1] = a => h[2] # line
          BY <3>4, <5>1
        <5> QED
          BY <1>1, <5>2, <5>3
      <4>2. ASSUME h \in Hits(scope, needle)
            PROVE  h[2] <= line - 1 => h[2] <= line
        <5>1. h[1] \in DOMAIN scope /\ h[2] \in DOMAIN scope[h[1]].lines
          BY <4>2, HitsTyped
        <5> QED
          BY <1>1, <5>1
      <4> QED
        BY <3>1, <3>2, <3>4, <4>1, <4>2
    <3> QED
      BY <3>3, <3>4
  <2> HIDE DEF upto, before
  <2> QED
    BY <2>1
<1>5. found \in [matches: Seq(Matches(scope, needle)), truncated: BOOLEAN, skipped: Seq(Nat)]
  BY DEF Found
<1>6. CASE FindFold(scope[a].lines[line], needle) = 0
  BY <1>4, <1>6 DEF SearchLine
<1>7. CASE FindFold(scope[a].lines[line], needle) # 0
  <2>1. next = IF found.truncated THEN found
               ELSE IF Full(found) THEN [found EXCEPT !.truncated = TRUE]
               ELSE [found EXCEPT !.matches = Append(@, match)]
    BY <1>7 DEF SearchLine
  <2>2. upto = before \cup {Place(match)}
    BY <1>3, <1>4, <1>7
  <2>3. next \in Found(scope, needle) /\ next.skipped = found.skipped
    <3>1. Append(found.matches, match) \in Seq(Matches(scope, needle))
      BY <1>3, <1>5
    <3> HIDE DEF match, next
    <3> QED
      BY <1>5, <2>1, <3>1 DEF Found
  <2>4. Place(match) \in Nat \X Nat /\ \A h \in before : Before(h, Place(match))
    <3> HIDE DEF match, before
    <3> QED
      BY <1>1, <1>2, <1>3
  <2> HIDE DEF match, next, upto, before
  <2>5. FirstOf(before, found)
    BY DEF before
  <2>6. FirstOf(before \cup {Place(match)}, next)
    BY <1>2, <1>3, <1>5, <2>1, <2>4, <2>5, FirstOfExtends
  <2> QED
    BY <2>2, <2>3, <2>6 DEF next, upto
<1> QED
  BY <1>6, <1>7

(* What was found is a list of matches after each line.                     *)
LEMMA LineTyped ==
  ASSUME NEW scope \in Seq(File), NEW needle, NEW a \in DOMAIN scope,
         NEW line \in DOMAIN scope[a].lines, NEW found \in Found(scope, needle)
  PROVE  SearchLine(scope, found, a, line, needle) \in Found(scope, needle)
<1> DEFINE match == Match(scope, a, line, needle)
<1>1. a \in Nat /\ line \in Nat
  BY ScopeTyped
<1>2. match \in Matches(scope, needle)
  BY <1>1 DEF Matches
<1>3. Append(found.matches, match) \in Seq(Matches(scope, needle))
  BY <1>2 DEF Found
<1> HIDE DEF match
<1> QED
  BY <1>3 DEF Found, SearchLine, match

(* All lines of an asset, one after the other.                              *)
LEMMA AssetKeepsFirst ==
  ASSUME NEW scope \in Seq(File), NEW needle, NEW a \in DOMAIN scope,
         NEW found \in Found(scope, needle)
  PROVE  LET next == SearchAsset(scope, found, a, needle) IN
         /\ next \in Found(scope, needle)
         /\ FirstOf(HitsTo(scope, needle, a, 0), found) =>
              FirstOf(HitsTo(scope, needle, a + 1, 0), next)
<1> DEFINE lines == scope[a].lines
           n == Len(lines)
           X == Found(scope, needle)
           next == SearchAsset(scope, found, a, needle)
           positions == [i \in DOMAIN lines |-> i]
           Steps(iter) ==
             iter = [s \in SUBSET (DOMAIN positions) |->
                       IF s = {} THEN found
                       ELSE LET x == Max(s)
                            IN  SearchLine(scope, iter[s \ {x}], a, positions[x], needle)]
           run == CHOOSE iter : Steps(iter)
           step == [i \in 1..n |-> [x \in X |-> SearchLine(scope, x, a, i, needle)]]
<1>1. /\ a \in Nat \ {0} /\ n \in Nat /\ DOMAIN lines = 1..n
      /\ \A b \in DOMAIN scope : b \in Nat /\ \A l \in DOMAIN scope[b].lines : l \in Nat
      /\ scope[a] \in File
  BY ScopeTyped
<1>2. ASSUME NEW h
      PROVE  /\ h \in HitsTo(scope, needle, a, 0) <=> h \in Hits(scope, needle) /\ h[1] < a
             /\ h \in HitsTo(scope, needle, a + 1, 0) <=>
                  h \in Hits(scope, needle) /\ h[1] < a + 1
  <2>1. CASE h \in Hits(scope, needle)
    <3>1. h[1] \in Nat /\ h[2] \in Nat /\ ~(h[2] <= 0)
      BY <1>1, <2>1, HitsTyped, ScopeTyped
    <3> QED
      BY <1>1, <3>1 DEF HitsTo
  <2> QED
    BY <2>1 DEF HitsTo
<1>3. CASE ~Searchable(scope[a])
  <2>1. next = [found EXCEPT !.skipped = Append(@, a)]
    BY <1>3 DEF SearchAsset
  <2>2. next \in Found(scope, needle)
    <3>1. Append(found.skipped, a) \in Seq(Nat)
      BY <1>1 DEF Found
    <3> HIDE DEF next
    <3> QED
      BY <2>1, <3>1 DEF Found
  <2>3. next.matches = found.matches /\ next.truncated = found.truncated
    BY <2>1 DEF Found
  <2>4. ASSUME NEW h \in Hits(scope, needle)
        PROVE  h[1] < a + 1 <=> h[1] < a
    <3>1. h[1] \in Nat /\ h[1] \in DOMAIN scope
      BY <1>1, HitsTyped
    <3>2. h[1] # a
      BY <1>3, HitsAreLines
    <3> QED
      BY <1>1, <3>1, <3>2
  <2>5. HitsTo(scope, needle, a + 1, 0) = HitsTo(scope, needle, a, 0)
    BY <1>2, <2>4
  <2> HIDE DEF next
  <2> QED
    BY <2>2, <2>3, <2>5 DEF FirstOf, next
<1>4. CASE Searchable(scope[a])
  <2>1. next = run[DOMAIN positions]
    BY <1>4 DEF SearchAsset, FoldLeftDomain, FoldLeft, MapThenFoldSet
  <2>2. /\ DOMAIN positions = 1..n /\ \A i \in 1..n : positions[i] = i
        /\ \A s \in SUBSET (1..n) : s # {} => Max(s) \in 1..n /\ s \ {Max(s)} \in SUBSET (1..n)
    BY <1>1, Greatest
  <2>3. PICK h : IsFold(h, n, X, found, step)
    <3>1. step \in [1..n -> [X -> X]]
      BY <1>1, LineTyped
    <3>2. found \in X
      OBVIOUS
    <3>3. n \in Nat
      BY <1>1
    <3> HIDE DEF step, n, X
    <3> QED
      BY <3>1, <3>2, <3>3, FoldExists
  <2>4. Steps(h)
    BY <2>2, <2>3 DEF IsFold
  <2>5. Steps(run)
    <3> HIDE DEF Steps
    <3> QED
      BY <2>4
  <2> HIDE DEF run, positions
  <2>6. /\ run[{}] = found
        /\ \A i \in 1..n : run[1..i] = SearchLine(scope, run[1..(i - 1)], a, i, needle)
    <3>1. run[{}] = found
      BY <2>5
    <3>2. ASSUME NEW i \in 1..n
          PROVE  run[1..i] = SearchLine(scope, run[1..(i - 1)], a, i, needle)
      <4>1. /\ 1..i \in SUBSET (1..n) /\ 1..i # {}
            /\ Max(1..i) = i /\ (1..i) \ {i} = 1..(i - 1)
        <5> HIDE DEF n
        <5> QED
          BY <1>1, LastOf
      <4>2. 1..i \in SUBSET (DOMAIN positions) /\ positions[i] = i
        BY <2>2, <4>1
      <4>3. run[1..i] = SearchLine(scope, run[(1..i) \ {Max(1..i)}], a, positions[Max(1..i)],
                                   needle)
        BY <2>5, <4>1, <4>2
      <4> QED
        BY <4>1, <4>2, <4>3
    <3> QED
      BY <3>1, <3>2
  <2> HIDE DEF Steps
  <2> DEFINE First == FirstOf(HitsTo(scope, needle, a, 0), found)
             Kept(i) == /\ run[1..i] \in X
                        /\ First => FirstOf(HitsTo(scope, needle, a, i), run[1..i])
             kept == {i \in Nat : i <= n => Kept(i)}
  <2>7. 0 \in kept
    <3>1. 1..0 = {}
      OBVIOUS
    <3> QED
      BY <2>6, <3>1
  <2>8. ASSUME NEW i \in Nat, i \in kept
        PROVE  i + 1 \in kept
    <3> SUFFICES ASSUME i + 1 <= n
                 PROVE  Kept(i + 1)
      OBVIOUS
    <3>1. Kept(i) /\ i + 1 \in 1..n /\ (i + 1) - 1 = i
      BY <1>1, <2>8
    <3>2. run[1..(i + 1)] = SearchLine(scope, run[1..i], a, i + 1, needle)
      BY <2>6, <3>1
    <3>3. i + 1 \in DOMAIN scope[a].lines
      BY <1>1, <3>1
    <3>4. run[1..(i + 1)] \in X
      BY <3>1, <3>2, <3>3, LineTyped
    <3>5. ASSUME First
          PROVE  FirstOf(HitsTo(scope, needle, a, i + 1), run[1..(i + 1)])
      <4>1. FirstOf(HitsTo(scope, needle, a, (i + 1) - 1), run[1..i])
        BY <3>1, <3>5
      <4> QED
        BY <1>4, <3>1, <3>2, <3>3, <4>1, LineKeepsFirst
    <3> QED
      BY <3>4, <3>5
  <2> HIDE DEF kept
  <2>9. Nat \subseteq kept
    BY <2>7, <2>8, Induction
  <2>10. Kept(n)
    BY <1>1, <2>9 DEF kept
  <2>11. HitsTo(scope, needle, a, n) = HitsTo(scope, needle, a + 1, 0)
    <3>1. ASSUME NEW place
          PROVE  place \in HitsTo(scope, needle, a, n) <=>
                   place \in Hits(scope, needle) /\ place[1] < a + 1
      <4>1. CASE place \in Hits(scope, needle)
        <5>1. place[1] \in DOMAIN scope /\ place[2] \in DOMAIN scope[place[1]].lines
          BY <4>1, HitsTyped
        <5>2. place[1] \in Nat /\ place[1] = a => place[2] <= n
          BY <1>1, <5>1
        <5> QED
          BY <1>1, <4>1, <5>1, <5>2 DEF HitsTo
      <4> QED
        BY <4>1 DEF HitsTo
    <3> QED
      BY <1>2, <3>1
  <2> HIDE DEF next
  <2> QED
    BY <2>1, <2>2, <2>10, <2>11 DEF next
<1> QED
  BY <1>3, <1>4

(* All assets of the scope.                                                 *)
THEOREM SearchFindsFirst ==
  ASSUME NEW scope \in Seq(File), NEW needle
  PROVE  /\ TextSearch(scope, needle) \in Found(scope, needle)
         /\ FirstOf(Hits(scope, needle), TextSearch(scope, needle))
<1> DEFINE n == Len(scope)
           X == Found(scope, needle)
           none == [matches |-> <<>>, truncated |-> FALSE, skipped |-> <<>>]
           positions == [i \in DOMAIN scope |-> i]
           Steps(iter) ==
             iter = [s \in SUBSET (DOMAIN positions) |->
                       IF s = {} THEN none
                       ELSE LET x == Max(s)
                            IN  SearchAsset(scope, iter[s \ {x}], positions[x], needle)]
           run == CHOOSE iter : Steps(iter)
           step == [i \in 1..n |-> [x \in X |-> SearchAsset(scope, x, i, needle)]]
           upto(i) == HitsTo(scope, needle, i, 0)
<1>1. n \in Nat /\ DOMAIN scope = 1..n
  OBVIOUS
<1>2. ASSUME NEW h \in Hits(scope, needle)
      PROVE  h[1] \in 1..n /\ h[2] \in Nat \ {0}
  <2>1. h[1] \in DOMAIN scope /\ h[2] \in DOMAIN scope[h[1]].lines
    BY HitsTyped
  <2>2. Len(scope[h[1]].lines) \in Nat /\ DOMAIN scope[h[1]].lines = 1..Len(scope[h[1]].lines)
    BY <2>1, ScopeTyped
  <2> QED
    BY <1>1, <2>1, <2>2
<1>3. none \in X /\ FirstOf(upto(1), none)
  <2>1. none \in X
    BY DEF Found
  <2>2. upto(1) = {}
    BY <1>1, <1>2 DEF HitsTo
  <2>3. FirstOf({}, none)
    BY LimitsArePositive DEF FirstOf
  <2> QED
    BY <2>1, <2>2, <2>3
<1>4. TextSearch(scope, needle) = run[DOMAIN positions]
  BY DEF TextSearch, FoldLeftDomain, FoldLeft, MapThenFoldSet
<1>5. /\ DOMAIN positions = 1..n /\ \A i \in 1..n : positions[i] = i
      /\ \A s \in SUBSET (1..n) : s # {} => Max(s) \in 1..n /\ s \ {Max(s)} \in SUBSET (1..n)
  BY <1>1, Greatest
<1>6. PICK h : IsFold(h, n, X, none, step)
  <2>1. step \in [1..n -> [X -> X]]
    BY <1>1, AssetKeepsFirst
  <2> HIDE DEF step, n, X, none
  <2> QED
    BY <1>1, <1>3, <2>1, FoldExists
<1>7. Steps(h)
  <2> HIDE DEF none
  <2> QED
    BY <1>5, <1>6 DEF IsFold
<1>8. Steps(run)
  <2> HIDE DEF Steps
  <2> QED
    BY <1>7
<1> HIDE DEF run, positions, none
<1>9. run[{}] = none
  BY <1>8
<1>10. ASSUME NEW i \in 1..n
       PROVE  run[1..i] = SearchAsset(scope, run[1..(i - 1)], i, needle)
  <2>1. /\ 1..i \in SUBSET (1..n) /\ 1..i # {}
        /\ Max(1..i) = i /\ (1..i) \ {i} = 1..(i - 1)
    <3> HIDE DEF n
    <3> QED
      BY <1>1, LastOf
  <2>2. 1..i \in SUBSET (DOMAIN positions) /\ positions[i] = i
    BY <1>5, <2>1
  <2>3. run[1..i] = SearchAsset(scope, run[(1..i) \ {Max(1..i)}], positions[Max(1..i)], needle)
    BY <1>8, <2>1, <2>2
  <2> QED
    BY <2>1, <2>2, <2>3
<1> HIDE DEF Steps
<1> DEFINE Kept(i) == run[1..i] \in X /\ FirstOf(upto(i + 1), run[1..i])
           kept == {i \in Nat : i <= n => Kept(i)}
<1>11. 0 \in kept
  <2>1. 1..0 = {} /\ 0 + 1 = 1
    OBVIOUS
  <2> HIDE DEF X, upto
  <2> QED
    BY <1>3, <1>9, <2>1
<1>12. ASSUME NEW i \in Nat, i \in kept
       PROVE  i + 1 \in kept
  <2> SUFFICES ASSUME i + 1 <= n
               PROVE  Kept(i + 1)
    OBVIOUS
  <2>1. Kept(i) /\ i + 1 \in 1..n /\ (i + 1) - 1 = i
    BY <1>1, <1>12
  <2>2. run[1..(i + 1)] = SearchAsset(scope, run[1..i], i + 1, needle)
    BY <1>10, <2>1
  <2>3. i + 1 \in DOMAIN scope
    BY <1>1, <2>1
  <2> QED
    BY <2>1, <2>2, <2>3, AssetKeepsFirst
<1> HIDE DEF kept
<1>13. Nat \subseteq kept
  BY <1>11, <1>12, Induction
<1>14. Kept(n)
  BY <1>1, <1>13 DEF kept
<1>15. upto(n + 1) = Hits(scope, needle)
  BY <1>1, <1>2 DEF HitsTo
<1> QED
  BY <1>4, <1>5, <1>14, <1>15

(* What a search shows of a line has the match in it, as far as it fits.    *)
LEMMA MatchIsShown ==
  ASSUME NEW line \in Text, NEW needle \in Text, FindFold(line, needle) # 0
  PROVE  LET start   == FindFold(line, needle) - 1
             context == BoundedContext(Len(line), start, start + Len(needle), MaxTextContextRunes)
             shown   == SubSeq(line, context.start + 1, context.end)
         IN  /\ 0 <= context.start /\ context.end <= Len(line)
             /\ Len(shown) <= MaxTextContextRunes
             /\ \/ FindFold(shown, needle) # 0
                \/ /\ Len(needle) > MaxTextContextRunes
                   /\ FindFold(needle, shown) = 1
<1> DEFINE at == FindFold(line, needle)
           start == at - 1
           n == Len(needle)
           max == MaxTextContextRunes
           context == BoundedContext(Len(line), start, start + n, max)
           from == context.start
           length == context.end - from
           shown == SubSeq(line, from + 1, context.end)
<1>1. /\ at \in Nat \ {0} /\ n \in Nat \ {0} /\ Len(line) \in Nat /\ max \in Nat \ {0}
      /\ at + n - 1 <= Len(line) /\ DOMAIN needle = 1..n
      /\ \A k \in 1..n : Folded[line[at + k - 1]] = Folded[needle[k]]
  <2>1. needle # <<>> /\ n \in Nat /\ Len(line) \in Nat /\ DOMAIN needle = 1..n
    BY FindsTheFirst DEF Text, Blank
  <2>2. n # 0
    BY <2>1 DEF Text
  <2> QED
    BY <2>1, <2>2, FindsTheFirst, LimitsArePositive
<1>2. /\ from \in Nat /\ context.end \in Nat
      /\ from < context.end /\ context.end <= Len(line) /\ length <= max
      /\ IF n <= max THEN from <= start /\ start + n <= context.end
         ELSE from = start /\ context.end = start + max
  <2>1. /\ start \in Nat /\ start + n \in Nat /\ start < start + n /\ start + n <= Len(line)
        /\ (start + n) - start = n
    BY <1>1
  <2>2. /\ context.start \in Nat /\ context.end \in Nat
        /\ context.start < context.end /\ context.end <= Len(line)
        /\ context.end - context.start <= max
        /\ IF (start + n) - start <= max
             THEN context.start <= start /\ start + n <= context.end
             ELSE context.start = start /\ context.end = start + max
    <3> HIDE DEF start, n, max
    <3> QED
      BY <1>1, <2>1, ContextHoldsMatch
  <2> HIDE DEF start, n, max, context
  <2> QED
    BY <2>1, <2>2
<1> HIDE DEF context
<1>3. /\ shown \in Text /\ Len(shown) = length /\ DOMAIN shown = 1..length
      /\ \A k \in 1..length : shown[k] = line[from + k]
  <2>1. /\ from + 1 \in Int /\ context.end \in Int
        /\ \A i \in (from + 1)..context.end : line[i] \in Runes
    BY <1>1, <1>2 DEF Text
  <2>2. shown \in Seq(Runes)
    BY <2>1, SubSeqProperties DEF Text
  <2>3. Len(shown) = IF from + 1 <= context.end THEN context.end - (from + 1) + 1 ELSE 0
    BY <2>1, SubSeqProperties DEF Text
  <2>4. \A k \in 1..(context.end - (from + 1) + 1) : shown[k] = line[(from + 1) + k - 1]
    BY <2>1, SubSeqProperties DEF Text
  <2> HIDE DEF shown
  <2>5. Len(shown) = length
    BY <1>2, <2>3
  <2>6. ASSUME NEW k \in 1..length
        PROVE  shown[k] = line[from + k]
    <3>1. k \in 1..(context.end - (from + 1) + 1) /\ (from + 1) + k - 1 = from + k
      BY <1>2
    <3> QED
      BY <2>4, <3>1
  <2> QED
    BY <2>2, <2>5, <2>6 DEF Text
<1> HIDE DEF shown
<1>4. CASE n <= max
  <2> DEFINE j == start - from + 1
  <2>1. j \in 1..(Len(shown) - Len(needle) + 1)
    BY <1>1, <1>2, <1>3, <1>4
  <2>2. ASSUME NEW k \in DOMAIN needle
        PROVE  Folded[shown[j + k - 1]] = Folded[needle[k]]
    <3>1. k \in 1..n /\ j + k - 1 \in 1..length /\ from + (j + k - 1) = at + k - 1
      <4>1. k \in 1..n /\ start = at - 1 /\ at \in Nat /\ n \in Nat
        BY <1>1
      <4> HIDE DEF at, n, max, start
      <4>2. from \in Nat /\ context.end \in Nat /\ from <= start /\ start + n <= context.end
        BY <1>2, <1>4
      <4> HIDE DEF from
      <4> QED
        BY <4>1, <4>2
    <3> QED
      BY <1>1, <1>3, <3>1
  <2>3. needle # Blank
    BY <1>1 DEF Blank
  <2>4. FindFold(shown, needle) # 0
    BY <1>3, <2>1, <2>2, <2>3, FindsTheFirst
  <2> QED
    BY <1>2, <1>3, <2>4 DEF shown, context
<1>5. CASE n > max
  <2> DEFINE r == FindFold(needle, shown)
  <2>1. shown # Blank /\ 1 \in 1..(Len(needle) - Len(shown) + 1)
    BY <1>1, <1>2, <1>3, <1>5 DEF Blank
  <2>2. ASSUME NEW k \in DOMAIN shown
        PROVE  Folded[needle[1 + k - 1]] = Folded[shown[k]]
    <3>1. k \in 1..n /\ 1 + k - 1 = k /\ from + k = at + k - 1 /\ k \in 1..length
      <4>1. k \in 1..length /\ start = at - 1 /\ at \in Nat /\ n \in Nat /\ max \in Nat
        BY <1>1, <1>3
      <4> HIDE DEF at, n, max, start
      <4>2. /\ from \in Nat /\ context.end \in Nat /\ from = start
            /\ length <= max /\ ~(n <= max)
        BY <1>2, <1>5, <4>1
      <4> HIDE DEF from
      <4> QED
        BY <1>5, <4>1, <4>2
    <3> QED
      BY <1>1, <1>3, <3>1
  <2>3. r \in Nat /\ r # 0
    BY <1>3, <2>1, <2>2, FindsTheFirst
  <2>4. ~(1 \in 1..(r - 1))
    BY <1>3, <2>2, <2>3, FindsTheFirst
  <2>5. r = 1
    BY <2>3, <2>4
  <2> QED
    BY <1>2, <1>3, <1>5, <2>5 DEF shown, context
<1>6. n <= max \/ n > max
  BY <1>1
<1> QED
  BY <1>4, <1>5, <1>6

-----------------------------------------------------------------------------
(* A function that is defined over 0..n by what it is before.               *)
IsRun(run, n, X, base, step) ==
  /\ run \in [0..n -> X] /\ run[0] = base
  /\ \A i \in 1..n : run[i] = step[i][run[i - 1]]

(* Every list of steps has its results.                                     *)
LEMMA RunExists ==
  ASSUME NEW n \in Nat, NEW X, NEW base \in X, NEW step \in [1..n -> [X -> X]]
  PROVE  \E run : IsRun(run, n, X, base, step)
<1>1. PICK h : IsFold(h, n, X, base, step)
  BY FoldExists
<1> DEFINE run == [i \in 0..n |-> h[1..i]]
<1>2. /\ h \in [SUBSET (1..n) -> X]
      /\ \A s \in SUBSET (1..n) :
           h[s] = IF s = {} THEN base ELSE step[Max(s)][h[s \ {Max(s)}]]
  BY <1>1 DEF IsFold
<1>3. \A i \in 0..n : 1..i \in SUBSET (1..n)
  OBVIOUS
<1>4. run \in [0..n -> X]
  BY <1>2, <1>3
<1>5. run[0] = base
  <2>1. 1..0 = {} /\ 0 \in 0..n
    OBVIOUS
  <2> QED
    BY <1>2, <2>1
<1>6. ASSUME NEW i \in 1..n
      PROVE  run[i] = step[i][run[i - 1]]
  <2>1. i \in 0..n /\ i - 1 \in 0..n
    OBVIOUS
  <2>2. run[i] = h[1..i] /\ run[i - 1] = h[1..(i - 1)]
    BY <2>1
  <2>3. /\ 1..i \in SUBSET (1..n) /\ 1..i # {}
        /\ Max(1..i) = i /\ (1..i) \ {i} = 1..(i - 1)
    BY LastOf
  <2>4. h[1..i] = step[Max(1..i)][h[(1..i) \ {Max(1..i)}]]
    BY <1>2, <2>3
  <2> QED
    BY <2>2, <2>3, <2>4
<1> HIDE DEF run
<1> QED
  BY <1>4, <1>5, <1>6 DEF IsRun

(* The rows of a file that the filters select, among the first i of them.   *)
Rows(f, q) == {Project(f, f.rows[i], q) : i \in DOMAIN f.rows}

AreChosen(first, f, q) ==
  /\ first \in [0..Len(f.rows) -> Seq(Rows(f, q))]
  /\ first[0] = <<>>
  /\ \A i \in 1..Len(f.rows) :
       first[i] = IF RowMatches(f, f.rows[i], q.filters)
                    THEN Append(first[i - 1], Project(f, f.rows[i], q)) ELSE first[i - 1]

(* AllRows, whose recursive function is a CHOOSE, is the last of them.      *)
LEMMA AllRowsAreChosen ==
  ASSUME NEW f \in File, NEW q
  PROVE  \E first : AreChosen(first, f, q) /\ AllRows(f, q) = first[Len(f.rows)]
<1> DEFINE n == Len(f.rows)
           X == Seq(Rows(f, q))
           Steps(first) ==
             first = [i \in 0..n |->
                        IF i = 0 THEN <<>>
                        ELSE IF RowMatches(f, f.rows[i], q.filters)
                               THEN Append(first[i - 1], Project(f, f.rows[i], q))
                               ELSE first[i - 1]]
           first == CHOOSE first : Steps(first)
           step == [i \in 1..n |-> [x \in X |->
                      IF RowMatches(f, f.rows[i], q.filters)
                        THEN Append(x, Project(f, f.rows[i], q)) ELSE x]]
<1>1. n \in Nat /\ DOMAIN f.rows = 1..n
  BY DEF File
<1>2. AllRows(f, q) = first[n]
  BY DEF AllRows
<1>3. step \in [1..n -> [X -> X]]
  <2>1. ASSUME NEW i \in 1..n, NEW x \in X
        PROVE  Append(x, Project(f, f.rows[i], q)) \in X
    <3>1. Project(f, f.rows[i], q) \in Rows(f, q)
      BY <1>1 DEF Rows
    <3> HIDE DEF n
    <3> QED
      BY <3>1
  <2> HIDE DEF X, n
  <2> QED
    BY <2>1
<1>4. PICK run : IsRun(run, n, X, <<>>, step)
  <2>1. <<>> \in X
    OBVIOUS
  <2> HIDE DEF step, n, X
  <2> QED
    BY <1>1, <1>3, <2>1, RunExists
<1>5. Steps(run)
  <2>1. run \in [0..n -> X] /\ run[0] = <<>> /\ \A i \in 1..n : run[i] = step[i][run[i - 1]]
    BY <1>4 DEF IsRun
  <2> HIDE DEF n, X
  <2>2. \A i \in 1..n : i - 1 \in 0..n /\ i # 0 /\ i \in 0..n
    BY <1>1
  <2>3. \A i \in 0..n : i # 0 => i \in 1..n
    BY <1>1
  <2>4. ASSUME NEW i \in 0..n
        PROVE  run[i] = IF i = 0 THEN <<>>
                        ELSE IF RowMatches(f, f.rows[i], q.filters)
                               THEN Append(run[i - 1], Project(f, f.rows[i], q))
                               ELSE run[i - 1]
    <3>1. CASE i = 0
      BY <2>1, <3>1
    <3>2. CASE i # 0
      <4>1. i \in 1..n /\ run[i - 1] \in X
        BY <2>1, <2>2, <2>3, <3>2
      <4> QED
        BY <2>1, <3>2, <4>1
    <3> QED
      BY <3>1, <3>2
  <2> QED
    BY <2>1, <2>4
<1>6. Steps(first)
  <2> HIDE DEF Steps
  <2> QED
    BY <1>5
<1> HIDE DEF first
<1>7. AreChosen(first, f, q)
  <2> HIDE DEF n
  <2>1. /\ DOMAIN first = 0..n /\ first[0] = <<>>
        /\ \A i \in 1..n :
             first[i] = IF RowMatches(f, f.rows[i], q.filters)
                          THEN Append(first[i - 1], Project(f, f.rows[i], q)) ELSE first[i - 1]
    <3>1. DOMAIN first = 0..n
      BY <1>6
    <3>2. first[0] = <<>>
      BY <1>1, <1>6
    <3>3. ASSUME NEW i \in 1..n
          PROVE  first[i] = IF RowMatches(f, f.rows[i], q.filters)
                              THEN Append(first[i - 1], Project(f, f.rows[i], q))
                              ELSE first[i - 1]
      <4>1. i \in 0..n /\ i # 0
        BY <1>1
      <4> QED
        BY <1>6, <4>1
    <3> QED
      BY <3>1, <3>2, <3>3
  <2>8. <<>> \in X
    OBVIOUS
  <2> HIDE DEF Steps
  <2> DEFINE typed == {i \in Nat : i <= n => first[i] \in X}
  <2>2. 0 \in typed
    <3> HIDE DEF X
    <3> QED
      BY <2>1, <2>8
  <2>3. ASSUME NEW i \in Nat, i \in typed
        PROVE  i + 1 \in typed
    <3> SUFFICES ASSUME i + 1 <= n
                 PROVE  first[i + 1] \in X
      OBVIOUS
    <3>1. i + 1 \in 1..n /\ (i + 1) - 1 = i /\ first[i] \in X
      BY <1>1, <2>3
    <3>2. Project(f, f.rows[i + 1], q) \in Rows(f, q)
      BY <1>1, <3>1 DEF Rows
    <3>3. Append(first[i], Project(f, f.rows[i + 1], q)) \in X
      BY <3>1, <3>2
    <3> HIDE DEF X
    <3> QED
      BY <2>1, <3>1, <3>3
  <2> HIDE DEF typed
  <2>4. Nat \subseteq typed
    BY <2>2, <2>3, Induction
  <2>5. \A i \in 0..n : first[i] \in X
    BY <1>1, <2>4 DEF typed
  <2>6. first = [i \in 0..n |-> first[i]]
    BY <1>6 DEF Steps
  <2>7. first \in [0..n -> X]
    BY <2>5, <2>6
  <2> HIDE DEF X
  <2> QED
    BY <2>1, <2>7 DEF AreChosen, n, X
<1> QED
  BY <1>2, <1>7

(* How far what was found among some rows goes through the chosen of them.  *)
Continues(found, chosen, from, limit) ==
  /\ found.matched = Len(chosen)
  /\ Len(found.rows) <= limit
  /\ \A j \in 1..Len(found.rows) : from + j <= Len(chosen) /\ found.rows[j] = chosen[from + j]
  /\ Len(found.rows) = limit \/ from + Len(found.rows) >= Len(chosen)

(* One row.                                                                 *)
LEMMA RowContinues ==
  ASSUME NEW R, NEW found \in [matched: Nat, rows: Seq(R)], NEW chosen \in Seq(R), NEW r \in R,
         NEW from \in Nat, NEW limit \in Nat, Continues(found, chosen, from, limit)
  PROVE  Continues([matched |-> found.matched + 1,
                    rows |-> IF OnPage(found, from, limit)
                               THEN Append(found.rows, r) ELSE found.rows],
                   Append(chosen, r), from, limit)
<1> DEFINE rows == found.rows
           n == Len(rows)
           m == Len(chosen)
           more == Append(chosen, r)
           longer == Append(rows, r)
<1>1. /\ rows \in Seq(R) /\ n \in Nat /\ m \in Nat /\ found.matched = m
      /\ n <= limit /\ (n = limit \/ from + n >= m)
      /\ \A j \in 1..n : from + j <= m /\ rows[j] = chosen[from + j]
  BY DEF Continues
<1>2. /\ Len(more) = m + 1 /\ more[m + 1] = r /\ \A j \in 1..m : more[j] = chosen[j]
  OBVIOUS
<1>3. \A j \in 1..n : from + j <= m + 1 /\ rows[j] = more[from + j]
  <2> SUFFICES ASSUME NEW j \in 1..n
               PROVE  from + j <= m + 1 /\ rows[j] = more[from + j]
    OBVIOUS
  <2>1. from + j \in 1..m /\ rows[j] = chosen[from + j]
    BY <1>1
  <2> HIDE DEF rows, more, m
  <2> QED
    BY <1>1, <1>2, <2>1
<1> DEFINE next == [matched |-> m + 1, rows |-> IF OnPage(found, from, limit) THEN longer ELSE rows]
<1>4. CASE OnPage(found, from, limit)
  <2>1. m >= from /\ n < limit /\ from + n >= m
    BY <1>1, <1>4 DEF OnPage
  <2>2. from + n = m
    <3>1. CASE n = 0
      BY <1>1, <2>1, <3>1
    <3>2. CASE n # 0
      <4>1. n \in 1..n
        BY <1>1, <3>2
      <4>2. from + n <= m
        BY <1>1, <4>1
      <4> QED
        BY <1>1, <2>1, <4>2
    <3> QED
      BY <3>1, <3>2
  <2>3. Len(longer) = n + 1 /\ longer[n + 1] = r /\ \A j \in 1..n : longer[j] = rows[j]
    BY <1>1
  <2> HIDE DEF longer, more, rows, m, n
  <2>4. ASSUME NEW j \in 1..(n + 1)
        PROVE  from + j <= m + 1 /\ longer[j] = more[from + j]
    <3>1. CASE j = n + 1
      <4>1. from + j = m + 1
        BY <1>1, <2>2, <3>1
      <4> QED
        BY <1>1, <1>2, <2>3, <3>1, <4>1
    <3>2. CASE j # n + 1
      <4>1. j \in 1..n
        BY <1>1, <3>2
      <4> QED
        BY <1>3, <2>3, <4>1
    <3> QED
      BY <3>1, <3>2
  <2>5. next.matched = m + 1 /\ next.rows = longer
    BY <1>4
  <2> HIDE DEF next
  <2>6. Continues(next, more, from, limit)
    BY <1>1, <1>2, <2>1, <2>2, <2>3, <2>4, <2>5 DEF Continues
  <2> QED
    BY <1>1, <2>6 DEF next, longer, more, rows
<1>5. CASE ~OnPage(found, from, limit)
  <2>1. n = limit \/ from + n >= m + 1
    <3>1. m < from \/ n = limit
      BY <1>1, <1>5 DEF OnPage
    <3> QED
      BY <1>1, <3>1
  <2>2. next.matched = m + 1 /\ next.rows = rows
    BY <1>5
  <2> HIDE DEF next, rows, more
  <2>3. Continues(next, more, from, limit)
    BY <1>1, <1>2, <1>3, <2>1, <2>2 DEF Continues
  <2> QED
    BY <1>1, <2>3 DEF next, longer, more, rows
<1> QED
  BY <1>4, <1>5

(* A file's part of a page continues the file's rows where the offset says, *)
(* to the limit or to the end, counts them all and says whether it has more.*)
THEOREM FileContinues ==
  ASSUME NEW f \in File, NEW q, NEW from \in Nat, NEW limit \in Nat
  PROVE  LET answer == QueryFile(f, q, from, limit) IN
         /\ AllRows(f, q) \in Seq(Rows(f, q)) /\ answer.rows \in Seq(Rows(f, q))
         /\ Continues(answer, AllRows(f, q), from, limit)
         /\ answer.more <=> from + Len(answer.rows) < Len(AllRows(f, q))
<1> DEFINE n == Len(f.rows)
           R == Rows(f, q)
           X == [matched: Nat, rows: Seq(R)]
           none == [matched |-> 0, rows |-> <<>>]
           Steps(iter) ==
             iter = [s \in SUBSET (DOMAIN f.rows) |->
                       IF s = {} THEN none
                       ELSE LET x == Max(s)
                            IN  QueryRow(f, q, from, limit, iter[s \ {x}], f.rows[x])]
           run == CHOOSE iter : Steps(iter)
           step == [i \in 1..n |-> [x \in X |-> QueryRow(f, q, from, limit, x, f.rows[i])]]
           answer == QueryFile(f, q, from, limit)
           found == FoldLeft(LAMBDA so_far, row : QueryRow(f, q, from, limit, so_far, row),
                             none, f.rows)
<1>1. n \in Nat /\ DOMAIN f.rows = 1..n
  BY DEF File
<1>2. found = run[DOMAIN f.rows]
  BY DEF FoldLeft, MapThenFoldSet
<1>3. answer = [rows |-> found.rows, matched |-> found.matched,
                more |-> HasMore(found, from, limit)]
  BY DEF QueryFile
<1> HIDE DEF found, answer
<1>4. \A i \in 1..n : Project(f, f.rows[i], q) \in R
  BY <1>1 DEF Rows
<1>5. step \in [1..n -> [X -> X]]
  <2>1. ASSUME NEW i \in 1..n, NEW x \in X
        PROVE  QueryRow(f, q, from, limit, x, f.rows[i]) \in X
    <3> DEFINE r == Project(f, f.rows[i], q)
    <3>1. r \in R
      BY <1>4
    <3>2. Append(x.rows, r) \in Seq(R)
      <4> HIDE DEF r, R
      <4> QED
        BY <3>1
    <3> HIDE DEF R, n
    <3> QED
      BY <3>2 DEF QueryRow
  <2> HIDE DEF X, n
  <2> QED
    BY <2>1
<1>6. PICK h : IsFold(h, n, X, none, step)
  <2>1. none \in X
    OBVIOUS
  <2> HIDE DEF step, n, X, none
  <2> QED
    BY <1>1, <1>5, <2>1, FoldExists
<1>7. \A s \in SUBSET (1..n) : s # {} => Max(s) \in 1..n /\ s \ {Max(s)} \in SUBSET (1..n)
  BY <1>1, Greatest
<1>8. Steps(h)
  <2> HIDE DEF none, X
  <2> QED
    BY <1>1, <1>6, <1>7 DEF IsFold
<1>9. Steps(run)
  <2> HIDE DEF Steps
  <2> QED
    BY <1>8
<1> HIDE DEF run
<1>10. run[{}] = none
  <2> HIDE DEF none
  <2> QED
    BY <1>9
<1>11. ASSUME NEW i \in 1..n
       PROVE  run[1..i] = QueryRow(f, q, from, limit, run[1..(i - 1)], f.rows[i])
  <2>1. /\ 1..i \in SUBSET (1..n) /\ 1..i # {}
        /\ Max(1..i) = i /\ (1..i) \ {i} = 1..(i - 1)
    <3> HIDE DEF n
    <3> QED
      BY <1>1, LastOf
  <2>2. 1..i \in SUBSET (DOMAIN f.rows)
    BY <1>1, <2>1
  <2> HIDE DEF none
  <2>3. run[1..i] = QueryRow(f, q, from, limit, run[(1..i) \ {Max(1..i)}], f.rows[Max(1..i)])
    BY <1>9, <2>1, <2>2
  <2> QED
    BY <2>1, <2>3
<1> HIDE DEF Steps
<1>12. PICK first : AreChosen(first, f, q) /\ AllRows(f, q) = first[n]
  BY AllRowsAreChosen
<1> HIDE DEF R
<1>13. /\ first[0] = <<>> /\ \A i \in 0..n : first[i] \in Seq(R)
       /\ \A i \in 1..n :
            first[i] = IF RowMatches(f, f.rows[i], q.filters)
                         THEN Append(first[i - 1], Project(f, f.rows[i], q)) ELSE first[i - 1]
  BY <1>12 DEF AreChosen, R
<1> DEFINE Kept(i) == run[1..i] \in X /\ Continues(run[1..i], first[i], from, limit)
           kept == {i \in Nat : i <= n => Kept(i)}
<1>14. 0 \in kept
  <2>1. 1..0 = {}
    OBVIOUS
  <2>2. none \in X /\ Continues(none, <<>>, from, limit)
    BY DEF Continues
  <2> HIDE DEF X, none
  <2> QED
    BY <1>10, <1>13, <2>1, <2>2
<1>15. ASSUME NEW i \in Nat, i \in kept
       PROVE  i + 1 \in kept
  <2> SUFFICES ASSUME i + 1 <= n
               PROVE  Kept(i + 1)
    OBVIOUS
  <2> DEFINE was == run[1..i]
             row == f.rows[i + 1]
             r == Project(f, row, q)
  <2>1. was \in X /\ Continues(was, first[i], from, limit)
    BY <1>1, <1>15
  <2>2. i + 1 \in 1..n /\ (i + 1) - 1 = i /\ i \in 0..n
    BY <1>1
  <2>3. run[1..(i + 1)] = QueryRow(f, q, from, limit, was, row)
    BY <1>11, <2>2
  <2>4. /\ r \in R /\ first[i] \in Seq(R)
        /\ first[i + 1] = IF RowMatches(f, row, q.filters) THEN Append(first[i], r) ELSE first[i]
    BY <1>4, <1>13, <2>2
  <2> HIDE DEF was, row
  <2>5. CASE ~RowMatches(f, row, q.filters)
    BY <2>1, <2>3, <2>4, <2>5 DEF QueryRow
  <2>6. CASE RowMatches(f, row, q.filters)
    <3> DEFINE next == [matched |-> was.matched + 1,
                        rows |-> IF OnPage(was, from, limit) THEN Append(was.rows, r)
                                 ELSE was.rows]
    <3>1. run[1..(i + 1)] = next /\ first[i + 1] = Append(first[i], r)
      BY <2>3, <2>4, <2>6 DEF QueryRow
    <3> HIDE DEF r
    <3>2. Append(was.rows, r) \in Seq(R)
      BY <2>1, <2>4
    <3>3. next \in X
      BY <2>1, <3>2
    <3>4. Continues(next, Append(first[i], r), from, limit)
      BY <2>1, <2>4, RowContinues
    <3> HIDE DEF next, X
    <3> QED
      BY <3>1, <3>3, <3>4
  <2> QED
    BY <2>5, <2>6
<1> HIDE DEF kept
<1>16. Nat \subseteq kept
  BY <1>14, <1>15, Induction
<1>17. run[1..n] \in X /\ Continues(run[1..n], first[n], from, limit)
  BY <1>1, <1>16 DEF kept
<1>18. /\ found \in X /\ Continues(found, AllRows(f, q), from, limit)
       /\ AllRows(f, q) \in Seq(R)
  BY <1>1, <1>2, <1>12, <1>13, <1>17
<1>19. answer.rows = found.rows /\ answer.matched = found.matched
       /\ answer.more = HasMore(found, from, limit)
  BY <1>3
<1>20. Continues(answer, AllRows(f, q), from, limit)
  BY <1>18, <1>19 DEF Continues
<1>21. answer.more <=> from + Len(answer.rows) < Len(AllRows(f, q))
  BY <1>18, <1>19 DEF HasMore, Continues
<1> QED
  BY <1>18, <1>19, <1>20, <1>21 DEF answer, R

-----------------------------------------------------------------------------
(* The assets that a CSV query reads, among the first i of the scope.       *)
AreQueried(names, scope) ==
  /\ names \in [0..Len(scope) -> Seq(DOMAIN scope)]
  /\ names[0] = <<>>
  /\ \A i \in 1..Len(scope) :
       names[i] = IF QueryableCSV(scope[i]) THEN Append(names[i - 1], i) ELSE names[i - 1]

(* Every scope has its list.                                                *)
LEMMA QueriedExist ==
  ASSUME NEW scope \in Seq(File)
  PROVE  \E names : AreQueried(names, scope)
<1> DEFINE n == Len(scope)
           X == Seq(DOMAIN scope)
           step == [i \in 1..n |-> [x \in X |-> IF QueryableCSV(scope[i]) THEN Append(x, i) ELSE x]]
<1>1. n \in Nat /\ DOMAIN scope = 1..n /\ <<>> \in X
  OBVIOUS
<1>2. step \in [1..n -> [X -> X]]
  <2>1. ASSUME NEW i \in 1..n, NEW x \in X
        PROVE  Append(x, i) \in X
    BY <1>1
  <2> HIDE DEF X, n
  <2> QED
    BY <2>1
<1>3. PICK names : IsRun(names, n, X, <<>>, step)
  <2> HIDE DEF X, n, step
  <2> QED
    BY <1>1, <1>2, RunExists
<1>4. names \in [0..n -> X] /\ names[0] = <<>> /\ \A i \in 1..n : names[i] = step[i][names[i - 1]]
  BY <1>3 DEF IsRun
<1> HIDE DEF X, n
<1>5. ASSUME NEW i \in 1..n
      PROVE  names[i] = IF QueryableCSV(scope[i]) THEN Append(names[i - 1], i) ELSE names[i - 1]
  <2>1. i - 1 \in 0..n
    BY <1>1
  <2>2. names[i - 1] \in X
    BY <1>4, <2>1
  <2> QED
    BY <1>4, <2>2
<1> HIDE DEF step
<1> QED
  BY <1>4, <1>5 DEF AreQueried, n, X

(* If some asset is a CSV file, one is read.                                *)
LEMMA SomeQueried ==
  ASSUME NEW scope \in Seq(File), NEW names, AreQueried(names, scope),
         NEW a \in DOMAIN scope, QueryableCSV(scope[a])
  PROVE  Len(names[Len(scope)]) >= 1
<1> DEFINE n == Len(scope)
<1>1. n \in Nat /\ DOMAIN scope = 1..n /\ a \in 1..n
  OBVIOUS
<1>2. /\ \A i \in 0..n : names[i] \in Seq(1..n)
      /\ \A i \in 1..n :
           names[i] = IF QueryableCSV(scope[i]) THEN Append(names[i - 1], i) ELSE names[i - 1]
  BY <1>1 DEF AreQueried
<1> HIDE DEF n
<1> DEFINE kept == {i \in Nat : a <= i /\ i <= n => Len(names[i]) >= 1}
<1>3. 0 \in kept
  BY <1>1
<1>4. ASSUME NEW i \in Nat, i \in kept
      PROVE  i + 1 \in kept
  <2> SUFFICES ASSUME a <= i + 1, i + 1 <= n
               PROVE  Len(names[i + 1]) >= 1
    OBVIOUS
  <2>1. i + 1 \in 1..n /\ (i + 1) - 1 = i /\ i \in 0..n
    BY <1>1
  <2>2. names[i] \in Seq(1..n) /\ Len(names[i]) \in Nat
    BY <1>2, <2>1
  <2>3. names[i + 1] = IF QueryableCSV(scope[i + 1]) THEN Append(names[i], i + 1) ELSE names[i]
    BY <1>2, <2>1
  <2>4. CASE QueryableCSV(scope[i + 1])
    <3>1. Len(Append(names[i], i + 1)) = Len(names[i]) + 1
      BY <2>2
    <3> QED
      BY <2>2, <2>3, <2>4, <3>1
  <2>5. CASE ~QueryableCSV(scope[i + 1])
    <3>1. a <= i /\ i <= n
      BY <1>1, <2>1, <2>5
    <3> QED
      BY <1>4, <2>3, <2>5, <3>1
  <2> QED
    BY <2>4, <2>5
<1> HIDE DEF kept
<1>5. Nat \subseteq kept
  BY <1>3, <1>4, Induction
<1>6. Len(names[n]) >= 1
  BY <1>1, <1>5 DEF kept
<1> QED
  BY <1>6 DEF n

(* A file's part of a page.  It has the page's whole limit if the files     *)
(* before it have no rows on the page.                                      *)
IsPart(files, k, scope, q, from) ==
  \E limit \in 0..Limit(q) :
    /\ files[k].answer = QueryFile(scope[files[k].asset], q, from, limit)
    /\ limit = Limit(q) \/ \E j \in 1..(k - 1) : files[j].answer.rows # <<>>

Parts(scope, q, from) ==
  {[asset |-> a, answer |-> QueryFile(scope[a], q, from, limit)] :
     a \in DOMAIN scope, limit \in Nat}

(* The parts of a page that is made up as far as these assets.              *)
IsPage(result, names, scope, q, from) ==
  /\ result.files \in Seq(Parts(scope, q, from)) /\ Len(result.files) = Len(names)
  /\ \A k \in 1..Len(names) :
       result.files[k].asset = names[k] /\ IsPart(result.files, k, scope, q, from)
  /\ result.remaining \in 0..Limit(q)
  /\ \/ result.remaining = Limit(q)
     \/ \E j \in 1..Len(names) : result.files[j].answer.rows # <<>>

(* One asset.                                                               *)
LEMMA AssetMakesPart ==
  ASSUME NEW scope \in Seq(File), NEW q, Limit(q) \in Nat, NEW from \in Nat,
         NEW names \in Seq(DOMAIN scope), NEW a \in DOMAIN scope,
         NEW result \in [files: Seq(Parts(scope, q, from)), remaining: Nat, skipped: Seq(Nat)],
         IsPage(result, names, scope, q, from)
  PROVE  IsPage(QueryAsset(scope, q, from, result, a),
                IF QueryableCSV(scope[a]) THEN Append(names, a) ELSE names, scope, q, from)
<1> DEFINE files == result.files
           n == Len(names)
           limit == result.remaining
           answer == QueryFile(scope[a], q, from, limit)
           part == [asset |-> a, answer |-> answer]
           next == QueryAsset(scope, q, from, result, a)
           longer == Append(files, part)
<1>1. CASE ~QueryableCSV(scope[a])
  <2>1. next.files = files /\ next.remaining = limit
    BY <1>1 DEF QueryAsset
  <2> HIDE DEF next
  <2>2. IsPage(next, names, scope, q, from)
    BY <2>1 DEF IsPage, IsPart
  <2> QED
    BY <1>1, <2>2 DEF next
<1>2. CASE QueryableCSV(scope[a])
  <2>1. next.files = longer /\ next.remaining = limit - Len(answer.rows)
    BY <1>2 DEF QueryAsset
  <2> HIDE DEF next
  <2>2. /\ files \in Seq(Parts(scope, q, from)) /\ Len(files) = n /\ n \in Nat
        /\ limit \in 0..Limit(q) /\ limit \in Nat
    BY DEF IsPage
  <2>3. /\ answer.rows \in Seq(Rows(scope[a], q)) /\ Len(answer.rows) \in Nat
        /\ Len(answer.rows) <= limit
    <3>1. scope[a] \in File
      BY ScopeTyped
    <3> HIDE DEF limit
    <3>2. /\ answer.rows \in Seq(Rows(scope[a], q))
          /\ Continues(answer, AllRows(scope[a], q), from, limit)
      BY <2>2, <3>1, FileContinues
    <3> HIDE DEF answer
    <3> QED
      BY <3>2 DEF Continues
  <2>4. part \in Parts(scope, q, from)
    BY <2>2 DEF Parts
  <2>5. /\ longer \in Seq(Parts(scope, q, from)) /\ Len(longer) = n + 1 /\ longer[n + 1] = part
        /\ \A j \in 1..n : longer[j] = files[j]
    <3> DEFINE S == Parts(scope, q, from)
    <3> HIDE DEF part, files, S
    <3>1. files \in Seq(S) /\ part \in S
      BY <2>2, <2>4 DEF S
    <3>2. /\ longer \in Seq(S) /\ Len(longer) = Len(files) + 1 /\ longer[Len(files) + 1] = part
          /\ \A j \in 1..Len(files) : longer[j] = files[j]
      BY <3>1, AppendProperties
    <3> HIDE DEF longer, n
    <3> QED
      BY <2>2, <3>2 DEF S
  <2>6. /\ Len(Append(names, a)) = n + 1 /\ Append(names, a)[n + 1] = a
        /\ \A k \in 1..n : Append(names, a)[k] = names[k]
    OBVIOUS
  <2> HIDE DEF longer
  <2>7. ASSUME NEW k \in 1..(n + 1)
        PROVE  longer[k].asset = Append(names, a)[k] /\ IsPart(longer, k, scope, q, from)
    <3>1. CASE k = n + 1
      <4>1. longer[k] = part /\ Append(names, a)[k] = a
        BY <2>5, <2>6, <3>1
      <4>2. limit = Limit(q) \/ \E j \in 1..n : longer[j].answer.rows # <<>>
        BY <2>5 DEF IsPage
      <4>3. (n + 1) - 1 = n
        BY <2>2
      <4> HIDE DEF n
      <4>4. limit = Limit(q) \/ \E j \in 1..(k - 1) : longer[j].answer.rows # <<>>
        BY <3>1, <4>2, <4>3
      <4> HIDE DEF limit
      <4>5. /\ longer[k].asset = a
            /\ longer[k].answer = QueryFile(scope[longer[k].asset], q, from, limit)
        BY <4>1
      <4> QED
        BY <2>2, <4>1, <4>4, <4>5 DEF IsPart
    <3>2. CASE k # n + 1
      <4>1. k \in 1..n
        BY <2>2, <3>2
      <4>2. files[k].asset = names[k] /\ IsPart(files, k, scope, q, from)
        BY <4>1 DEF IsPage
      <4>3. \A j \in 1..(k - 1) : longer[j] = files[j]
        BY <2>2, <2>5, <4>1
      <4>4. longer[k] = files[k] /\ Append(names, a)[k] = names[k]
        BY <2>5, <2>6, <4>1
      <4> HIDE DEF files
      <4>5. IsPart(longer, k, scope, q, from)
        BY <4>2, <4>3, <4>4 DEF IsPart
      <4> QED
        BY <4>2, <4>4, <4>5
    <3> QED
      BY <3>1, <3>2
  <2>8. next.remaining \in 0..Limit(q)
    BY <2>1, <2>2, <2>3
  <2>9. next.remaining = Limit(q) \/ \E j \in 1..(n + 1) : longer[j].answer.rows # <<>>
    <3>1. CASE answer.rows = <<>>
      <4>1. Len(answer.rows) = 0
        BY <3>1
      <4>2. next.remaining = limit
        <5> HIDE DEF answer, limit
        <5> QED
          BY <2>1, <2>2, <4>1
      <4>3. limit = Limit(q) \/ \E j \in 1..n : files[j].answer.rows # <<>>
        BY DEF IsPage
      <4>4. 1..n \subseteq 1..(n + 1)
        BY <2>2
      <4> HIDE DEF limit, files, n, answer
      <4> QED
        BY <2>5, <4>2, <4>3, <4>4
    <3>2. CASE answer.rows # <<>>
      <4>1. n + 1 \in 1..(n + 1) /\ longer[n + 1].answer = answer
        BY <2>2, <2>5
      <4> HIDE DEF answer, n
      <4> QED
        BY <3>2, <4>1
    <3> QED
      BY <3>1, <3>2
  <2> DEFINE more == Append(names, a)
  <2>10. IsPage(next, more, scope, q, from)
    <3>1. Len(more) = n + 1
      BY <2>6
    <3>2. \A k \in 1..(n + 1) : longer[k].asset = more[k] /\ IsPart(longer, k, scope, q, from)
      BY <2>7
    <3> HIDE DEF more, n
    <3> QED
      BY <2>1, <2>5, <2>8, <2>9, <3>1, <3>2 DEF IsPage
  <2> QED
    BY <1>2, <2>10 DEF next
<1> QED
  BY <1>1, <1>2

(* A page is a list of parts after each asset.                              *)
LEMMA QueryAssetTyped ==
  ASSUME NEW scope \in Seq(File), NEW q, NEW from \in Nat, NEW a \in DOMAIN scope,
         NEW result \in [files: Seq(Parts(scope, q, from)), remaining: Nat, skipped: Seq(Nat)]
  PROVE  QueryAsset(scope, q, from, result, a)
           \in [files: Seq(Parts(scope, q, from)), remaining: Nat, skipped: Seq(Nat)]
<1> DEFINE limit == result.remaining
           answer == QueryFile(scope[a], q, from, limit)
           part == [asset |-> a, answer |-> answer]
           next == QueryAsset(scope, q, from, result, a)
<1>1. scope[a] \in File /\ a \in Nat
  BY ScopeTyped
<1>2. part \in Parts(scope, q, from)
  BY DEF Parts
<1>3. limit - Len(answer.rows) \in Nat
  <2>1. limit \in Nat
    OBVIOUS
  <2> HIDE DEF limit
  <2>2. /\ answer.rows \in Seq(Rows(scope[a], q))
        /\ Continues(answer, AllRows(scope[a], q), from, limit)
    BY <1>1, <2>1, FileContinues
  <2> HIDE DEF answer
  <2> QED
    BY <2>1, <2>2 DEF Continues
<1>4. Append(result.files, part) \in Seq(Parts(scope, q, from))
  <2> HIDE DEF part
  <2> QED
    BY <1>2
<1>5. Append(result.skipped, a) \in Seq(Nat)
  BY <1>1
<1>6. next = IF ~QueryableCSV(scope[a]) THEN [result EXCEPT !.skipped = Append(@, a)]
             ELSE [result EXCEPT !.files = Append(@, part), !.remaining = @ - Len(answer.rows)]
  BY DEF QueryAsset
<1> HIDE DEF next, part, answer
<1>7. next \in [files: Seq(Parts(scope, q, from)), remaining: Nat, skipped: Seq(Nat)]
  BY <1>3, <1>4, <1>5, <1>6
<1> QED
  BY <1>7 DEF next

(* A page has a part for each CSV file of the scope, whatever its offset.   *)
LEMMA PageHasParts ==
  ASSUME NEW scope \in Seq(File), NEW q, Limit(q) \in Nat, NEW from \in Nat,
         NEW names, AreQueried(names, scope)
  PROVE  IsPage(CSVQuery(scope, q, from), names[Len(scope)], scope, q, from)
<1> DEFINE n == Len(scope)
           X == [files: Seq(Parts(scope, q, from)), remaining: Nat, skipped: Seq(Nat)]
           none == [files |-> <<>>, remaining |-> Limit(q), skipped |-> <<>>]
           positions == [i \in DOMAIN scope |-> i]
           Steps(iter) ==
             iter = [s \in SUBSET (DOMAIN positions) |->
                       IF s = {} THEN none
                       ELSE LET x == Max(s)
                            IN  QueryAsset(scope, q, from, iter[s \ {x}], positions[x])]
           run == CHOOSE iter : Steps(iter)
           step == [i \in 1..n |-> [x \in X |-> QueryAsset(scope, q, from, x, i)]]
<1>1. n \in Nat /\ DOMAIN scope = 1..n
  OBVIOUS
<1>2. none \in X /\ IsPage(none, <<>>, scope, q, from)
  BY DEF IsPage
<1>3. CSVQuery(scope, q, from) = run[DOMAIN positions]
  BY DEF CSVQuery, FoldLeftDomain, FoldLeft, MapThenFoldSet
<1>4. /\ DOMAIN positions = 1..n /\ \A i \in 1..n : positions[i] = i
      /\ \A s \in SUBSET (1..n) : s # {} => Max(s) \in 1..n /\ s \ {Max(s)} \in SUBSET (1..n)
  BY <1>1, Greatest
<1>5. PICK h : IsFold(h, n, X, none, step)
  <2>1. step \in [1..n -> [X -> X]]
    <3>1. \A i \in 1..n : \A x \in X : QueryAsset(scope, q, from, x, i) \in X
      BY <1>1, QueryAssetTyped
    <3> HIDE DEF X, n
    <3> QED
      BY <3>1
  <2> HIDE DEF step, n, X, none
  <2> QED
    BY <1>1, <1>2, <2>1, FoldExists
<1> HIDE DEF none, X
<1>6. Steps(h)
  BY <1>4, <1>5 DEF IsFold
<1>7. Steps(run)
  <2> HIDE DEF Steps
  <2> QED
    BY <1>6
<1> HIDE DEF run, positions
<1>8. run[{}] = none
  BY <1>7
<1>9. ASSUME NEW i \in 1..n
      PROVE  run[1..i] = QueryAsset(scope, q, from, run[1..(i - 1)], i)
  <2>1. /\ 1..i \in SUBSET (1..n) /\ 1..i # {}
        /\ Max(1..i) = i /\ (1..i) \ {i} = 1..(i - 1)
    <3> HIDE DEF n
    <3> QED
      BY <1>1, LastOf
  <2>2. 1..i \in SUBSET (DOMAIN positions) /\ positions[i] = i
    BY <1>4, <2>1
  <2>3. run[1..i] = QueryAsset(scope, q, from, run[(1..i) \ {Max(1..i)}], positions[Max(1..i)])
    BY <1>7, <2>1, <2>2
  <2> QED
    BY <2>1, <2>2, <2>3
<1> HIDE DEF Steps
<1>10. /\ names[0] = <<>> /\ \A i \in 0..n : names[i] \in Seq(DOMAIN scope)
       /\ \A i \in 1..n :
            names[i] = IF QueryableCSV(scope[i]) THEN Append(names[i - 1], i) ELSE names[i - 1]
  BY DEF AreQueried
<1> DEFINE Kept(i) == run[1..i] \in X /\ IsPage(run[1..i], names[i], scope, q, from)
           kept == {i \in Nat : i <= n => Kept(i)}
<1>11. 0 \in kept
  <2>1. 1..0 = {}
    OBVIOUS
  <2> QED
    BY <1>2, <1>8, <1>10, <2>1
<1>12. ASSUME NEW i \in Nat, i \in kept
       PROVE  i + 1 \in kept
  <2> SUFFICES ASSUME i + 1 <= n
               PROVE  Kept(i + 1)
    OBVIOUS
  <2>1. Kept(i) /\ i + 1 \in 1..n /\ (i + 1) - 1 = i /\ i \in 0..n
    BY <1>1, <1>12
  <2>2. /\ run[1..(i + 1)] = QueryAsset(scope, q, from, run[1..i], i + 1)
        /\ names[i + 1] = IF QueryableCSV(scope[i + 1]) THEN Append(names[i], i + 1) ELSE names[i]
        /\ names[i] \in Seq(DOMAIN scope) /\ i + 1 \in DOMAIN scope
    BY <1>1, <1>9, <1>10, <2>1
  <2>3. run[1..i] \in [files: Seq(Parts(scope, q, from)), remaining: Nat, skipped: Seq(Nat)]
    BY <2>1 DEF X
  <2>4. run[1..(i + 1)] \in X
    BY <2>2, <2>3, QueryAssetTyped DEF X
  <2>5. IsPage(run[1..(i + 1)], names[i + 1], scope, q, from)
    BY <2>1, <2>2, <2>3, AssetMakesPart
  <2> QED
    BY <2>4, <2>5
<1> HIDE DEF kept
<1>13. Nat \subseteq kept
  BY <1>11, <1>12, Induction
<1>14. Kept(n)
  BY <1>1, <1>13 DEF kept
<1> QED
  BY <1>3, <1>4, <1>14

(* These are the rows of the first pages, of so many places in all: either  *)
(* every place is taken or no row is left.                                  *)
AreFirst(rows, all, places) ==
  /\ Len(rows) <= Len(all)
  /\ \A j \in 1..Len(rows) : rows[j] = all[j]
  /\ Len(rows) = places \/ (Len(rows) = Len(all) /\ Len(all) <= places)

(* The part of one more page.                                               *)
LEMMA PartJoins ==
  ASSUME NEW R, NEW all \in Seq(R), NEW from \in Nat, NEW limit \in Nat,
         NEW was \in Seq(R), AreFirst(was, all, from), NEW part \in Seq(R),
         Len(part) <= limit,
         \A j \in 1..Len(part) : from + j <= Len(all) /\ part[j] = all[from + j],
         Len(part) = limit \/ from + Len(part) >= Len(all)
  PROVE  was \o part \in Seq(R) /\ AreFirst(was \o part, all, from + limit)
<1> DEFINE now == was \o part
<1>1. /\ Len(was) \in Nat /\ Len(part) \in Nat /\ Len(all) \in Nat
      /\ now \in Seq(R) /\ Len(now) = Len(was) + Len(part)
      /\ \A j \in 1..(Len(was) + Len(part)) :
           now[j] = IF j <= Len(was) THEN was[j] ELSE part[j - Len(was)]
  BY ConcatProperties
<1>2. /\ Len(was) <= Len(all) /\ \A j \in 1..Len(was) : was[j] = all[j]
      /\ Len(was) = from \/ (Len(was) = Len(all) /\ Len(all) <= from)
  BY DEF AreFirst
<1>3. Len(part) # 0 => Len(was) = from /\ from + Len(part) <= Len(all)
  <2>1. Len(part) # 0 => Len(part) \in 1..Len(part)
    BY <1>1
  <2> QED
    BY <1>1, <1>2, <2>1
<1> HIDE DEF now
<1>4. ASSUME NEW j \in 1..Len(now)
      PROVE  now[j] = all[j]
  <2>1. CASE j <= Len(was)
    BY <1>1, <1>2, <2>1
  <2>2. CASE ~(j <= Len(was))
    <3>1. /\ Len(was) \in Nat /\ Len(part) \in Nat /\ j \in 1..(Len(was) + Len(part))
          /\ Len(part) # 0 => Len(was) = from
      BY <1>1, <1>3
    <3>2. j - Len(was) \in 1..Len(part) /\ Len(part) # 0
      BY <2>2, <3>1
    <3>3. Len(was) = from
      BY <3>1, <3>2
    <3>4. j \in Nat /\ from + (j - from) = j
      BY <3>1
    <3> QED
      BY <1>1, <2>2, <3>2, <3>3, <3>4
  <2> QED
    BY <2>1, <2>2
<1>5. /\ Len(now) <= Len(all)
      /\ Len(now) = from + limit \/ (Len(now) = Len(all) /\ Len(all) <= from + limit)
  <2> DEFINE w == Len(was)
             l == Len(part)
             m == Len(all)
  <2>1. /\ w \in Nat /\ l \in Nat /\ m \in Nat /\ l <= limit /\ w <= m
        /\ l = limit \/ from + l >= m
        /\ w = from \/ (w = m /\ m <= from)
        /\ l # 0 => w = from /\ from + l <= m
    BY <1>1, <1>2, <1>3
  <2>2. Len(now) = w + l
    BY <1>1
  <2> HIDE DEF w, l, m
  <2>3. w + l <= m /\ (w + l = from + limit \/ (w + l = m /\ m <= from + limit))
    BY <2>1
  <2> QED
    BY <2>2, <2>3 DEF m
<1> QED
  BY <1>1, <1>4, <1>5 DEF AreFirst, now

(* The rows of a page are those that the page's offset says.                *)
ArePageOf(rows, p, all, limit) ==
  /\ Len(rows) <= limit
  /\ \A j \in 1..Len(rows) :
       (p - 1) * limit + j <= Len(all) /\ rows[j] = all[(p - 1) * limit + j]
  /\ Len(rows) = limit \/ (p - 1) * limit + Len(rows) >= Len(all)

(* Pages to the last row are all rows of the file, once they are put        *)
(* together.                                                                *)
LEMMA PagesJoin ==
  ASSUME NEW R, NEW all \in Seq(R), NEW limit \in Nat, NEW parts \in Seq(Seq(R)), parts # <<>>,
         \A p \in 1..Len(parts) : ArePageOf(parts[p], p, all, limit),
         (Len(parts) - 1) * limit + Len(parts[Len(parts)]) >= Len(all)
  PROVE  FlattenSeq(parts) = all
<1> DEFINE n == Len(parts)
           X == Seq(R)
           Steps(flat) ==
             flat = [i \in 1..n |-> IF i = 1 THEN parts[i] ELSE flat[i - 1] \o parts[i]]
           flat == CHOOSE flat : Steps(flat)
           step == [i \in 1..n |-> [x \in X |-> x \o parts[i]]]
<1>1. n \in Nat \ {0} /\ DOMAIN parts = 1..n /\ \A i \in 1..n : parts[i] \in X
  OBVIOUS
<1>2. FlattenSeq(parts) = flat[n]
  BY <1>1 DEF FlattenSeq
<1>3. PICK run : IsRun(run, n, X, <<>>, step)
  <2>1. step \in [1..n -> [X -> X]]
    <3>1. \A x, y \in X : x \o y \in X
      BY ConcatProperties
    <3> HIDE DEF X, n
    <3> QED
      BY <1>1, <3>1
  <2>2. <<>> \in X
    OBVIOUS
  <2> HIDE DEF step, n, X
  <2> QED
    BY <1>1, <2>1, <2>2, RunExists
<1>4. /\ run \in [0..n -> X] /\ run[0] = <<>>
      /\ \A i \in 1..n : run[i] = step[i][run[i - 1]]
  BY <1>3 DEF IsRun
<1>5. \A x \in X : <<>> \o x = x
  OBVIOUS
<1>6. \A i \in 1..n : run[i] \in X /\ run[i] = IF i = 1 THEN parts[i] ELSE run[i - 1] \o parts[i]
  <2> SUFFICES ASSUME NEW i \in 1..n
               PROVE  run[i] \in X /\ run[i] = IF i = 1 THEN parts[i] ELSE run[i - 1] \o parts[i]
    OBVIOUS
  <2> HIDE DEF X, n
  <2>1. i \in 0..n /\ i - 1 \in 0..n /\ (i = 1 => i - 1 = 0)
    BY <1>1
  <2>2. run[i - 1] \in X /\ run[i] \in X
    BY <1>4, <2>1
  <2>3. run[i] = run[i - 1] \o parts[i]
    BY <1>4, <2>2
  <2>4. i = 1 => run[i] = <<>> \o parts[i]
    BY <1>4, <2>1, <2>3
  <2> QED
    BY <1>1, <1>5, <2>2, <2>3, <2>4
<1>7. Steps([i \in 1..n |-> run[i]])
  <2> DEFINE g == [i \in 1..n |-> run[i]]
  <2>1. \A i \in 1..n : i # 1 => i - 1 \in 1..n
    BY <1>1
  <2> HIDE DEF X, n
  <2>2. \A i \in 1..n : g[i] = IF i = 1 THEN parts[i] ELSE g[i - 1] \o parts[i]
    BY <1>6, <2>1
  <2> QED
    BY <2>2
<1>8. Steps(flat)
  <2> HIDE DEF Steps
  <2> QED
    BY <1>7
<1> HIDE DEF flat
<1>9. /\ flat[1] = parts[1]
      /\ \A i \in 1..n : i # 1 => flat[i] = flat[i - 1] \o parts[i]
  <2> DEFINE entry == [i \in 1..n |-> IF i = 1 THEN parts[i] ELSE flat[i - 1] \o parts[i]]
  <2>1. flat = entry
    BY <1>8
  <2>2. 1 \in 1..n
    BY <1>1
  <2> HIDE DEF n
  <2>3. \A i \in 1..n : entry[i] = IF i = 1 THEN parts[i] ELSE flat[i - 1] \o parts[i]
    OBVIOUS
  <2> HIDE DEF entry
  <2>4. \A i \in 1..n : flat[i] = IF i = 1 THEN parts[i] ELSE flat[i - 1] \o parts[i]
    BY <2>1, <2>3
  <2> QED
    BY <2>2, <2>4
<1> HIDE DEF Steps
<1> DEFINE Kept(p) == /\ flat[p] \in X /\ Len(flat[p]) <= Len(all)
                      /\ \A j \in 1..Len(flat[p]) : flat[p][j] = all[j]
                      /\ \/ Len(flat[p]) = p * limit
                         \/ (Len(flat[p]) = Len(all) /\ Len(all) <= p * limit)
           kept == {p \in Nat : p + 1 <= n => Kept(p + 1)}
<1>10. \A p \in Nat : p * limit \in Nat /\ (p + 1) * limit = p * limit + limit
  OBVIOUS
<1>11. ASSUME NEW p \in 1..n
       PROVE  /\ parts[p] \in X /\ Len(parts[p]) \in Nat /\ Len(parts[p]) <= limit
              /\ \A j \in 1..Len(parts[p]) :
                   (p - 1) * limit + j <= Len(all) /\ parts[p][j] = all[(p - 1) * limit + j]
              /\ Len(parts[p]) = limit \/ (p - 1) * limit + Len(parts[p]) >= Len(all)
              /\ Len(parts[p]) # 0 => (p - 1) * limit + Len(parts[p]) <= Len(all)
  <2>1. parts[p] \in X /\ Len(parts[p]) \in Nat
    BY <1>1
  <2>2. Len(parts[p]) # 0 => Len(parts[p]) \in 1..Len(parts[p])
    BY <2>1
  <2>3. ArePageOf(parts[p], p, all, limit)
    OBVIOUS
  <2> QED
    BY <2>1, <2>2, <2>3 DEF ArePageOf
<1>12. 0 \in kept
  <2>1. 1 \in 1..n /\ (1 - 1) * limit = 0 /\ 1 * limit = limit
    BY <1>1
  <2>2. /\ parts[1] \in X /\ Len(parts[1]) \in Nat /\ Len(parts[1]) <= limit
        /\ \A j \in 1..Len(parts[1]) : parts[1][j] = all[0 + j]
        /\ Len(parts[1]) = limit \/ 0 + Len(parts[1]) >= Len(all)
        /\ Len(parts[1]) # 0 => 0 + Len(parts[1]) <= Len(all)
    BY <1>11, <2>1
  <2>3. Len(all) \in Nat
    OBVIOUS
  <2>4. \A j \in 1..Len(parts[1]) : parts[1][j] = all[j]
    BY <2>2
  <2>5. Kept(1)
    <3> HIDE DEF X
    <3> QED
      BY <1>9, <2>1, <2>2, <2>3, <2>4
  <2> HIDE DEF Kept
  <2> QED
    BY <2>5
<1>13. ASSUME NEW p \in Nat, p \in kept
       PROVE  p + 1 \in kept
  <2> SUFFICES ASSUME (p + 1) + 1 <= n
               PROVE  Kept((p + 1) + 1)
    OBVIOUS
  <2> DEFINE q == p + 1
             was == flat[q]
             part == parts[q + 1]
             from == q * limit
             now == flat[q + 1]
  <2>1. q \in 1..n /\ q + 1 \in 1..n /\ q + 1 # 1 /\ (q + 1) - 1 = q /\ q \in Nat
    BY <1>1
  <2>2. now = was \o part
    BY <1>9, <2>1
  <2>3. Kept(q)
    <3>1. p + 1 <= n
      BY <1>1, <2>1
    <3> HIDE DEF Kept
    <3> QED
      BY <1>13, <3>1
  <2>4. from \in Nat /\ (q + 1) * limit = from + limit
    BY <1>10, <2>1
  <2> HIDE DEF from
  <2>5. /\ part \in X /\ Len(part) \in Nat /\ Len(part) <= limit
        /\ \A j \in 1..Len(part) : from + j <= Len(all) /\ part[j] = all[from + j]
        /\ Len(part) = limit \/ from + Len(part) >= Len(all)
        /\ Len(part) # 0 => from + Len(part) <= Len(all)
    BY <1>11, <2>1 DEF from
  <2>6. /\ was \in X /\ Len(was) <= Len(all)
        /\ \A j \in 1..Len(was) : was[j] = all[j]
        /\ Len(was) = from \/ (Len(was) = Len(all) /\ Len(all) <= from)
    <3> HIDE DEF X, was, q
    <3> QED
      BY <2>3 DEF from, was
  <2>7. now \in X /\ AreFirst(now, all, from + limit)
    <3> HIDE DEF was, part, q
    <3>1. AreFirst(was, all, from)
      BY <2>6 DEF AreFirst
    <3>2. was \o part \in X /\ AreFirst(was \o part, all, from + limit)
      BY <2>4, <2>5, <2>6, <3>1, PartJoins
    <3> QED
      BY <2>2, <3>2
  <2>8. Kept(q + 1)
    <3> HIDE DEF X
    <3> QED
      BY <2>4, <2>7 DEF AreFirst
  <2> HIDE DEF Kept
  <2> QED
    BY <2>8 DEF q
<1> HIDE DEF kept
<1>14. Nat \subseteq kept
  BY <1>12, <1>13, Induction
<1>15. Kept(n)
  <2>1. n - 1 \in Nat /\ (n - 1) + 1 = n
    BY <1>1
  <2>2. n - 1 \in kept
    BY <1>14, <2>1
  <2> HIDE DEF Kept, n
  <2> QED
    BY <1>1, <2>1, <2>2 DEF kept
<1>16. Len(flat[n]) = Len(all)
  <2>1. n * limit = (n - 1) * limit + limit
    <3>1. n - 1 \in Nat /\ (n - 1) + 1 = n
      BY <1>1
    <3> HIDE DEF n
    <3> QED
      BY <1>10, <3>1
  <2>2. (n - 1) * limit \in Nat
    <3>1. n - 1 \in Nat
      BY <1>1
    <3> HIDE DEF n
    <3> QED
      BY <1>10, <3>1
  <2> DEFINE from == (n - 1) * limit
  <2> HIDE DEF from
  <2>3. n \in 1..n
    BY <1>1
  <2>4. Len(parts[n]) \in Nat /\ Len(parts[n]) <= limit
    BY <1>11, <2>3
  <2>5. from + Len(parts[n]) >= Len(all) /\ n * limit = from + limit /\ from \in Nat
    BY <2>1, <2>2 DEF from
  <2>6. Len(flat[n]) <= Len(all) /\ (Len(flat[n]) = from + limit \/ Len(flat[n]) = Len(all))
    BY <1>15, <2>5
  <2>7. Len(flat[n]) \in Nat /\ Len(all) \in Nat
    BY <1>15
  <2> HIDE DEF n, X
  <2> QED
    BY <2>4, <2>5, <2>6, <2>7
<1>17. flat[n] \in Seq(R) /\ \A j \in 1..Len(all) : flat[n][j] = all[j]
  BY <1>15, <1>16
<1> HIDE DEF n
<1>18. flat[n] = all
  <2> DEFINE whole == flat[n]
  <2>1. /\ whole = [j \in 1..Len(whole) |-> whole[j]]
        /\ all = [j \in 1..Len(all) |-> all[j]]
    <3> HIDE DEF whole
    <3>1. whole \in Seq(R)
      BY <1>17 DEF whole
    <3> QED
      BY <3>1
  <2>2. Len(whole) = Len(all) /\ \A j \in 1..Len(all) : whole[j] = all[j]
    BY <1>16, <1>17
  <2> HIDE DEF whole
  <2>3. whole = all
    BY <2>1, <2>2
  <2> QED
    BY <2>3 DEF whole
<1> QED
  BY <1>2, <1>18

-----------------------------------------------------------------------------
(* filterMatches orders the cells of every column, numeric or not.          *)
LEMMA ComparesThreeWays ==
  ASSUME NEW cell, NEW value, NEW numeric
  PROVE  Compare(cell, value, numeric) \in {-1, 0, 1}
<1>1. \A s, t : CompareTexts(s, t) \in {-1, 0, 1}
  BY DEF CompareTexts
<1>2. \A m, n : CompareNumbers(m, n) \in {-1, 0, 1}
  BY DEF CompareNumbers
<1> QED
  BY <1>1, <1>2 DEF Compare

(* The operators of a filter agree with that order.                         *)
LEMMA ComparisonsAgree ==
  ASSUME NEW cell, NEW value, NEW numeric
  PROVE  LET Holds(operator) == FilterMatches(cell, operator, value, numeric) IN
         /\ Cardinality({o \in {"<", "=", ">"} : Holds(o)}) = 1
         /\ Holds("!=") <=> ~Holds("=")
         /\ Holds(">=") <=> Holds(">") \/ Holds("=")
         /\ Holds("<=") <=> Holds("<") \/ Holds("=")
<1> DEFINE Holds(operator) == FilterMatches(cell, operator, value, numeric)
           order == Compare(cell, value, numeric)
           true == {o \in {"<", "=", ">"} : Holds(o)}
<1>1. order \in {-1, 0, 1}
  BY ComparesThreeWays
<1>2. /\ Holds("=") <=> order = 0
      /\ Holds("!=") <=> order # 0
      /\ Holds(">") <=> order > 0
      /\ Holds("<") <=> order < 0
      /\ Holds(">=") <=> order >= 0
      /\ Holds("<=") <=> order <= 0
  BY DEF FilterMatches
<1> HIDE DEF Holds, order
<1>3. /\ order = -1 => true = {"<"}
      /\ order = 0 => true = {"="}
      /\ order = 1 => true = {">"}
  BY <1>2
<1>4. \E o : true = {o}
  BY <1>1, <1>3
<1>5. Cardinality(true) = 1
  BY <1>4, FS_Singleton
<1>6. /\ Holds("!=") <=> ~Holds("=")
      /\ Holds(">=") <=> Holds(">") \/ Holds("=")
      /\ Holds("<=") <=> Holds("<") \/ Holds("=")
  BY <1>1, <1>2
<1> QED
  BY <1>5, <1>6 DEF Holds

(* Of every cell and value, exactly one of <, = and > holds, and the other  *)
(* operators of a filter agree with them (filterMatches).                   *)
THEOREM OrderStaysTotal == Spec => []OrderIsTotal
<1>1. OrderIsTotal
  BY ComparisonsAgree DEF OrderIsTotal
<1> QED
  BY <1>1, PTL

-----------------------------------------------------------------------------
(* A request that was answered once is refused only for its offset.         *)
Asking ==
  /\ assets \in Seq(Files) /\ request \in Queries /\ offset \in Nat
  /\ phase \in {"asking", "finished", "refused"}
  /\ pages # <<>> /\ Refused(request, offset) => offset > MaxCSVOffset
  /\ phase = "refused" => Refused(request, offset)

(* csvQuery's limit is a number of rows, whatever was asked for.             *)
LEMMA LimitIsNatural ==
  ASSUME NEW q \in Queries, q.operation = "csv_query", q.limit >= 0
  PROVE  Limit(q) \in Nat
<1>1. q \in Query
  BY InputsAreTyped
<1>2. q.limit \in Int
  BY <1>1 DEF Query
<1> QED
  BY <1>2, LimitsArePositive DEF Limit

(* No answer and no refusal takes that away.                                *)
LEMMA AskingStays == Asking /\ [Next]_vars => Asking'
<1> SUFFICES ASSUME Asking, [Next]_vars
             PROVE  Asking'
  OBVIOUS
<1> USE DEF Asking
<1>1. CASE Refuse
  BY <1>1 DEF Refuse, Refused
<1>2. CASE Search
  <2>1. request.operation = "text_search" /\ ~Refused(request, offset)
    BY <1>2 DEF Search
  <2>2. UNCHANGED <<assets, request, offset>> /\ phase' = "finished"
    BY <1>2 DEF Search
  <2>3. ~Refused(request, offset)'
    BY <2>1, <2>2 DEF Refused
  <2> QED
    BY <2>2, <2>3
<1>3. CASE NextPage
  <2>1. /\ request.operation = "csv_query" /\ ~Refused(request, offset)
        /\ UNCHANGED <<assets, request>> /\ phase' \in {"asking", "finished"}
        /\ offset' = offset + Limit(request)
    BY <1>3 DEF NextPage
  <2>2. offset \in Nat /\ request.limit \in Int
    BY <2>1, InputsAreTyped DEF Query
  <2>3. ~(request.limit < 0)
    BY <2>1 DEF Refused, OutOfBounds
  <2>4. offset' \in Nat
    BY <2>1, <2>2, <2>3, LimitIsNatural
  <2>5. Refused(request, offset)' => offset' > MaxCSVOffset
    BY <2>1 DEF Refused, OutOfBounds
  <2> QED
    BY <2>1, <2>4, <2>5
<1>4. CASE UNCHANGED vars
  BY <1>4 DEF vars, Refused
<1> QED
  BY <1>1, <1>2, <1>3, <1>4 DEF Next

(* Nothing was answered yet.                                                *)
LEMMA AskingFirst == Init => Asking
<1> SUFFICES ASSUME Init
             PROVE  Asking
  OBVIOUS
<1>1. PICK n \in 0..MaxScope : assets \in [1..n -> Files]
  BY DEF Init
<1>2. assets \in Seq(Files)
  BY <1>1, LimitsArePositive
<1> QED
  BY <1>2 DEF Init, Asking

(* Every reachable state is typed; who was answered a page and is refused   *)
(* the next one has gone past the largest offset (csvQuery's bounds).       *)
THEOREM TypesHold == Spec => []TypeOK
<1>1. Asking => TypeOK
  BY DEF Asking, TypeOK
<1> QED
  BY <1>1, AskingFirst, AskingStays, PTL DEF Spec

-----------------------------------------------------------------------------
Pages(scope, q) == {CSVQuery(scope, q, from) : from \in Nat}

(* What the client was answered, whenever it was: the search of the scope,  *)
(* or its pages one after the other, the last of which has no more once it  *)
(* stops asking (Execute).                                                  *)
SearchAnswered ==
  request.operation = "text_search" =>
    pages = <<>> \/ pages = <<TextSearch(assets, request.query)>>

PagesAnswered ==
  request.operation = "csv_query" =>
    /\ pages \in Seq(Pages(assets, request)) /\ offset = Len(pages) * Limit(request)
    /\ pages # <<>> => request.limit >= 0 /\ \E a \in DOMAIN assets : QueryableCSV(assets[a])
    /\ \A p \in 1..Len(pages) : pages[p] = CSVQuery(assets, request, (p - 1) * Limit(request))
    /\ phase = "finished" =>
         /\ pages # <<>>
         /\ \A i \in DOMAIN pages[Len(pages)].files : ~pages[Len(pages)].files[i].answer.more

Answered == Asking /\ SearchAnswered /\ PagesAnswered

(* The offset of a first page, none times the limit, is zero.               *)
LEMMA LimitIsInteger ==
  ASSUME NEW q \in Queries, q.operation = "csv_query"
  PROVE  q.limit \in Int /\ Limit(q) \in Int
<1>1. q.limit \in Int
  BY InputsAreTyped DEF Query
<1> QED
  BY <1>1, LimitsArePositive DEF Limit

(* The next page goes where the client's offset says.                       *)
LEMMA NextPageAnswers ==
  ASSUME Answered, NextPage
  PROVE  PagesAnswered'
<1> DEFINE page == CSVQuery(assets, request, offset)
           limit == Limit(request)
           n == Len(pages)
<1>1. /\ request.operation = "csv_query" /\ ~Refused(request, offset)
      /\ pages' = Append(pages, page) /\ offset' = offset + limit
      /\ UNCHANGED <<assets, request>>
      /\ phase' = IF \E i \in DOMAIN page.files : page.files[i].answer.more
                    THEN "asking" ELSE "finished"
  BY DEF NextPage
<1>2. /\ assets \in Seq(Files) /\ request \in Queries /\ offset \in Nat
      /\ pages \in Seq(Pages(assets, request)) /\ offset = n * limit
      /\ \A p \in 1..n : pages[p] = CSVQuery(assets, request, (p - 1) * limit)
  BY <1>1 DEF Answered, Asking, PagesAnswered
<1>3. /\ request.limit >= 0 /\ limit \in Int
      /\ \E a \in DOMAIN assets : QueryableCSV(assets[a])
  <2>1. request.limit \in Int /\ limit \in Int
    BY <1>1, <1>2, LimitIsInteger
  <2>2. ~(request.limit < 0) /\ \E a \in DOMAIN assets : QueryableCSV(assets[a])
    BY <1>1 DEF Refused, OutOfBounds
  <2> QED
    BY <2>1, <2>2
<1>4. page \in Pages(assets, request)
  BY <1>2 DEF Pages
<1> DEFINE longer == Append(pages, page)
<1>5. /\ longer \in Seq(Pages(assets, request)) /\ Len(longer) = n + 1 /\ n \in Nat
      /\ longer[n + 1] = page /\ \A p \in 1..n : longer[p] = pages[p]
  <2> HIDE DEF page
  <2> QED
    BY <1>2, <1>4
<1>6. (n + 1) * limit = n * limit + limit /\ (n + 1) - 1 = n
  BY <1>3, <1>5
<1> HIDE DEF longer, page, n, limit
<1>7. \A p \in 1..(n + 1) : longer[p] = CSVQuery(assets, request, (p - 1) * limit)
  <2>1. longer[n + 1] = CSVQuery(assets, request, ((n + 1) - 1) * limit)
    BY <1>2, <1>5, <1>6 DEF page
  <2>2. \A p \in 1..(n + 1) : p = n + 1 \/ p \in 1..n
    BY <1>5
  <2> QED
    BY <1>2, <1>5, <2>1, <2>2
<1>8. phase' = "finished" => \A i \in DOMAIN page.files : ~page.files[i].answer.more
  BY <1>1
<1>9. longer # <<>>
  BY <1>5
<1>10. (request.operation = "csv_query" =>
          /\ longer \in Seq(Pages(assets, request)) /\ Len(longer) * limit = offset'
          /\ request.limit >= 0 /\ \E a \in DOMAIN assets : QueryableCSV(assets[a])
          /\ \A p \in 1..Len(longer) : longer[p] = CSVQuery(assets, request, (p - 1) * limit)
          /\ phase' = "finished" =>
               /\ longer # <<>>
               /\ \A i \in DOMAIN longer[Len(longer)].files :
                    ~longer[Len(longer)].files[i].answer.more)
  BY <1>1, <1>2, <1>3, <1>5, <1>6, <1>7, <1>8, <1>9
<1>11. pages' = longer /\ assets' = assets /\ request' = request
  BY <1>1 DEF longer, page
<1> QED
  BY <1>10, <1>11 DEF PagesAnswered, limit

(* No later answer changes an earlier one.                                  *)
LEMMA AnsweredStays == Answered /\ [Next]_vars => Answered'
<1> SUFFICES ASSUME Answered, [Next]_vars
             PROVE  Answered'
  OBVIOUS
<1>1. Asking'
  BY AskingStays DEF Answered
<1>2. CASE Refuse
  <2>1. UNCHANGED <<assets, request, offset, pages>> /\ phase' = "refused"
    BY <1>2 DEF Refuse
  <2>2. SearchAnswered'
    BY <2>1 DEF Answered, SearchAnswered
  <2>3. PagesAnswered'
    BY <2>1 DEF Answered, PagesAnswered
  <2> QED
    BY <1>1, <2>2, <2>3 DEF Answered
<1>3. CASE Search
  <2>1. /\ request.operation = "text_search" /\ UNCHANGED <<assets, request>>
        /\ pages' = <<TextSearch(assets, request.query)>>
    BY <1>3 DEF Search
  <2>2. SearchAnswered' /\ PagesAnswered'
    BY <2>1 DEF SearchAnswered, PagesAnswered
  <2> QED
    BY <1>1, <2>2 DEF Answered
<1>4. CASE NextPage
  <2>1. request.operation = "csv_query" /\ UNCHANGED request
    BY <1>4 DEF NextPage
  <2>2. SearchAnswered'
    BY <2>1 DEF SearchAnswered
  <2> QED
    BY <1>1, <1>4, <2>2, NextPageAnswers DEF Answered
<1>5. CASE UNCHANGED vars
  <2>1. UNCHANGED <<assets, request, offset, pages, phase>>
    BY <1>5 DEF vars
  <2>2. SearchAnswered' /\ PagesAnswered'
    BY <2>1 DEF Answered, SearchAnswered, PagesAnswered
  <2> QED
    BY <1>1, <2>2 DEF Answered
<1> QED
  BY <1>2, <1>3, <1>4, <1>5 DEF Next

(* No page was answered yet.                                                *)
LEMMA AnsweredFirst == Init => Answered
<1> SUFFICES ASSUME Init
             PROVE  Answered
  OBVIOUS
<1>1. Asking
  BY AskingFirst
<1>2. pages = <<>> /\ offset = 0 /\ phase = "asking" /\ request \in Queries
  BY DEF Init
<1>3. SearchAnswered
  BY <1>2 DEF SearchAnswered
<1>4. ASSUME request.operation = "csv_query"
      PROVE  offset = Len(pages) * Limit(request)
  <2>1. Limit(request) \in Int
    BY <1>2, <1>4, LimitIsInteger
  <2> QED
    BY <1>2, <2>1
<1>5. PagesAnswered
  BY <1>2, <1>4 DEF PagesAnswered
<1> QED
  BY <1>1, <1>3, <1>5 DEF Answered

(* Wherever the limit falls, a search returns the first places of the scope *)
(* that have the text, each in its context, and says whether it left one    *)
(* out (textSearch, boundedContext).                                        *)
THEOREM SearchesStayExact == Spec => []SearchesAreExact
<1>1. Answered => SearchesAreExact
  <2> SUFFICES ASSUME Answered, Answers, request.operation = "text_search"
               PROVE  SearchesAreExact
    BY DEF SearchesAreExact, TruncationIsTold, ContextsHoldMatches
  <2> DEFINE needle == request.query
             found == TextSearch(assets, needle)
  <2>1. /\ assets \in Seq(Files) /\ request \in Queries /\ pages = <<found>>
    BY DEF Answered, Asking, SearchAnswered, Answers
  <2>2. pages[1] = found
    BY <2>1
  <2>3. assets \in Seq(File) /\ needle \in Text
    <3>1. Files \subseteq File /\ request \in Query
      BY <2>1, InputsAreTyped
    <3>2. needle \in Text
      BY <3>1 DEF Query
    <3> QED
      BY <2>1, <3>1, <3>2
  <2> HIDE DEF needle, found
  <2>4. found \in Found(assets, needle) /\ FirstOf(Hits(assets, needle), found)
    BY <2>3, SearchFindsFirst DEF found
  <2>5. TruncationIsTold
    BY <2>2, <2>4 DEF TruncationIsTold, FirstOf, needle
  <2>6. ASSUME NEW i \in DOMAIN pages[1].matches
        PROVE  LET m     == pages[1].matches[i]
                   line  == assets[m.asset].lines[m.line]
                   shown == SubSeq(line, m.context.start + 1, m.context.end)
               IN  /\ 0 <= m.context.start /\ m.context.end <= Len(line)
                   /\ Len(shown) <= MaxTextContextRunes
                   /\ \/ FindFold(shown, request.query) # 0
                      \/ /\ Len(request.query) > MaxTextContextRunes
                         /\ FindFold(request.query, shown) = 1
    <3> DEFINE m == found.matches[i]
               line == assets[m.asset].lines[m.line]
    <3>1. found.matches \in Seq(Matches(assets, needle)) /\ i \in DOMAIN found.matches
      BY <2>2, <2>4 DEF Found
    <3>2. m \in Matches(assets, needle)
      BY <3>1
    <3>3. Place(m) \in Hits(assets, needle)
      BY <2>4, <3>1 DEF FirstOf
    <3> HIDE DEF m
    <3>4. PICK a \in Nat, n \in Nat : m = Match(assets, a, n, needle)
      BY <3>2 DEF Matches
    <3>5. m.asset = a /\ m.line = n
      BY <3>4 DEF Match
    <3>6. /\ m.asset \in DOMAIN assets /\ m.line \in DOMAIN assets[m.asset].lines
          /\ FindFold(line, needle) # 0
      <4>1. PICK b \in DOMAIN assets : \E c \in DOMAIN assets[b].lines :
              Place(m) = <<b, c>> /\ FindFold(assets[b].lines[c], needle) # 0
        BY <3>3, HitsAreLines
      <4> QED
        BY <4>1 DEF Place
    <3>7. line \in Text
      <4>1. assets[m.asset].lines \in Seq(Text)
        BY <2>3, <3>6, ScopeTyped
      <4> QED
        BY <3>6, <4>1
    <3>8. m.context = BoundedContext(Len(line), FindFold(line, needle) - 1,
                                     FindFold(line, needle) - 1 + Len(needle), MaxTextContextRunes)
      BY <3>4, <3>5 DEF Match
    <3> HIDE DEF line
    <3>9. LET shown == SubSeq(line, m.context.start + 1, m.context.end)
          IN  /\ 0 <= m.context.start /\ m.context.end <= Len(line)
              /\ Len(shown) <= MaxTextContextRunes
              /\ \/ FindFold(shown, needle) # 0
                 \/ /\ Len(needle) > MaxTextContextRunes
                    /\ FindFold(needle, shown) = 1
      BY <2>3, <3>6, <3>7, <3>8, MatchIsShown
    <3> QED
      BY <2>2, <3>9 DEF m, line, needle
  <2>7. ContextsHoldMatches
    BY <2>6 DEF ContextsHoldMatches
  <2> QED
    BY <2>5, <2>7 DEF SearchesAreExact
<1> QED
  BY <1>1, AnsweredFirst, AnsweredStays, PTL DEF Spec

(* The part that this asset has in a page.                                  *)
IsRightPart(files, k, asset, scope, q, from) ==
  LET answer == files[k].answer
      all    == AllRows(scope[asset], q)
  IN  /\ files[k].asset = asset
      /\ all \in Seq(Rows(scope[asset], q)) /\ answer.rows \in Seq(Rows(scope[asset], q))
      /\ answer.more <=> from + Len(answer.rows) < Len(all)
      /\ \E limit \in 0..Limit(q) :
           /\ Continues(answer, all, from, limit)
           /\ limit = Limit(q) \/ \E j \in 1..(k - 1) : files[j].answer.rows # <<>>

(* Every page has the part, whatever its offset.                            *)
LEMMA PartContinues ==
  ASSUME NEW scope \in Seq(File), NEW q, Limit(q) \in Nat, NEW from \in Nat,
         NEW names, AreQueried(names, scope), NEW k \in 1..Len(names[Len(scope)])
  PROVE  IsRightPart(CSVQuery(scope, q, from).files, k, names[Len(scope)][k], scope, q, from)
<1> DEFINE files  == CSVQuery(scope, q, from).files
           asset  == names[Len(scope)][k]
           answer == files[k].answer
           all    == AllRows(scope[asset], q)
<1>1. IsPage(CSVQuery(scope, q, from), names[Len(scope)], scope, q, from)
  BY PageHasParts
<1>2. files[k].asset = asset /\ IsPart(files, k, scope, q, from)
  BY <1>1 DEF IsPage
<1>3. PICK limit \in 0..Limit(q) :
        /\ answer = QueryFile(scope[asset], q, from, limit)
        /\ limit = Limit(q) \/ \E j \in 1..(k - 1) : files[j].answer.rows # <<>>
  BY <1>2 DEF IsPart
<1>4. scope[asset] \in File /\ limit \in Nat
  <2>1. Len(scope) \in Nat /\ names[Len(scope)] \in Seq(DOMAIN scope)
    BY DEF AreQueried
  <2>2. asset \in DOMAIN scope
    BY <2>1
  <2> QED
    BY <2>2, ScopeTyped
<1> HIDE DEF files, asset
<1>5. LET found == QueryFile(scope[asset], q, from, limit) IN
      /\ all \in Seq(Rows(scope[asset], q)) /\ found.rows \in Seq(Rows(scope[asset], q))
      /\ Continues(found, all, from, limit)
      /\ found.more <=> from + Len(found.rows) < Len(all)
  BY <1>4, FileContinues
<1> HIDE DEF answer, all
<1>6. /\ all \in Seq(Rows(scope[asset], q)) /\ answer.rows \in Seq(Rows(scope[asset], q))
      /\ Continues(answer, all, from, limit)
      /\ answer.more <=> from + Len(answer.rows) < Len(all)
  BY <1>3, <1>5
<1> QED
  <2>1. IsRightPart(files, k, asset, scope, q, from)
    BY <1>2, <1>3, <1>6 DEF IsRightPart, answer, all
  <2> QED
    BY <2>1 DEF files, asset

(* Every page has a part for each of these files, in this order.            *)
PagesAreOf(reads) ==
  /\ Limit(request) \in Nat /\ Len(reads) \in Nat \ {0}
  /\ \A p \in 1..Len(pages) :
       /\ DOMAIN pages[p].files = 1..Len(reads)
       /\ \A k \in 1..Len(reads) :
            IsRightPart(pages[p].files, k, reads[k], assets, request, (p - 1) * Limit(request))

(* All pages are of the same files.                                         *)
LEMMA PagesAgree ==
  ASSUME Answered, pages # <<>>, request.operation = "csv_query"
  PROVE  \E reads : PagesAreOf(reads)
<1>1. /\ assets \in Seq(Files) /\ request \in Queries /\ request.limit >= 0
      /\ \A p \in 1..Len(pages) : pages[p] = CSVQuery(assets, request, (p - 1) * Limit(request))
  BY DEF Answered, Asking, PagesAnswered
<1>2. PICK a \in DOMAIN assets : QueryableCSV(assets[a])
  BY DEF Answered, PagesAnswered
<1>3. assets \in Seq(File)
  BY <1>1, InputsAreTyped
<1>4. Limit(request) \in Nat
  BY <1>1, LimitIsNatural
<1>5. PICK names : AreQueried(names, assets)
  BY <1>3, QueriedExist
<1> DEFINE reads == names[Len(assets)]
<1>6. Len(reads) \in Nat \ {0}
  <2>1. Len(assets) \in Nat /\ reads \in Seq(DOMAIN assets)
    BY <1>3, <1>5 DEF AreQueried
  <2>2. Len(reads) \in Nat
    BY <2>1
  <2>3. Len(reads) >= 1
    BY <1>2, <1>3, <1>5, SomeQueried
  <2> QED
    BY <2>2, <2>3
<1>7. ASSUME NEW p \in 1..Len(pages)
      PROVE  /\ DOMAIN pages[p].files = 1..Len(reads)
             /\ \A k \in 1..Len(reads) :
                  IsRightPart(pages[p].files, k, reads[k], assets, request,
                              (p - 1) * Limit(request))
  <2> DEFINE from == (p - 1) * Limit(request)
  <2>1. from \in Nat
    <3>1. p - 1 \in Nat
      BY DEF Answered, PagesAnswered
    <3> QED
      BY <1>4, <3>1
  <2>2. pages[p] = CSVQuery(assets, request, from)
    BY <1>1
  <2> HIDE DEF from
  <2>3. IsPage(pages[p], reads, assets, request, from)
    BY <1>3, <1>4, <1>5, <2>1, <2>2, PageHasParts
  <2>4. DOMAIN pages[p].files = 1..Len(reads)
    BY <2>3 DEF IsPage
  <2>5. ASSUME NEW k \in 1..Len(reads)
        PROVE  IsRightPart(pages[p].files, k, reads[k], assets, request, from)
    <3>1. IsRightPart(CSVQuery(assets, request, from).files, k, reads[k], assets, request, from)
      BY <1>3, <1>4, <1>5, <2>1, PartContinues
    <3> QED
      BY <2>2, <3>1
  <2> QED
    BY <2>4, <2>5 DEF from
<1> QED
  BY <1>4, <1>6, <1>7 DEF PagesAreOf

(* A file's part of a page is where the offset says.                        *)
LEMMA PartIsInPlace ==
  ASSUME Answered, request.operation = "csv_query", NEW reads, PagesAreOf(reads),
         NEW p \in 1..Len(pages), NEW k \in 1..Len(reads)
  PROVE  LET part == pages[p].files[k]
             all  == AllRows(assets[part.asset], request)
             from == (p - 1) * Limit(request)
         IN  /\ part.answer.rows = SubSeq(all, from + 1, from + Len(part.answer.rows))
             /\ part.answer.matched = Len(all)
             /\ part.answer.more <=> from + Len(part.answer.rows) < Len(all)
<1> DEFINE asset == reads[k]
           R    == Rows(assets[asset], request)
           answer == pages[p].files[k].answer
           rows == answer.rows
           all  == AllRows(assets[asset], request)
           from == (p - 1) * Limit(request)
<1>1. IsRightPart(pages[p].files, k, asset, assets, request, from)
  BY DEF PagesAreOf
<1>2. /\ pages[p].files[k].asset = asset /\ all \in Seq(R) /\ rows \in Seq(R)
      /\ answer.more <=> from + Len(rows) < Len(all)
      /\ \E limit \in 0..Limit(request) : Continues(answer, all, from, limit)
  BY <1>1 DEF IsRightPart
<1>3. from \in Nat
  <2>1. p - 1 \in Nat /\ Limit(request) \in Nat
    BY DEF Answered, PagesAnswered, PagesAreOf
  <2> QED
    BY <2>1
<1>4. /\ answer.matched = Len(all)
      /\ \A j \in 1..Len(rows) : from + j <= Len(all) /\ rows[j] = all[from + j]
  BY <1>2 DEF Continues
<1> HIDE DEF from, rows, all, R
<1>5. rows = SubSeq(all, from + 1, from + Len(rows))
  <2> DEFINE shown == SubSeq(all, from + 1, from + Len(rows))
  <2>1. Len(rows) \in Nat /\ Len(all) \in Nat
    BY <1>2
  <2>2. Len(rows) # 0 => from + Len(rows) <= Len(all)
    <3>1. Len(rows) # 0 => Len(rows) \in 1..Len(rows)
      BY <2>1
    <3> QED
      BY <1>4, <3>1
  <2>3. shown \in Seq(R) /\ Len(shown) = Len(rows)
        /\ \A j \in 1..Len(rows) : shown[j] = all[from + j]
    BY <1>2, <1>3, <2>1, <2>2
  <2> HIDE DEF shown
  <2>4. rows = [j \in 1..Len(rows) |-> rows[j]] /\ shown = [j \in 1..Len(shown) |-> shown[j]]
    <3>1. rows \in Seq(R) /\ shown \in Seq(R)
      BY <1>2, <2>3
    <3>2. \A s \in Seq(R) : s = [j \in 1..Len(s) |-> s[j]]
      OBVIOUS
    <3> QED
      BY <3>1, <3>2
  <2>5. rows = shown
    BY <1>4, <2>3, <2>4
  <2> QED
    BY <2>5 DEF shown
<1> QED
  BY <1>2, <1>4, <1>5 DEF rows, all, from

(* Who follows a file to the end has read all of it, unless a file queried  *)
(* before it used up the limit of a page.                                   *)
LEMMA FileIsReadOut ==
  ASSUME Answered, phase = "finished", request.operation = "csv_query",
         NEW reads, PagesAreOf(reads), NEW k \in 1..Len(reads),
         \A p \in 1..Len(pages) :
           \/ ~pages[p].files[k].answer.more
           \/ \A j \in 1..(k - 1) : pages[p].files[j].answer.rows = <<>>
  PROVE  /\ Shown(k) = AllRows(assets[pages[1].files[k].asset], request)
         /\ Len(Shown(k)) \in Nat
<1> DEFINE n     == Len(pages)
           asset == reads[k]
           R     == Rows(assets[asset], request)
           all   == AllRows(assets[asset], request)
           L     == Limit(request)
           rows(p) == pages[p].files[k].answer.rows
           parts == [p \in DOMAIN pages |-> rows(p)]
<1>1. /\ n \in Nat \ {0} /\ DOMAIN pages = 1..n /\ L \in Nat
      /\ \A i \in DOMAIN pages[n].files : ~pages[n].files[i].answer.more
  BY DEF Answered, PagesAnswered, PagesAreOf
<1>2. ASSUME NEW p \in 1..n
      PROVE  /\ pages[p].files[k].asset = asset /\ all \in Seq(R) /\ rows(p) \in Seq(R)
             /\ ArePageOf(rows(p), p, all, L)
             /\ ~pages[p].files[k].answer.more => (p - 1) * L + Len(rows(p)) >= Len(all)
  <2> DEFINE from == (p - 1) * L
             answer == pages[p].files[k].answer
  <2>1. IsRightPart(pages[p].files, k, asset, assets, request, from)
    BY DEF PagesAreOf
  <2>2. /\ pages[p].files[k].asset = asset /\ all \in Seq(R) /\ answer.rows \in Seq(R)
        /\ answer.more <=> from + Len(answer.rows) < Len(all)
    BY <2>1 DEF IsRightPart
  <2>3. PICK limit \in 0..L :
          /\ Continues(answer, all, from, limit)
          /\ limit = L \/ \E j \in 1..(k - 1) : pages[p].files[j].answer.rows # <<>>
    BY <2>1 DEF IsRightPart
  <2>4. from \in Nat
    <3>1. p - 1 \in Nat
      BY <1>1
    <3> QED
      BY <1>1, <3>1
  <2>5. Len(answer.rows) \in Nat /\ Len(all) \in Nat
    BY <2>2
  <2>6. limit = L \/ ~answer.more
    BY <2>3
  <2> HIDE DEF from, answer, all, R, L
  <2>7. /\ Len(answer.rows) <= limit
        /\ \A j \in 1..Len(answer.rows) :
             from + j <= Len(all) /\ answer.rows[j] = all[from + j]
        /\ Len(answer.rows) = limit \/ from + Len(answer.rows) >= Len(all)
    BY <2>3 DEF Continues
  <2>8. ~answer.more => from + Len(answer.rows) >= Len(all)
    BY <2>2, <2>4, <2>5
  <2>9. Len(answer.rows) <= L
    BY <1>1, <2>3, <2>5, <2>7
  <2>10. Len(answer.rows) = L \/ from + Len(answer.rows) >= Len(all)
    BY <2>6, <2>7, <2>8
  <2> QED
    BY <2>2, <2>7, <2>8, <2>9, <2>10 DEF from, answer, ArePageOf
<1>3. 1 \in 1..n /\ n \in 1..n
  BY <1>1
<1>4. (n - 1) * L + Len(rows(n)) >= Len(all)
  <2>1. k \in DOMAIN pages[n].files
    BY <1>3 DEF PagesAreOf
  <2> QED
    BY <1>1, <1>2, <1>3, <2>1
<1>5. all \in Seq(R) /\ pages[1].files[k].asset = asset
  BY <1>2, <1>3
<1>6. /\ parts \in Seq(Seq(R)) /\ Len(parts) = n /\ parts # <<>>
      /\ \A p \in 1..n : parts[p] = rows(p)
  <2>1. \A p \in 1..n : rows(p) \in Seq(R)
    BY <1>2
  <2>2. parts = [p \in 1..n |-> rows(p)]
    BY <1>1
  <2> HIDE DEF parts, rows, R, n
  <2>3. parts \in [1..n -> Seq(R)] /\ \A p \in 1..n : parts[p] = rows(p)
    BY <2>1, <2>2
  <2>4. parts \in Seq(Seq(R)) /\ Len(parts) = n
    BY <1>1, <2>3
  <2> QED
    BY <1>1, <2>3, <2>4
<1> HIDE DEF parts, rows, all, R, L, n
<1>7. FlattenSeq(parts) = all
  <2>1. \A p \in 1..Len(parts) :
          ArePageOf(parts[p], p, all, L)
    BY <1>2, <1>6
  <2>2. (Len(parts) - 1) * L + Len(parts[Len(parts)]) >= Len(all)
    BY <1>3, <1>4, <1>6
  <2> QED
    <3>1. L \in Nat /\ all \in Seq(R) /\ parts \in Seq(Seq(R)) /\ parts # <<>>
      BY <1>1, <1>5, <1>6
    <3> QED
      BY <2>1, <2>2, <3>1, PagesJoin
<1>8. Shown(k) = all
  BY <1>7 DEF Shown, parts, rows
<1>9. Len(all) \in Nat
  BY <1>5
<1> QED
  BY <1>5, <1>8, <1>9 DEF all

(* What a client reads in pages is what the filters select: each part of a  *)
(* page continues its file, and the pages together are the file, unless one *)
(* before it used up the limit (csvQuery).                                  *)
THEOREM PagesStayReadOut == Spec => []PagesReadOut
<1>1. Answered => PagesContinue
  <2> SUFFICES ASSUME Answered, Answers, request.operation = "csv_query",
                      NEW p \in DOMAIN pages, NEW i \in DOMAIN pages[p].files
               PROVE  LET part == pages[p].files[i]
                          all  == AllRows(assets[part.asset], request)
                          from == (p - 1) * Limit(request)
                      IN  /\ part.answer.rows = SubSeq(all, from + 1, from + Len(part.answer.rows))
                          /\ part.answer.matched = Len(all)
                          /\ part.answer.more <=> from + Len(part.answer.rows) < Len(all)
    BY DEF PagesContinue
  <2>1. pages # <<>> /\ DOMAIN pages = 1..Len(pages)
    BY DEF Answers, Answered, PagesAnswered
  <2>2. PICK reads : PagesAreOf(reads)
    BY <2>1, PagesAgree
  <2>3. i \in 1..Len(reads)
    BY <2>1, <2>2 DEF PagesAreOf
  <2> QED
    BY <2>1, <2>2, <2>3, PartIsInPlace
<1>2. Answered => FirstFileIsReadOut
  <2> SUFFICES ASSUME Answered, phase = "finished", request.operation = "csv_query"
               PROVE  FirstFileIsReadOut
    BY DEF FirstFileIsReadOut
  <2> DEFINE all(i) == AllRows(assets[pages[1].files[i].asset], request)
  <2>1. pages # <<>> /\ DOMAIN pages = 1..Len(pages) /\ 1 \in 1..Len(pages)
    BY DEF Answered, PagesAnswered
  <2>2. PICK reads : PagesAreOf(reads)
    BY <2>1, PagesAgree
  <2>3. 1 \in 1..Len(reads) /\ DOMAIN pages[1].files = 1..Len(reads)
    BY <2>1, <2>2 DEF PagesAreOf
  <2>4. Shown(1) = all(1)
    <3>1. 1..(1 - 1) = {}
      OBVIOUS
    <3> QED
      BY <2>2, <2>3, <3>1, FileIsReadOut
  <2>5. ASSUME NEW i \in 1..Len(reads), Len(Shown(i)) < Len(all(i))
        PROVE  \E p \in 1..Len(pages) : \E j \in 1..(i - 1) :
                 pages[p].files[i].answer.more /\ pages[p].files[j].answer.rows # <<>>
    <3> SUFFICES ASSUME \A p \in 1..Len(pages) :
                          \/ ~pages[p].files[i].answer.more
                          \/ \A j \in 1..(i - 1) : pages[p].files[j].answer.rows = <<>>
                 PROVE  FALSE
      OBVIOUS
    <3>1. Shown(i) = all(i) /\ Len(Shown(i)) \in Nat
      BY <2>2, FileIsReadOut
    <3> QED
      BY <2>5, <3>1
  <2> QED
    BY <2>1, <2>3, <2>4, <2>5 DEF FirstFileIsReadOut
<1> QED
  BY <1>1, <1>2, AnsweredFirst, AnsweredStays, PTL DEF Spec, PagesReadOut
===============================================================================
