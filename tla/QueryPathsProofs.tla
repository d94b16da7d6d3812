--------------------------- MODULE QueryPathsProofs ---------------------------
(* Theorems about QueryPaths, for every set of requests, Brains, Services   *)
(* and assets, whatever is stored at the start and asked for together.      *)
EXTENDS QueryPaths, PolicyRulesProofs, SequenceTheorems

StoredPath == [id: Nat \ {0}, version: Nat \ {0}, config: Configuration]

Memory ==
  [id: Nat, version: Nat, routeOf: Nat, config: Configuration, brains: SUBSET Brains,
   services: SUBSET Services, assets: UNION {[A -> Asset] : A \in SUBSET Assets}]

(* The steps behind the read of each table, and behind the merge.           *)
ReadRoute    == {"merge", "run"}
ReadTerminal == {"hops"} \cup ReadRoute
ReadServices == {"route"} \cup ReadTerminal
ReadBrains   == {"serviceGrants"} \cup ReadServices
ReadAssets   == {"brainGrants"} \cup ReadBrains
ReadRow      == {"assets"} \cup ReadAssets
Merged       == {"registry", "lookup", "write", "relate", "commit"}

-----------------------------------------------------------------------------
(* What is stored.                                                          *)
StoreStands ==
  /\ path # NoPath =>
       /\ path \in StoredPath /\ path.id = created
       /\ path.config.path = "own" /\ KeyedOnce(path.config)
  /\ Source \in brains /\ brains \subseteq Brains /\ services \subseteq Services
  /\ \E A \in SUBSET Assets : assets \in [A -> {v \in AssetChoices : v.brain = Source}]
  /\ created \in Nat
  /\ StoredPathIsComplete

(* Each step belongs to the operations that come to it.                     *)
StepFits(r) ==
  /\ pc[r] \in Reading => Is(r, {"patch", "pull", "send"})
  /\ pc[r] = "merge" => Is(r, {"patch"})
  /\ pc[r] = "run" \/ Served(r) => Is(r, {"pull", "send"})
  /\ pc[r] \in Merged => Is(r, {"create", "patch"})
  /\ pc[r] = "erase" => Is(r, {"delete"})
  /\ Served(r) => pc[r] = "done"

(* A request knows an id only from a path that had it, and of that path a   *)
(* version that it had.                                                     *)
KnowsThePast(r) ==
  /\ mine[r].id <= created
  /\ Current(r) => mine[r].version <= path.version
  /\ pc[r] = "start" \/ Is(r, {"create"}) => mine[r].id = 0 /\ mine[r].version = 0
  /\ pc[r] \in {"start", "row", "assets", "brainGrants", "serviceGrants", "route"} =>
       mine[r].config.route = NoRoute
  /\ pc[r] = "hops" =>
       /\ mine[r].config.route # NoRoute
       /\ Current(r) => mine[r].routeOf <= path.version
       /\ Current(r) /\ mine[r].routeOf = path.version => path.config.route # NoRoute

(* A request that reads the path witnesses all that it becomes.             *)
Watches(r) ==
  /\ seen[r] \subseteq StoredPath \cup {NoPath}
  /\ pc[r] \in Reading \cup {"run"} =>
       /\ Current(r) => path \in seen[r]
       /\ \A p \in seen[r] : seen[r] = {p} => Current(r)

(* The step whose reads an answer rests on.                                 *)
At(r) == IF Served(r) THEN "run" ELSE pc[r]

(* What was read is of something witnessed: the row as a whole, the scope   *)
(* asset by asset.                                                          *)
ReadsWhatItWatches(r) ==
  LET known == seen[r] \ {NoPath}
      c == mine[r].config
  IN
  /\ At(r) \in Reading \cup {"run"} => known # {}
  /\ At(r) \in Reading \cup {"run"} /\ Is(r, {"pull"}) =>
       \E p \in known : Enabled(p.config)
  /\ At(r) \in ReadRow \cap (Reading \cup {"run"}) =>
       \E p \in known : c.state = p.config.state
  /\ At(r) \in ReadAssets \cap (Reading \cup {"run"}) =>
       \A a \in Range(c.assets) : \E p \in known : a \in Range(p.config.assets)
  /\ Served(r) /\ Is(r, {"send"}) => Enabled(c)
  /\ Served(r) =>
       /\ c.route # NoRoute
       /\ \E d \in Brains : Permitted(c, [source |-> Source], ask[r].call, d)

(* A request that has witnessed one path only has read that path.           *)
ReadsExactly(r, p) ==
  LET c == mine[r].config IN
  /\ At(r) \in ReadRow \cap (Reading \cup {"run"}) =>
       /\ c.state = p.config.state /\ c.visibility = p.config.visibility
       /\ c.operations = p.config.operations
  /\ At(r) \in ReadAssets \cap (Reading \cup {"run"}) => c.assets = p.config.assets
  /\ At(r) \in ReadBrains \cap (Reading \cup {"run"}) =>
       c.brainGrants = p.config.brainGrants
  /\ At(r) \in ReadServices \cap (Reading \cup {"run"}) =>
       c.serviceGrants = p.config.serviceGrants
  /\ At(r) = "hops" =>
       /\ p.config.route # NoRoute /\ mine[r].routeOf = p.version
       /\ c.route = [hops |-> <<>>, terminal |-> p.config.route.terminal]
  /\ At(r) = "run" => c.route = p.config.route

ReadsOneExactly(r) == \A p \in seen[r] : seen[r] = {p} => ReadsExactly(r, p)

(* The path is still the one whose version the patch's client named.        *)
Unchanged(r) == Current(r) /\ path.version = mine[r].version

Patches(r, f) == pc[r] \in Merged /\ f \in DOMAIN ask[r].patch

(* Until the version changes, a patch that keeps a field has what is stored *)
(* there, unless a row that the field refers to is gone; then the foreign   *)
(* keys refuse what the patch would write.                                  *)
KeepsWhatItDoesNotPatch(r) ==
  LET c == mine[r].config IN
  Is(r, {"patch"}) =>
    /\ pc[r] \in Merged => \A f \in DOMAIN ask[r].patch : c[f] = ask[r].patch[f]
    /\ Unchanged(r) =>
         /\ pc[r] \in ReadRow \cup Merged =>
              /\ Patches(r, "state") \/ c.state = path.config.state
              /\ Patches(r, "visibility") \/ c.visibility = path.config.visibility
              /\ Patches(r, "operations") \/ c.operations = path.config.operations
         /\ pc[r] \in ReadAssets \cup Merged =>
              \/ Patches(r, "assets") \/ c.assets = path.config.assets
              \/ ~(Range(c.assets) \subseteq DOMAIN assets)
         /\ pc[r] \in ReadBrains \cup Merged =>
              \/ Patches(r, "brainGrants") \/ c.brainGrants = path.config.brainGrants
              \/ ~(Range(c.brainGrants) \subseteq brains)
         /\ pc[r] \in ReadServices \cup Merged =>
              \/ Patches(r, "serviceGrants") \/ c.serviceGrants = path.config.serviceGrants
              \/ ~(Range(c.serviceGrants) \subseteq services)
         /\ pc[r] = "hops" =>
              /\ path.config.route # NoRoute /\ mine[r].routeOf = path.version
              /\ c.route = [hops |-> <<>>, terminal |-> path.config.route.terminal]
         /\ pc[r] \in ReadRoute \cup Merged =>
              Patches(r, "route") \/ c.route = path.config.route

(* What validation and the transaction have made sure of.                   *)
Vouched(r) ==
  /\ pc[r] \in Merged \ {"registry"} => mine[r].config.path \in {"own", "other"}
  /\ pc[r] \in {"write"} \cup InTx =>
       ValidateConfiguration(mine[r].config, ContextOf(mine[r])) = {}
  /\ pc[r] \in InTx => IF Is(r, {"create"}) THEN path = NoPath ELSE Unchanged(r)
  /\ pc[r] = "commit" => Refers(mine[r].config, brains, services, assets)

RequestInv(r) ==
  /\ StepFits(r) /\ KnowsThePast(r)
  /\ Watches(r) /\ ReadsWhatItWatches(r) /\ ReadsOneExactly(r)
  /\ KeepsWhatItDoesNotPatch(r) /\ Vouched(r)

Typed ==
  /\ ask \in [Requests -> Asks]
  /\ pc \in [Requests -> Steps]
  /\ mine \in [Requests -> Memory]
  /\ answer \in [Requests -> {"none", "ok", "failed", "invalid", "conflict", "name_exists",
                              "not_found", "disabled", "refused", "delivered"}]
  /\ seen = [r \in Requests |-> seen[r]]

LockHeld ==
  /\ lock \in Requests \cup {NoRequest}
  /\ \A r \in Requests : pc[r] \in InTx <=> lock = r

IInv ==
  /\ Typed /\ LockHeld /\ StoreStands
  /\ \A r \in Requests : RequestInv(r)
-----------------------------------------------------------------------------
(* A list that has no repeats loses x and nothing else.                     *)
LEMMA WithoutOne ==
  ASSUME NEW S, NEW list \in Seq(S), ~Repeats(list), NEW x
  PROVE  /\ Without(list, x) \in Seq(S)
         /\ Range(Without(list, x)) = Range(list) \ {x}
         /\ ~Repeats(Without(list, x))
         /\ x \notin Range(list) => Without(list, x) = list
<1>1. /\ Len(list) \in Nat /\ DOMAIN list = 1..Len(list)
      /\ \A j \in 1..Len(list) : list[j] \in S
  OBVIOUS
<1>2. CASE ~\E i \in 1..Len(list) : list[i] = x
  <2>1. Without(list, x) = list
    BY <1>2 DEF Without, RemoveFirst
  <2> QED
    BY <1>1, <1>2, <2>1 DEF Range
<1>3. ASSUME NEW i \in 1..Len(list), list[i] = x
      PROVE  /\ Without(list, x) \in Seq(S)
             /\ Range(Without(list, x)) = Range(list) \ {x}
             /\ ~Repeats(Without(list, x))
             /\ x \in Range(list)
  <2> DEFINE found == {k \in 1..Len(list) : list[k] = x}
             before == SubSeq(list, 1, i - 1)
             after == SubSeq(list, i + 1, Len(list))
  <2>1. found = {i}
    BY <1>1, <1>3 DEF Repeats
  <2>2. Min(found) = i
    BY <2>1 DEF Min
  <2>3. Without(list, x) = before \o after
    BY <1>3, <2>1, <2>2 DEF Without, RemoveFirst, RemoveAt, SelectInSeq
  <2>4. /\ before \in Seq(S) /\ Len(before) = i - 1
        /\ \A j \in 1..(i - 1) : before[j] = list[j]
    BY <1>1, SubSeqProperties
  <2>5. /\ after \in Seq(S) /\ Len(after) = Len(list) - i
        /\ \A j \in 1..(Len(list) - i) : after[j] = list[i + j]
    <3>1. i + 1 \in Int /\ Len(list) \in Int /\ \A j \in (i + 1)..Len(list) : list[j] \in S
      BY <1>1
    <3>2. after \in Seq(S)
      BY <3>1, SubSeqProperties
    <3>3. Len(after) = IF i + 1 <= Len(list) THEN Len(list) - (i + 1) + 1 ELSE 0
      BY <3>1, SubSeqProperties
    <3>4. \A j \in 1..(Len(list) - (i + 1) + 1) : after[j] = list[(i + 1) + j - 1]
      BY <3>1, SubSeqProperties
    <3> HIDE DEF after
    <3>5. Len(after) = Len(list) - i
      <4>1. \A n \in Nat : \A k \in 1..n :
              (IF k + 1 <= n THEN n - (k + 1) + 1 ELSE 0) = n - k
        OBVIOUS
      <4> QED
        BY <1>1, <3>3, <4>1
    <3>6. ASSUME NEW j \in 1..(Len(list) - i)
          PROVE  after[j] = list[i + j]
      <4>1. j \in 1..(Len(list) - (i + 1) + 1) /\ (i + 1) + j - 1 = i + j
        BY <1>1
      <4> QED
        BY <3>4, <4>1
    <3> QED
      BY <3>2, <3>5, <3>6
  <2> HIDE DEF before, after
  <2> DEFINE w == before \o after
  <2>6. /\ w \in Seq(S) /\ Len(w) = Len(list) - 1
        /\ \A j \in 1..(Len(list) - 1) : w[j] = IF j < i THEN list[j] ELSE list[j + 1]
    <3>1. /\ w \in Seq(S) /\ Len(w) = Len(before) + Len(after)
          /\ \A j \in 1..(Len(before) + Len(after)) :
               w[j] = IF j <= Len(before) THEN before[j] ELSE after[j - Len(before)]
      BY <2>4, <2>5, ConcatProperties
    <3> HIDE DEF w
    <3>2. ASSUME NEW j \in 1..(Len(list) - 1)
          PROVE  w[j] = IF j < i THEN list[j] ELSE list[j + 1]
      <4>1. CASE j < i
        BY <1>1, <2>4, <2>5, <3>1, <4>1
      <4>2. CASE j >= i
        <5>1. w[j] = after[j - (i - 1)]
          <6>1. Len(before) = i - 1 /\ j \in 1..(Len(before) + Len(after)) /\ ~(j <= i - 1)
            BY <1>1, <2>4, <2>5, <4>2
          <6> QED
            BY <3>1, <6>1
        <5>2. j - (i - 1) \in 1..(Len(list) - i) /\ i + (j - (i - 1)) = j + 1
          BY <1>1, <4>2
        <5> QED
          BY <2>5, <4>2, <5>1, <5>2
      <4> QED
        BY <1>1, <4>1, <4>2
    <3> QED
      BY <1>1, <2>4, <2>5, <3>1, <3>2
  <2> HIDE DEF w
  <2>7. DOMAIN w = 1..(Len(list) - 1)
    BY <2>6
  <2>8. ASSUME NEW j \in DOMAIN w
        PROVE  /\ w[j] \in Range(list) \ {x}
               /\ \A k \in DOMAIN w : k # j => w[k] # w[j]
    <3> DEFINE at(k) == IF k < i THEN k ELSE k + 1
    <3>1. \A k \in DOMAIN w : at(k) \in 1..Len(list) \ {i} /\ w[k] = list[at(k)]
      BY <1>1, <2>6, <2>7
    <3>2. \A k \in DOMAIN w : k # j => at(k) # at(j)
      BY <1>1, <2>7
    <3>3. \A k, l \in 1..Len(list) : k # l => list[k] # list[l]
      BY <1>1 DEF Repeats
    <3> HIDE DEF at
    <3>4. w[j] \in Range(list)
      BY <1>1, <3>1 DEF Range
    <3> QED
      BY <1>3, <3>1, <3>2, <3>3, <3>4
  <2>9. ASSUME NEW j \in 1..Len(list), j # i
        PROVE  list[j] \in Range(w)
    <3>1. CASE j < i
      BY <1>1, <2>6, <2>7, <3>1 DEF Range
    <3>2. CASE j > i
      <4>1. j - 1 \in DOMAIN w /\ w[j - 1] = list[j]
        BY <1>1, <2>6, <2>7, <3>2
      <4> QED
        BY <4>1 DEF Range
    <3> QED
      BY <2>9, <3>1, <3>2
  <2>10. Range(w) = Range(list) \ {x} /\ x \in Range(list)
    BY <1>1, <1>3, <2>8, <2>9 DEF Range
  <2>11. ~Repeats(w)
    BY <2>8 DEF Repeats
  <2> QED
    BY <2>3, <2>6, <2>10, <2>11 DEF w
<1> QED
  BY <1>2, <1>3

(* Merging a patch gives a configuration; of the fields, it changes those   *)
(* that are patched.                                                        *)
LEMMA MergeTyped ==
  ASSUME NEW c \in Configuration, NEW patch, DOMAIN patch \subseteq DOMAIN FieldTypes,
         \A f \in DOMAIN patch : patch[f] \in FieldTypes[f]
  PROVE  /\ Merge(c, patch) \in Configuration
         /\ Merge(c, patch).path = c.path
         /\ \A f \in DOMAIN FieldTypes :
              Merge(c, patch)[f] = IF f \in DOMAIN patch THEN patch[f] ELSE c[f]
<1> DEFINE m == Merge(c, patch)
<1>1. DOMAIN c = {"path", "assets", "operations", "visibility", "state", "brainGrants",
                  "serviceGrants", "route"}
  BY DEF Configuration
<1>2. m = [f \in DOMAIN c |-> IF f \in DOMAIN patch THEN patch[f] ELSE c[f]]
  BY DEF Merge
<1>3. DOMAIN FieldTypes = DOMAIN c \ {"path"}
  BY <1>1 DEF FieldTypes
<1>4. m.path = c.path /\ \A f \in DOMAIN FieldTypes :
                            m[f] = IF f \in DOMAIN patch THEN patch[f] ELSE c[f]
  BY <1>1, <1>2, <1>3
<1>5. \A f \in DOMAIN FieldTypes : c[f] \in FieldTypes[f]
  BY <1>1, <1>3 DEF Configuration, FieldTypes
<1>6. \A f \in DOMAIN FieldTypes : m[f] \in FieldTypes[f]
  BY <1>4, <1>5
<1>7. m = [path |-> m.path, assets |-> m.assets, operations |-> m.operations,
           visibility |-> m.visibility, state |-> m.state, brainGrants |-> m.brainGrants,
           serviceGrants |-> m.serviceGrants, route |-> m.route]
  BY <1>1, <1>2
<1>8. m.path \in {"malformed", "free", "own", "other"}
  BY <1>4 DEF Configuration
<1>9. /\ m.assets \in FieldTypes.assets /\ m.operations \in FieldTypes.operations
      /\ m.visibility \in FieldTypes.visibility /\ m.state \in FieldTypes.state
      /\ m.brainGrants \in FieldTypes.brainGrants
      /\ m.serviceGrants \in FieldTypes.serviceGrants /\ m.route \in FieldTypes.route
  BY <1>1, <1>3, <1>6
<1> HIDE DEF m
<1>10. m \in Configuration
  BY <1>7, <1>8, <1>9 DEF Configuration, FieldTypes
<1> QED
  BY <1>4, <1>10 DEF m

-----------------------------------------------------------------------------
(* A step of one request that changes nothing the others look at.           *)
Same(q) ==
  pc'[q] = pc[q] /\ mine'[q] = mine[q] /\ answer'[q] = answer[q] /\ seen'[q] = seen[q]

Stored == <<path, brains, services, assets, created>>

Only(r) == UNCHANGED <<Stored, ask>> /\ \A q \in Requests \ {r} : Same(q)

(* While the store stands still, a request that does not move keeps it all. *)
LEMMA RequestKeeps ==
  ASSUME IInv, NEW q \in Requests, UNCHANGED <<Stored, ask>>, Same(q)
  PROVE  RequestInv(q)'
<1>1. RequestInv(q)
  BY DEF IInv
<1> USE DEF Stored, Same, Is, Current, Served, At
<1>2. StepFits(q)' /\ KnowsThePast(q)' /\ Watches(q)'
  BY <1>1 DEF RequestInv, StepFits, KnowsThePast, Watches
<1>3. ReadsWhatItWatches(q)'
  BY <1>1 DEF RequestInv, ReadsWhatItWatches
<1>4. ReadsOneExactly(q)'
  BY <1>1 DEF RequestInv, ReadsOneExactly, ReadsExactly
<1>5. KeepsWhatItDoesNotPatch(q)'
  BY <1>1 DEF RequestInv, KeepsWhatItDoesNotPatch, Unchanged, Patches
<1>6. Vouched(q)'
  BY <1>1 DEF RequestInv, Vouched, Unchanged
<1> QED
  BY <1>2, <1>3, <1>4, <1>5, <1>6 DEF RequestInv

(* So only the request that moves has to be looked at.                      *)
LEMMA OthersKeep ==
  ASSUME IInv, NEW r \in Requests, Only(r), Typed', LockHeld', RequestInv(r)'
  PROVE  IInv'
<1>1. \A q \in Requests \ {r} : RequestInv(q)'
  BY RequestKeeps DEF Only
<1>2. StoreStands'
  BY DEF IInv, Only, Stored, StoreStands, StoredPathIsComplete
<1> QED
  BY <1>1, <1>2 DEF IInv

Answers == {"ok", "failed", "invalid", "conflict", "name_exists", "not_found", "disabled",
            "refused"}

(* A request that is answered without data relies on nothing any more.      *)
LEMMA Ends ==
  ASSUME IInv, NEW r \in Requests, Only(r), LockHeld', mine' \in [Requests -> Memory],
         mine'[r].id = mine[r].id, mine'[r].version = mine[r].version,
         NEW a \in Answers, Answer(r, a), UNCHANGED seen
  PROVE  IInv'
<1> USE DEF Only, Stored
<1>1. pc'[r] = "done" /\ answer'[r] = a /\ seen'[r] = seen[r]
  BY DEF Answer, Goto, IInv, Typed
<1>2. Typed'
  BY DEF Answer, Goto, IInv, Typed, Steps, Ended, Answers
<1>3. ~Served(r)'
  BY <1>1 DEF Served, Answers
<1>4. RequestInv(r)
  BY DEF IInv
<1>5. StepFits(r)' /\ KnowsThePast(r)' /\ Watches(r)'
  BY <1>1, <1>3, <1>4 DEF RequestInv, StepFits, KnowsThePast, Watches, Reading, Merged,
    Is, Current
<1>6. ReadsWhatItWatches(r)' /\ ReadsOneExactly(r)'
  BY <1>1, <1>3 DEF ReadsWhatItWatches, ReadsOneExactly, ReadsExactly, At, Reading
<1>7. KeepsWhatItDoesNotPatch(r)' /\ Vouched(r)'
  BY <1>1 DEF KeepsWhatItDoesNotPatch, Vouched, Merged, InTx, ReadRow, ReadAssets,
    ReadBrains, ReadServices, ReadTerminal, ReadRoute
<1>8. RequestInv(r)'
  BY <1>5, <1>6, <1>7 DEF RequestInv
<1> QED
  BY <1>2, <1>8, OthersKeep

-----------------------------------------------------------------------------
(* What a request asks for, and what it may put in its memory.              *)
LEMMA Asked ==
  ASSUME Typed, NEW r \in Requests
  PROVE  IsAsk(ask[r])
BY InputsAreTyped DEF Typed

(* The fields of a configuration, each of which may be replaced.            *)
LEMMA Fields ==
  ASSUME NEW c \in Configuration
  PROVE  /\ c.assets \in Seq(Assets) /\ c.brainGrants \in Seq(Brains)
         /\ c.serviceGrants \in Seq(Services)
         /\ c.route \in {NoRoute} \cup [hops: Seq(Services), terminal: Terminals \cup {NoBrain}]
         /\ \A p \in {"own", "other"} : [c EXCEPT !.path = p] \in Configuration
         /\ \A l \in Seq(Assets) : [c EXCEPT !.assets = l] \in Configuration
         /\ \A l \in Seq(Brains) : [c EXCEPT !.brainGrants = l] \in Configuration
         /\ \A l \in Seq(Services) : [c EXCEPT !.serviceGrants = l] \in Configuration
         /\ \A t \in {NoRoute} \cup [hops: Seq(Services), terminal: Terminals \cup {NoBrain}] :
              [c EXCEPT !.route = t] \in Configuration
         /\ \A d \in Configuration :
              [c EXCEPT !.state = d.state, !.visibility = d.visibility,
                        !.operations = d.operations] \in Configuration
BY DEF Configuration

(* The same of a request's memory.                                          *)
LEMMA Memories ==
  ASSUME NEW m \in Memory
  PROVE  /\ m.id \in Nat /\ m.version \in Nat /\ m.config \in Configuration
         /\ m.brains \in SUBSET Brains /\ m.services \in SUBSET Services
         /\ \A c \in Configuration : [m EXCEPT !.config = c] \in Memory
         /\ \A A \in SUBSET Assets : \A f \in [A -> Asset] : [m EXCEPT !.assets = f] \in Memory
BY DEF Memory

(* The memory that a request starts with.                                   *)
LEMMA BlankTyped == Nothing \in Memory
<1>1. <<>> \in [{} -> Asset] /\ {} \in SUBSET Assets
  OBVIOUS
<1>2. Blank \in Configuration
  BY DEF Blank, Configuration, Visibilities, States
<1> QED
  BY <1>1, <1>2 DEF Nothing, Memory

-----------------------------------------------------------------------------
(* A create brings its configuration and knows no path.                     *)
LEMMA SubmitStep ==
  ASSUME IInv, NEW r \in Requests, Submit(r)
  PROVE  IInv'
<1> DEFINE m == [mine[r] EXCEPT !.config = ask[r].config]
<1>1. /\ pc[r] = "start" /\ ask[r].op = "create" /\ ask[r].config \in Configuration
      /\ mine[r] \in Memory /\ mine[r].id = 0
  BY Asked DEF Submit, Is, IsAsk, IInv, Typed, RequestInv, KnowsThePast
<1>2. m \in Memory /\ m.id = 0
  BY <1>1, Memories
<1>3. mine'[r] = m /\ pc'[r] = "registry" /\ answer'[r] = answer[r] /\ seen'[r] = seen[r]
  BY <1>1 DEF Submit, Goto, IInv, Typed
<1>4. Typed'
  BY <1>2 DEF Submit, Goto, IInv, Typed, store, Steps
<1>5. Only(r) /\ LockHeld'
  BY DEF Submit, Goto, IInv, Typed, store, Only, Same, Stored, LockHeld, InTx
<1>6. RequestInv(r)
  BY DEF IInv
<1>7. ~Served(r)' /\ At(r)' = "registry" /\ ~Served(r)
  BY <1>1, <1>3, <1>6 DEF Served, At, RequestInv, StepFits
<1>8. StepFits(r)' /\ KnowsThePast(r)' /\ Watches(r)'
  BY <1>1, <1>2, <1>3, <1>5, <1>6, <1>7 DEF StepFits, KnowsThePast, Watches, RequestInv,
    Reading, Merged, Is, Current, Only, Stored, IInv, StoreStands, StoredPath
<1>9. ReadsWhatItWatches(r)' /\ ReadsOneExactly(r)'
  BY <1>7 DEF ReadsWhatItWatches, ReadsOneExactly, ReadsExactly, Reading
<1>10. KeepsWhatItDoesNotPatch(r)' /\ Vouched(r)'
  BY <1>1, <1>3, <1>5 DEF KeepsWhatItDoesNotPatch, Vouched, Is, Only, InTx, Merged
<1>11. RequestInv(r)'
  BY <1>8, <1>9, <1>10 DEF RequestInv
<1> QED
  BY <1>4, <1>5, <1>11, OthersKeep

(* The path that the client names is the first that the request witnesses.  *)
LEMMA AddressStep ==
  ASSUME IInv, NEW r \in Requests, Address(r)
  PROVE  IInv'
<1>1. PICK v \in 1..path.version :
        mine' = [mine EXCEPT ![r].id = path.id, ![r].version = v]
  BY DEF Address
<1> DEFINE m == [mine[r] EXCEPT !.id = path.id, !.version = v]
           next == IF Is(r, {"delete"}) THEN "erase" ELSE "row"
<1>2. /\ pc[r] = "start" /\ Is(r, {"patch", "delete", "send"}) /\ path \in StoredPath
      /\ mine[r] \in Memory /\ path.id = created /\ RequestInv(r) /\ path # NoPath
  BY DEF Address, IInv, Typed, StoreStands
<1>3. m \in Memory /\ v \in Nat /\ v <= path.version
  <2>1. path.version \in Nat /\ path.id \in Nat
    BY <1>2 DEF StoredPath
  <2>2. v \in Nat /\ v <= path.version
    BY <2>1
  <2> QED
    BY <1>2, <2>1, <2>2 DEF Memory
<1>4. /\ mine'[r] = m /\ pc'[r] = next /\ answer'[r] = answer[r] /\ seen'[r] = {path}
      /\ UNCHANGED <<path, lock, ask>>
  BY <1>1, <1>2 DEF Address, Goto, IInv, Typed, store
<1>5. Typed'
  <2>1. mine' \in [Requests -> Memory]
    BY <1>1, <1>2, <1>3 DEF IInv, Typed
  <2> QED
    BY <2>1 DEF Address, Goto, IInv, Typed, Steps, Reading
<1>6. Only(r) /\ LockHeld'
  BY <1>1 DEF Address, Goto, IInv, Typed, store, Only, Same, Stored, LockHeld, InTx
<1>7. ~Served(r)' /\ At(r)' = next
  BY <1>2, <1>4 DEF Served, At, RequestInv, StepFits
<1>8. StepFits(r)'
  BY <1>2, <1>4, <1>7 DEF StepFits, Reading, Merged, Is
<1>9. KnowsThePast(r)' /\ Watches(r)'
  BY <1>2, <1>3, <1>4, <1>6 DEF KnowsThePast, Watches, RequestInv, Is, Current, Only,
    Stored, StoredPath, Memory
<1>10. ReadsWhatItWatches(r)' /\ ReadsOneExactly(r)'
  BY <1>2, <1>4, <1>7 DEF ReadsWhatItWatches, ReadsOneExactly, ReadsExactly, Reading,
    Is, ReadRow, ReadAssets, ReadBrains, ReadServices, ReadTerminal, ReadRoute
<1>11. KeepsWhatItDoesNotPatch(r)' /\ Vouched(r)'
  BY <1>2, <1>4 DEF KeepsWhatItDoesNotPatch, Vouched, InTx, Merged, ReadRow, ReadAssets,
    ReadBrains, ReadServices, ReadTerminal, ReadRoute
<1>12. RequestInv(r)'
  BY <1>8, <1>9, <1>10, <1>11 DEF RequestInv
<1> QED
  BY <1>5, <1>6, <1>12, OthersKeep

(* A pull has not known any path before it looks one up by its name.        *)
LEMMA ResolveEnabledStep ==
  ASSUME IInv, NEW r \in Requests, ResolveEnabled(r)
  PROVE  IInv'
<1>1. CASE ~(path # NoPath /\ Enabled(path.config))
  <2>1. Answer(r, "not_found") /\ UNCHANGED <<mine, seen, store, ask>>
    BY <1>1 DEF ResolveEnabled
  <2>2. Only(r) /\ LockHeld' /\ mine' \in [Requests -> Memory]
    BY <2>1 DEF ResolveEnabled, Answer, Goto, IInv, Typed, store, Only, Same, Stored,
      LockHeld, InTx
  <2> QED
    BY <2>1, <2>2, Ends DEF Answers
<1>2. CASE path # NoPath /\ Enabled(path.config)
  <2> DEFINE m == [mine[r] EXCEPT !.id = path.id]
  <2>1. /\ mine' = [mine EXCEPT ![r].id = path.id] /\ seen' = [seen EXCEPT ![r] = {path}]
        /\ Goto(r, "row") /\ UNCHANGED <<answer, store, ask>>
    BY <1>2 DEF ResolveEnabled
  <2>2. /\ pc[r] = "start" /\ Is(r, {"pull"}) /\ path \in StoredPath
        /\ mine[r] \in Memory /\ path.id = created /\ RequestInv(r)
    BY <1>2 DEF ResolveEnabled, IInv, Typed, StoreStands
  <2>3. m \in Memory
    BY <2>2 DEF Memory, StoredPath
  <2>4. /\ mine'[r] = m /\ pc'[r] = "row" /\ answer'[r] = answer[r] /\ seen'[r] = {path}
        /\ UNCHANGED <<path, lock, ask>>
    BY <2>1, <2>2 DEF Goto, IInv, Typed, store
  <2>5. Typed'
    <3>1. mine' \in [Requests -> Memory]
      BY <2>1, <2>2, <2>3 DEF IInv, Typed
    <3> QED
      BY <2>1, <3>1 DEF Goto, IInv, Typed, Steps, Reading
  <2>6. Only(r) /\ LockHeld'
    BY <2>1, <2>2 DEF Goto, IInv, Typed, store, Only, Same, Stored, LockHeld, InTx
  <2>7. ~Served(r)' /\ At(r)' = "row"
    BY <2>2, <2>4 DEF Served, At, RequestInv, StepFits
  <2>8. StepFits(r)'
    BY <2>2, <2>4, <2>7 DEF StepFits, Reading, Merged, Is
  <2>9. KnowsThePast(r)' /\ Watches(r)'
    <3>1. ~Current(r) /\ mine[r].version \in Nat /\ path.version \in Nat \ {0}
      BY <2>2 DEF RequestInv, KnowsThePast, Current, StoredPath, Memory
    <3>2. mine[r].version = 0
      BY <2>2 DEF RequestInv, KnowsThePast
    <3>3. Current(r)' /\ mine'[r].version = 0 /\ mine'[r].id <= created'
      <4>1. m.id = path.id /\ m.version = 0
        BY <2>2, <3>2 DEF Memory
      <4>2. created' = created /\ created \in Nat /\ path' = path /\ path # NoPath
        BY <1>2, <2>6 DEF Only, Stored, IInv, StoreStands
      <4> HIDE DEF m
      <4> QED
        BY <2>2, <2>4, <4>1, <4>2 DEF Current
    <3>4. mine'[r].config.route = NoRoute
      BY <2>2, <2>3, <2>4 DEF RequestInv, KnowsThePast
    <3> QED
      BY <2>2, <2>4, <3>1, <3>3, <3>4 DEF KnowsThePast, Watches, Is
  <2>10. ReadsWhatItWatches(r)' /\ ReadsOneExactly(r)'
    BY <1>2, <2>2, <2>4, <2>7 DEF ReadsWhatItWatches, ReadsOneExactly, ReadsExactly,
      Reading, Is, ReadRow, ReadAssets, ReadBrains, ReadServices, ReadTerminal,
      ReadRoute
  <2>11. KeepsWhatItDoesNotPatch(r)' /\ Vouched(r)'
    BY <2>2, <2>4 DEF KeepsWhatItDoesNotPatch, Vouched, InTx, Merged, ReadRow, ReadAssets,
      ReadBrains, ReadServices, ReadTerminal, ReadRoute
  <2>12. RequestInv(r)'
    BY <2>8, <2>9, <2>10, <2>11 DEF RequestInv
  <2> QED
    BY <2>5, <2>6, <2>12, OthersKeep
<1> QED
  BY <1>1, <1>2

-----------------------------------------------------------------------------
(* The statements of LoadQueryPathConfig.  Each puts what it reads into the *)
(* memory m of its request and goes on to the next.                         *)
Loads(r, m, next) ==
  /\ pc[r] \in Reading /\ Goto(r, next)
  /\ m \in Memory /\ m.id = mine[r].id /\ m.version = mine[r].version
  /\ mine' = [mine EXCEPT ![r] = m]
  /\ next \in Reading \cup ReadRoute
  /\ next = "merge" => Is(r, {"patch"})
  /\ next = "run" => Is(r, {"pull", "send"})
  /\ next \notin {"hops"} \cup ReadRoute => m.config.route = NoRoute
  /\ next = "hops" => /\ Current(r) /\ m.routeOf = path.version
                      /\ path.config.route # NoRoute /\ m.config.route # NoRoute
  /\ UNCHANGED <<store, ask, answer, seen>>

(* What every statement of the load leaves as it was.                       *)
LEMMA LoadFrame ==
  ASSUME IInv, NEW r \in Requests, NEW m, NEW next, Loads(r, m, next)
  PROVE  /\ mine'[r] = m /\ pc'[r] = next /\ At(r)' = next /\ At(r) = pc[r]
         /\ ~Served(r) /\ ~Served(r)' /\ Current(r)' = Current(r)
         /\ UNCHANGED <<seen, ask, path, assets, brains, services>>
         /\ RequestInv(r) /\ Is(r, {"patch", "pull", "send"})
         /\ mine[r] \in Memory /\ mine[r].config \in Configuration
         /\ path # NoPath => path \in StoredPath
<1>1. /\ mine'[r] = m /\ pc'[r] = next /\ RequestInv(r) /\ mine[r] \in Memory
      /\ path # NoPath => path \in StoredPath
  BY DEF Loads, Goto, IInv, Typed, StoreStands
<1>2. UNCHANGED <<seen, ask, path, assets, brains, services, answer>>
  BY DEF Loads, store
<1>3. ~Served(r) /\ Is(r, {"patch", "pull", "send"})
  BY <1>1 DEF Loads, RequestInv, StepFits, Reading
<1>4. Current(r)' = Current(r) /\ ~Served(r)'
  BY <1>1, <1>2, <1>3 DEF Loads, Current, Served
<1>5. mine[r].config \in Configuration
  BY <1>1, Memories
<1> QED
  BY <1>1, <1>2, <1>3, <1>4, <1>5 DEF At

(* So a statement has to show only what its own table gives.                *)
LEMMA LoadKeeps ==
  ASSUME IInv, NEW r \in Requests, NEW m, NEW next, Loads(r, m, next),
         ReadsWhatItWatches(r)', ReadsOneExactly(r)', KeepsWhatItDoesNotPatch(r)'
  PROVE  IInv'
<1>1. /\ mine'[r] = m /\ pc'[r] = next /\ ~Served(r)' /\ Current(r)' = Current(r)
      /\ UNCHANGED <<seen, ask, path>> /\ RequestInv(r)
      /\ Is(r, {"patch", "pull", "send"})
  BY LoadFrame
<1>2. Typed'
  BY DEF Loads, Goto, IInv, Typed, Steps, ReadRoute
<1>3. Only(r) /\ LockHeld'
  BY <1>1 DEF Loads, Goto, IInv, Typed, store, Only, Same, Stored, LockHeld, InTx, Reading,
    ReadRoute
<1>4. StepFits(r)' /\ Vouched(r)'
  BY <1>1 DEF Loads, StepFits, Vouched, Reading, ReadRoute, Merged, InTx, Is
<1>5. KnowsThePast(r)'
  <2>1. created' = created
    BY <1>3 DEF Only, Stored
  <2>2. /\ m.id = mine[r].id /\ m.version = mine[r].version /\ next \in Reading \cup ReadRoute
        /\ next \notin {"hops"} \cup ReadRoute => m.config.route = NoRoute
        /\ next = "hops" => /\ Current(r) /\ m.routeOf = path.version
                            /\ path.config.route # NoRoute /\ m.config.route # NoRoute
        /\ pc[r] \in Reading
    BY DEF Loads
  <2>3. mine'[r].id <= created' /\ (Current(r)' => mine'[r].version <= path'.version)
    BY <1>1, <2>1, <2>2 DEF RequestInv, KnowsThePast
  <2>4. ~(pc'[r] = "start" \/ Is(r, {"create"})')
    BY <1>1, <2>2 DEF Reading, ReadRoute, Is
  <2>5. pc'[r] \in {"start", "row", "assets", "brainGrants", "serviceGrants", "route"} =>
          mine'[r].config.route = NoRoute
    BY <1>1, <2>2 DEF ReadRoute
  <2>6. next = "hops" => path.version \in Nat
    BY <2>2 DEF Current, IInv, StoreStands, StoredPath
  <2>7. pc'[r] = "hops" =>
          /\ mine'[r].config.route # NoRoute
          /\ Current(r)' => mine'[r].routeOf <= path'.version
          /\ Current(r)' /\ mine'[r].routeOf = path'.version => path'.config.route # NoRoute
    BY <1>1, <2>2, <2>6
  <2> QED
    BY <2>3, <2>4, <2>5, <2>7 DEF KnowsThePast
<1>6. Watches(r)'
  BY <1>1 DEF Loads, RequestInv, Watches
<1>7. RequestInv(r)'
  BY <1>4, <1>5, <1>6 DEF RequestInv
<1> QED
  BY <1>2, <1>3, <1>7, OthersKeep

(* The row gives state, visibility and operations together, or no path.     *)
LEMMA LoadRowStep ==
  ASSUME IInv, NEW r \in Requests, LoadRow(r)
  PROVE  IInv'
<1>1. CASE ~Current(r)
  <2>1. Answer(r, "not_found") /\ UNCHANGED <<mine, seen, store, ask>> /\ pc[r] = "row"
    BY <1>1 DEF LoadRow
  <2>2. Only(r) /\ LockHeld' /\ mine' \in [Requests -> Memory]
    BY <2>1 DEF Answer, Goto, IInv, Typed, store, Only, Same, Stored, LockHeld, InTx
  <2> QED
    BY <2>1, <2>2, Ends DEF Answers
<1>2. CASE Current(r)
  <2> DEFINE c == [mine[r].config EXCEPT !.state = path.config.state,
                     !.visibility = path.config.visibility,
                     !.operations = path.config.operations]
             m == [mine[r] EXCEPT !.config = c]
  <2>1. /\ path \in StoredPath /\ mine[r] \in Memory /\ mine[r].config \in Configuration
        /\ path.config \in Configuration /\ RequestInv(r) /\ path # NoPath
    BY <1>2, Memories DEF IInv, Typed, StoreStands, Current, StoredPath
  <2>2. c \in Configuration /\ m \in Memory
    BY <2>1, Fields, Memories
  <2>3. mine' = [mine EXCEPT ![r] = m]
    BY <1>2, <2>1 DEF LoadRow, IInv, Typed
  <2>4. c.route = NoRoute
    BY <2>1 DEF LoadRow, RequestInv, KnowsThePast, Configuration
  <2>5. m.config = c /\ m.id = mine[r].id /\ m.version = mine[r].version
    BY <2>1 DEF Memory
  <2>6. /\ c.state = path.config.state /\ c.visibility = path.config.visibility
        /\ c.operations = path.config.operations
    BY <2>1 DEF Configuration
  <2> HIDE DEF c, m
  <2>7. Loads(r, m, "assets")
    BY <1>2, <2>2, <2>3, <2>4, <2>5 DEF LoadRow, Loads, Reading, ReadRoute
  <2>8. /\ mine'[r] = m /\ pc'[r] = "assets" /\ At(r)' = "assets" /\ At(r) = "row" /\ ~Served(r)'
        /\ UNCHANGED <<seen, ask, path, assets>> /\ path \in seen[r]
    BY <1>2, <2>1, <2>7, LoadFrame DEF LoadRow, RequestInv, Watches, Reading
  <2>9. ReadsWhatItWatches(r)'
    BY <2>1, <2>5, <2>6, <2>8 DEF ReadsWhatItWatches, RequestInv, Reading, ReadRow,
      ReadAssets, ReadBrains, ReadServices, ReadTerminal, ReadRoute, Is
  <2>10. ReadsOneExactly(r)'
    BY <2>1, <2>5, <2>6, <2>8 DEF ReadsOneExactly, ReadsExactly, RequestInv, Reading,
      ReadRow, ReadAssets, ReadBrains, ReadServices, ReadTerminal, ReadRoute
  <2>11. KeepsWhatItDoesNotPatch(r)'
    BY <2>1, <2>5, <2>6, <2>8 DEF KeepsWhatItDoesNotPatch, Merged, ReadRow, ReadAssets,
      ReadBrains, ReadServices, ReadTerminal, ReadRoute
  <2> QED
    BY <2>7, <2>9, <2>10, <2>11, LoadKeeps
<1> QED
  BY <1>1, <1>2

(* What a request that reads on relies on: the path it knows is witnessed,  *)
(* and is the only one witnessed unless the request has seen it change.     *)
LEMMA Witnessed ==
  ASSUME IInv, NEW r \in Requests, pc[r] \in Reading
  PROVE  /\ Current(r) => path \in seen[r] \ {NoPath} /\ path.config \in Configuration
         /\ \A p \in seen[r] : seen[r] = {p} => Current(r) /\ path = p
BY DEF IInv, RequestInv, Watches, StoreStands, StoredPath, Current

(* The scope of a path that is gone is empty, which no path need witness.   *)
LEMMA LoadAssetsStep ==
  ASSUME IInv, NEW r \in Requests, LoadAssets(r)
  PROVE  IInv'
<1> DEFINE scope == IF Current(r) THEN path.config.assets ELSE <<>>
           c == [mine[r].config EXCEPT !.assets = scope]
           found == Restrict(assets, Range(scope))
           m == [[mine[r] EXCEPT !.config = c] EXCEPT !.assets = found]
<1>1. /\ mine[r] \in Memory /\ mine[r].config \in Configuration /\ RequestInv(r)
      /\ pc[r] = "assets" /\ pc[r] \in Reading
  BY Memories DEF LoadAssets, IInv, Typed, Reading
<1>2. scope \in Seq(Assets) /\ Range(scope) \subseteq DOMAIN assets
  BY <1>1, Witnessed DEF Configuration, IInv, StoreStands, StoredPathIsComplete,
    Complete, Refers, Range, Current
<1>3. DOMAIN assets \subseteq Assets /\ \A a \in DOMAIN assets : assets[a] \in Asset
  BY InputsAreTyped DEF IInv, StoreStands
<1>4. found \in [Range(scope) -> Asset] /\ Range(scope) \in SUBSET Assets
  BY <1>2, <1>3 DEF Restrict
<1>5. c \in Configuration /\ m \in Memory
  <2>1. c \in Configuration
    BY <1>1, <1>2, Fields
  <2>2. [mine[r] EXCEPT !.config = c] \in Memory
    BY <1>1, <2>1, Memories
  <2> QED
    BY <1>4, <2>1, <2>2, Memories
<1>6. mine' = [mine EXCEPT ![r] = m]
  BY <1>1 DEF LoadAssets, IInv, Typed, Memory
<1>7. /\ c.assets = scope /\ c.route = NoRoute /\ c.state = mine[r].config.state
      /\ c.visibility = mine[r].config.visibility /\ c.operations = mine[r].config.operations
  BY <1>1 DEF Configuration, RequestInv, KnowsThePast
<1>8. m.config = c /\ m.id = mine[r].id /\ m.version = mine[r].version
  BY <1>1 DEF Memory
<1> HIDE DEF c, m
<1>9. Loads(r, m, "brainGrants")
  BY <1>1, <1>5, <1>6, <1>7, <1>8 DEF LoadAssets, Loads, Reading, ReadRoute
<1>10. /\ mine'[r] = m /\ pc'[r] = "brainGrants" /\ At(r)' = "brainGrants" /\ At(r) = "assets"
       /\ ~Served(r)' /\ UNCHANGED <<seen, ask, path, assets>> /\ Current(r)' = Current(r)
  BY <1>1, <1>9, LoadFrame
<1>11. Range(<<>>) = {}
  BY DEF Range
<1>12. ReadsWhatItWatches(r)'
  BY <1>1, <1>7, <1>8, <1>10, <1>11, Witnessed DEF ReadsWhatItWatches, RequestInv,
    Reading, ReadRow, ReadAssets, ReadBrains, ReadServices, ReadTerminal, ReadRoute, Is
<1>13. ReadsOneExactly(r)'
  BY <1>1, <1>7, <1>8, <1>10, Witnessed DEF ReadsOneExactly, ReadsExactly, RequestInv,
    Reading, ReadRow, ReadAssets, ReadBrains, ReadServices, ReadTerminal, ReadRoute
<1>14. KeepsWhatItDoesNotPatch(r)'
  BY <1>1, <1>7, <1>8, <1>10 DEF KeepsWhatItDoesNotPatch, RequestInv, Merged, ReadRow,
    ReadAssets, ReadBrains, ReadServices, ReadTerminal, ReadRoute, Unchanged, Patches, Is
<1> QED
  BY <1>9, <1>12, <1>13, <1>14, LoadKeeps

(* Who finds no grants, as the path is gone, has witnessed that it went.    *)
LEMMA LoadBrainGrantsStep ==
  ASSUME IInv, NEW r \in Requests, LoadBrainGrants(r)
  PROVE  IInv'
<1> DEFINE grants == IF Current(r) THEN path.config.brainGrants ELSE <<>>
           c == [mine[r].config EXCEPT !.brainGrants = grants]
           m == [mine[r] EXCEPT !.config = c]
<1>1. /\ mine[r] \in Memory /\ mine[r].config \in Configuration /\ RequestInv(r)
      /\ pc[r] = "brainGrants" /\ pc[r] \in Reading
  BY Memories DEF LoadBrainGrants, IInv, Typed, Reading
<1>2. grants \in Seq(Brains)
  BY <1>1, Witnessed DEF Configuration
<1>3. c \in Configuration /\ m \in Memory
  <2>1. c \in Configuration
    BY <1>1, <1>2, Fields
  <2> QED
    BY <1>1, <2>1, Memories
<1>4. mine' = [mine EXCEPT ![r] = m]
  BY <1>1 DEF LoadBrainGrants, IInv, Typed, Memory
<1>5. /\ c.brainGrants = grants /\ c.route = NoRoute /\ c.state = mine[r].config.state
      /\ c.visibility = mine[r].config.visibility /\ c.operations = mine[r].config.operations
      /\ c.assets = mine[r].config.assets
  BY <1>1 DEF Configuration, RequestInv, KnowsThePast
<1>6. m.config = c /\ m.id = mine[r].id /\ m.version = mine[r].version
  BY <1>1 DEF Memory
<1> HIDE DEF c, m
<1>7. Loads(r, m, "serviceGrants")
  BY <1>1, <1>3, <1>4, <1>5, <1>6 DEF LoadBrainGrants, Loads, Reading, ReadRoute
<1>8. /\ mine'[r] = m /\ pc'[r] = "serviceGrants" /\ At(r)' = "serviceGrants" /\ At(r) = "brainGrants"
      /\ ~Served(r)' /\ UNCHANGED <<seen, ask, path, assets, brains, services>>
      /\ Current(r)' = Current(r)
  BY <1>1, <1>7, LoadFrame
<1>9. ReadsWhatItWatches(r)'
  BY <1>1, <1>5, <1>6, <1>8, Witnessed DEF ReadsWhatItWatches, RequestInv, Reading, ReadRow,
    ReadAssets, ReadBrains, ReadServices, ReadTerminal, ReadRoute, Is
<1>10. ReadsOneExactly(r)'
  BY <1>1, <1>5, <1>6, <1>8, Witnessed DEF ReadsOneExactly, ReadsExactly, RequestInv,
    Reading, ReadRow, ReadAssets, ReadBrains, ReadServices, ReadTerminal, ReadRoute
<1>11. KeepsWhatItDoesNotPatch(r)'
  BY <1>1, <1>5, <1>6, <1>8 DEF KeepsWhatItDoesNotPatch, RequestInv, Merged, ReadRow,
    ReadAssets, ReadBrains, ReadServices, ReadTerminal, ReadRoute, Unchanged, Patches, Is
<1> QED
  BY <1>7, <1>9, <1>10, <1>11, LoadKeeps

(* The same of the Services' grants.                                        *)
LEMMA LoadServiceGrantsStep ==
  ASSUME IInv, NEW r \in Requests, LoadServiceGrants(r)
  PROVE  IInv'
<1> DEFINE grants == IF Current(r) THEN path.config.serviceGrants ELSE <<>>
           c == [mine[r].config EXCEPT !.serviceGrants = grants]
           m == [mine[r] EXCEPT !.config = c]
<1>1. /\ mine[r] \in Memory /\ mine[r].config \in Configuration /\ RequestInv(r)
      /\ pc[r] = "serviceGrants" /\ pc[r] \in Reading
  BY Memories DEF LoadServiceGrants, IInv, Typed, Reading
<1>2. grants \in Seq(Services)
  BY <1>1, Witnessed DEF Configuration
<1>3. c \in Configuration /\ m \in Memory
  <2>1. c \in Configuration
    BY <1>1, <1>2, Fields
  <2> QED
    BY <1>1, <2>1, Memories
<1>4. mine' = [mine EXCEPT ![r] = m]
  BY <1>1 DEF LoadServiceGrants, IInv, Typed, Memory
<1>5. /\ c.serviceGrants = grants /\ c.route = NoRoute /\ c.state = mine[r].config.state
      /\ c.visibility = mine[r].config.visibility /\ c.operations = mine[r].config.operations
      /\ c.assets = mine[r].config.assets
      /\ c.brainGrants = mine[r].config.brainGrants
  BY <1>1 DEF Configuration, RequestInv, KnowsThePast
<1>6. m.config = c /\ m.id = mine[r].id /\ m.version = mine[r].version
  BY <1>1 DEF Memory
<1> HIDE DEF c, m
<1>7. Loads(r, m, "route")
  BY <1>1, <1>3, <1>4, <1>5, <1>6 DEF LoadServiceGrants, Loads, Reading, ReadRoute
<1>8. /\ mine'[r] = m /\ pc'[r] = "route" /\ At(r)' = "route" /\ At(r) = "serviceGrants"
      /\ ~Served(r)' /\ UNCHANGED <<seen, ask, path, assets, brains, services>>
      /\ Current(r)' = Current(r)
  BY <1>1, <1>7, LoadFrame
<1>9. ReadsWhatItWatches(r)'
  BY <1>1, <1>5, <1>6, <1>8, Witnessed DEF ReadsWhatItWatches, RequestInv, Reading, ReadRow,
    ReadAssets, ReadBrains, ReadServices, ReadTerminal, ReadRoute, Is
<1>10. ReadsOneExactly(r)'
  BY <1>1, <1>5, <1>6, <1>8, Witnessed DEF ReadsOneExactly, ReadsExactly, RequestInv,
    Reading, ReadRow, ReadAssets, ReadBrains, ReadServices, ReadTerminal, ReadRoute
<1>11. KeepsWhatItDoesNotPatch(r)'
  BY <1>1, <1>5, <1>6, <1>8 DEF KeepsWhatItDoesNotPatch, RequestInv, Merged, ReadRow,
    ReadAssets, ReadBrains, ReadServices, ReadTerminal, ReadRoute, Unchanged, Patches, Is
<1> QED
  BY <1>7, <1>9, <1>10, <1>11, LoadKeeps

(* The terminal is read with the id of its route, by which hops are found.  *)
LEMMA LoadRouteStep ==
  ASSUME IInv, NEW r \in Requests, LoadRoute(r)
  PROVE  IInv'
<1> DEFINE last == IF Is(r, {"patch"}) THEN "merge" ELSE "run"
<1>1. /\ mine[r] \in Memory /\ mine[r].config \in Configuration /\ RequestInv(r)
      /\ pc[r] = "route" /\ pc[r] \in Reading /\ mine[r].config.route = NoRoute
      /\ Is(r, {"patch", "pull", "send"})
  BY Memories DEF LoadRoute, IInv, Typed, Reading, RequestInv, KnowsThePast, StepFits
<1>2. CASE ~(Current(r) /\ path.config.route # NoRoute)
  <2>1. Loads(r, mine[r], last)
    <3>1. mine' = [mine EXCEPT ![r] = mine[r]]
      BY <1>2 DEF LoadRoute, IInv, Typed
    <3> QED
      BY <1>1, <1>2, <3>1 DEF LoadRoute, Loads, Loaded, Reading, ReadRoute, Is
  <2>2. /\ mine'[r] = mine[r] /\ pc'[r] = last /\ At(r)' = last /\ At(r) = "route"
        /\ ~Served(r)' /\ UNCHANGED <<seen, ask, path, assets, brains, services>>
        /\ Current(r)' = Current(r)
    BY <1>1, <2>1, LoadFrame
  <2>3. ReadsWhatItWatches(r)'
    BY <1>1, <2>2 DEF ReadsWhatItWatches, RequestInv, Reading, ReadRow,
      ReadAssets, ReadBrains, ReadServices, ReadTerminal, ReadRoute, Is
  <2>4. ReadsOneExactly(r)'
    BY <1>1, <1>2, <2>2, Witnessed DEF ReadsOneExactly, ReadsExactly, RequestInv,
      Reading, ReadRow, ReadAssets, ReadBrains, ReadServices, ReadTerminal, ReadRoute
  <2>5. KeepsWhatItDoesNotPatch(r)'
    BY <1>1, <1>2, <2>2 DEF KeepsWhatItDoesNotPatch, RequestInv, Merged, ReadRow,
      ReadAssets, ReadBrains, ReadServices, ReadTerminal, ReadRoute, Unchanged, Patches, Is
  <2> QED
    BY <2>1, <2>3, <2>4, <2>5, LoadKeeps
<1>3. CASE Current(r) /\ path.config.route # NoRoute
  <2> DEFINE begun == [hops |-> <<>>, terminal |-> path.config.route.terminal]
             c == [mine[r].config EXCEPT !.route = begun]
             m == [[mine[r] EXCEPT !.routeOf = path.version] EXCEPT !.config = c]
  <2>1. path \in StoredPath /\ path.config \in Configuration /\ path.version \in Nat
    BY <1>3 DEF IInv, StoreStands, Current, StoredPath
  <2>2. begun \in [hops: Seq(Services), terminal: Terminals \cup {NoBrain}]
    BY <1>3, <2>1 DEF Configuration
  <2>3. c \in Configuration /\ m \in Memory
    <3>1. c \in Configuration
      BY <1>1, <2>2, Fields
    <3>2. [mine[r] EXCEPT !.routeOf = path.version] \in Memory
      BY <1>1, <2>1 DEF Memory
    <3> QED
      BY <3>1, <3>2, Memories
  <2>4. mine' = [mine EXCEPT ![r] = m]
    BY <1>1, <1>3 DEF LoadRoute, IInv, Typed, Memory
  <2>5. /\ c.route = begun /\ c.state = mine[r].config.state
        /\ c.visibility = mine[r].config.visibility /\ c.operations = mine[r].config.operations
        /\ c.assets = mine[r].config.assets /\ c.brainGrants = mine[r].config.brainGrants
        /\ c.serviceGrants = mine[r].config.serviceGrants
    BY <1>1 DEF Configuration
  <2>6. /\ m.config = c /\ m.id = mine[r].id /\ m.version = mine[r].version
        /\ m.routeOf = path.version
    BY <1>1 DEF Memory
  <2> HIDE DEF c, m
  <2>7. Loads(r, m, "hops")
    <3>1. begun # NoRoute
      BY <2>2, ConstantsAreTyped
    <3>2. pc[r] \in Reading /\ Goto(r, "hops") /\ UNCHANGED <<store, ask, answer, seen>>
      BY <1>1, <1>3 DEF LoadRoute
    <3> QED
      BY <1>3, <2>3, <2>4, <2>5, <2>6, <3>1, <3>2 DEF Loads, Reading, ReadRoute
  <2>8. /\ mine'[r] = m /\ pc'[r] = "hops" /\ At(r)' = "hops" /\ At(r) = "route"
        /\ ~Served(r)' /\ UNCHANGED <<seen, ask, path, assets, brains, services>>
        /\ Current(r)' = Current(r)
    BY <1>1, <2>7, LoadFrame
  <2>9. ReadsWhatItWatches(r)'
    BY <1>1, <2>5, <2>6, <2>8 DEF ReadsWhatItWatches, RequestInv, Reading, ReadRow,
      ReadAssets, ReadBrains, ReadServices, ReadTerminal, ReadRoute, Is
  <2>10. ReadsOneExactly(r)'
    BY <1>1, <1>3, <2>5, <2>6, <2>8, Witnessed DEF ReadsOneExactly, ReadsExactly,
      RequestInv, Reading, ReadRow, ReadAssets, ReadBrains, ReadServices, ReadTerminal,
      ReadRoute
  <2>11. KeepsWhatItDoesNotPatch(r)'
    BY <1>1, <1>3, <2>5, <2>6, <2>8 DEF KeepsWhatItDoesNotPatch, RequestInv, Merged,
      ReadRow, ReadAssets, ReadBrains, ReadServices, ReadTerminal, ReadRoute, Unchanged,
      Patches, Is
  <2> QED
    BY <2>7, <2>9, <2>10, <2>11, LoadKeeps
<1> QED
  BY <1>2, <1>3

(* If the route was not replaced, its hops complete it.                     *)
LEMMA LoadHopsStep ==
  ASSUME IInv, NEW r \in Requests, LoadHops(r)
  PROVE  IInv'
<1> DEFINE last == IF Is(r, {"patch"}) THEN "merge" ELSE "run"
           hops == IF Current(r) /\ path.version = mine[r].routeOf
                     THEN path.config.route.hops ELSE <<>>
           old == mine[r].config.route
           route == [old EXCEPT !.hops = hops]
           c == [mine[r].config EXCEPT !.route = route]
           m == [mine[r] EXCEPT !.config = c]
           Routes == [hops: Seq(Services), terminal: Terminals \cup {NoBrain}]
<1>1. /\ mine[r] \in Memory /\ mine[r].config \in Configuration /\ RequestInv(r)
      /\ pc[r] = "hops" /\ pc[r] \in Reading
      /\ Is(r, {"patch", "pull", "send"})
  BY Memories DEF LoadHops, IInv, Typed, Reading, RequestInv, StepFits
<1>2. /\ old \in Routes
      /\ Current(r) /\ path.version = mine[r].routeOf =>
           /\ path.config.route \in Routes /\ path.config.route # NoRoute
  BY <1>1, Witnessed, Fields DEF RequestInv, KnowsThePast
<1>3. hops \in Seq(Services) /\ route \in Routes
  <2>1. hops \in Seq(Services)
    <3>1. \A t \in Routes : t.hops \in Seq(Services)
      OBVIOUS
    <3> QED
      BY <1>2, <3>1
  <2>2. \A t \in Routes : \A h \in Seq(Services) : [t EXCEPT !.hops = h] \in Routes
    OBVIOUS
  <2> QED
    BY <1>2, <2>1, <2>2
<1>4. c \in Configuration /\ m \in Memory
  <2>1. c \in Configuration
    BY <1>1, <1>3, Fields
  <2> QED
    BY <1>1, <2>1, Memories
<1>5. mine' = [mine EXCEPT ![r] = m]
  BY <1>1 DEF LoadHops, IInv, Typed, Memory, Configuration
<1>6. /\ c.route = route /\ c.state = mine[r].config.state
      /\ c.visibility = mine[r].config.visibility /\ c.operations = mine[r].config.operations
      /\ c.assets = mine[r].config.assets /\ c.brainGrants = mine[r].config.brainGrants
      /\ c.serviceGrants = mine[r].config.serviceGrants
  BY <1>1 DEF Configuration
<1>7. m.config = c /\ m.id = mine[r].id /\ m.version = mine[r].version
  BY <1>1 DEF Memory
<1>8. ASSUME Current(r), path.version = mine[r].routeOf,
             old = [hops |-> <<>>, terminal |-> path.config.route.terminal]
      PROVE  route = path.config.route
  <2>1. path.config.route \in Routes
    BY <1>2, <1>8
  <2>2. route = [hops |-> path.config.route.hops, terminal |-> path.config.route.terminal]
    BY <1>8
  <2> QED
    BY <2>1, <2>2
<1> HIDE DEF c, m, route, old, hops
<1>9. Loads(r, m, last)
  BY <1>1, <1>4, <1>5, <1>7 DEF LoadHops, Loaded, Loads, Reading, ReadRoute, Is
<1>10. /\ mine'[r] = m /\ pc'[r] = last /\ At(r)' = last /\ At(r) = "hops"
       /\ ~Served(r)' /\ UNCHANGED <<seen, ask, path, assets, brains, services>>
       /\ Current(r)' = Current(r)
  BY <1>1, <1>9, LoadFrame
<1>11. ReadsWhatItWatches(r)'
  BY <1>1, <1>6, <1>7, <1>10 DEF ReadsWhatItWatches, RequestInv, Reading, ReadRow,
    ReadAssets, ReadBrains, ReadServices, ReadTerminal, ReadRoute, Is
<1>12. ReadsOneExactly(r)'
  BY <1>1, <1>6, <1>7, <1>8, <1>10, Witnessed DEF old, ReadsOneExactly, ReadsExactly,
    RequestInv, Reading, ReadRow, ReadAssets, ReadBrains, ReadServices, ReadTerminal,
    ReadRoute
<1>13. KeepsWhatItDoesNotPatch(r)'
  BY <1>1, <1>6, <1>7, <1>8, <1>10 DEF old, KeepsWhatItDoesNotPatch, RequestInv, Merged,
    ReadRow, ReadAssets, ReadBrains, ReadServices, ReadTerminal, ReadRoute, Unchanged,
    Patches, Is
<1> QED
  BY <1>9, <1>11, <1>12, <1>13, LoadKeeps

-----------------------------------------------------------------------------
(* Of a request that writes, only its patch and its version are looked at   *)
(* until it is validated.                                                   *)
Writes(r, m, next) ==
  /\ pc[r] \in {"merge", "registry", "lookup"} /\ Goto(r, next)
  /\ next \in {"registry", "lookup", "write"}
  /\ m \in Memory /\ m.id = mine[r].id /\ m.version = mine[r].version
  /\ mine' = [mine EXCEPT ![r] = m]
  /\ UNCHANGED <<store, ask, answer, seen>>

(* What a step between the load and the transaction leaves as it was.       *)
LEMMA WriteFrame ==
  ASSUME IInv, NEW r \in Requests, NEW m, NEW next, Writes(r, m, next)
  PROVE  /\ mine'[r] = m /\ pc'[r] = next /\ Current(r)' = Current(r)
         /\ Unchanged(r)' = Unchanged(r)
         /\ UNCHANGED <<ask, path, assets, brains, services>>
         /\ RequestInv(r) /\ Is(r, {"create", "patch"})
<1>1. /\ mine'[r] = m /\ pc'[r] = next /\ RequestInv(r) /\ mine[r] \in Memory
      /\ UNCHANGED <<ask, path, assets, brains, services>>
  BY DEF Writes, Goto, IInv, Typed, store
<1>2. Is(r, {"create", "patch"})
  BY <1>1 DEF Writes, RequestInv, StepFits, Is, Merged
<1> QED
  BY <1>1, <1>2 DEF Writes, Current, Unchanged

(* So it has to show only its fields, and what it has made sure of.         *)
LEMMA WriteKeeps ==
  ASSUME IInv, NEW r \in Requests, NEW m, NEW next, Writes(r, m, next),
         KeepsWhatItDoesNotPatch(r)', Vouched(r)'
  PROVE  IInv'
<1>1. /\ mine'[r] = m /\ pc'[r] = next /\ Current(r)' = Current(r) /\ RequestInv(r)
      /\ UNCHANGED <<ask, path>> /\ Is(r, {"create", "patch"})
  BY WriteFrame
<1>2. pc[r] # "start" /\ pc[r] # "done" /\ UNCHANGED <<answer, seen, created>>
  BY DEF Writes, Merged, store
<1>3. Typed'
  BY DEF Writes, Goto, IInv, Typed, Steps
<1>4. Only(r) /\ LockHeld'
  BY <1>1 DEF Writes, Goto, IInv, Typed, store, Only, Same, Stored, LockHeld, InTx
<1>5. ~Served(r)' /\ At(r)' = next
  BY <1>1, <1>2 DEF RequestInv, StepFits, Served, At
<1>6. StepFits(r)' /\ Watches(r)'
  BY <1>1, <1>2, <1>5 DEF Writes, StepFits, Watches, RequestInv, Reading, Merged, Is
<1>7. KnowsThePast(r)'
  BY <1>1, <1>2 DEF Writes, KnowsThePast, RequestInv, Is
<1>8. ReadsWhatItWatches(r)' /\ ReadsOneExactly(r)'
  BY <1>5 DEF Writes, ReadsWhatItWatches, ReadsOneExactly, ReadsExactly, Reading
<1>9. RequestInv(r)'
  BY <1>6, <1>7, <1>8 DEF RequestInv
<1> QED
  BY <1>3, <1>4, <1>9, OthersKeep

(* From the merge on, the patched fields are the patch's.                   *)
LEMMA MergePatchStep ==
  ASSUME IInv, NEW r \in Requests, MergePatch(r)
  PROVE  IInv'
<1> DEFINE c == mine[r].config
           patch == ask[r].patch
           merged == Merge(c, patch)
           m == [mine[r] EXCEPT !.config = merged]
<1>1. /\ mine[r] \in Memory /\ c \in Configuration /\ RequestInv(r) /\ pc[r] = "merge"
      /\ Is(r, {"patch"}) /\ IsAsk(ask[r])
  BY Memories, Asked DEF MergePatch, IInv, Typed, RequestInv, StepFits
<1>2. /\ DOMAIN patch \subseteq DOMAIN FieldTypes
      /\ \A f \in DOMAIN patch : patch[f] \in FieldTypes[f]
  BY <1>1 DEF IsAsk, Is
<1>3. /\ merged \in Configuration
      /\ \A f \in DOMAIN FieldTypes : merged[f] = IF f \in DOMAIN patch THEN patch[f] ELSE c[f]
  BY <1>1, <1>2, MergeTyped
<1> HIDE DEF merged
<1>4. m \in Memory /\ m.config = merged /\ m.id = mine[r].id /\ m.version = mine[r].version
  <2>1. m \in Memory
    BY <1>1, <1>3, Memories
  <2> QED
    BY <1>1, <2>1 DEF Memory
<1>5. CASE ~(Hops(c) \subseteq services /\ Fixed(c) \subseteq brains)
  <2>1. Answer(r, "failed") /\ UNCHANGED <<mine, seen, store, ask>>
    BY <1>5 DEF MergePatch
  <2>2. Only(r) /\ LockHeld' /\ mine' \in [Requests -> Memory]
    BY <1>1, <2>1 DEF Answer, Goto, IInv, Typed, store, Only, Same, Stored, LockHeld, InTx
  <2> QED
    BY <2>1, <2>2, Ends DEF Answers
<1>6. CASE Hops(c) \subseteq services /\ Fixed(c) \subseteq brains
  <2>1. mine' = [mine EXCEPT ![r] = m]
    BY <1>1, <1>6 DEF MergePatch, IInv, Typed, merged
  <2> HIDE DEF m
  <2>2. Writes(r, m, "registry")
    BY <1>1, <1>4, <1>6, <2>1 DEF MergePatch, Writes
  <2>3. /\ mine'[r] = m /\ pc'[r] = "registry" /\ Unchanged(r)' = Unchanged(r)
        /\ UNCHANGED <<ask, path, assets, brains, services>>
    BY <2>2, WriteFrame
  <2>4. \A f \in DOMAIN patch : merged[f] = patch[f]
    BY <1>2, <1>3
  <2>5. /\ Patches(r, "state")' \/ merged.state = c.state
        /\ Patches(r, "visibility")' \/ merged.visibility = c.visibility
        /\ Patches(r, "operations")' \/ merged.operations = c.operations
        /\ Patches(r, "assets")' \/ merged.assets = c.assets
        /\ Patches(r, "brainGrants")' \/ merged.brainGrants = c.brainGrants
        /\ Patches(r, "serviceGrants")' \/ merged.serviceGrants = c.serviceGrants
        /\ Patches(r, "route")' \/ merged.route = c.route
    BY <1>3, <2>3 DEF Patches, FieldTypes, Merged
  <2>6. \A f : ~Patches(r, f)
    BY <1>1 DEF Patches, Merged
  <2>7. Unchanged(r) =>
          /\ c.state = path.config.state /\ c.visibility = path.config.visibility
          /\ c.operations = path.config.operations
          /\ c.assets = path.config.assets \/ ~(Range(c.assets) \subseteq DOMAIN assets)
          /\ c.brainGrants = path.config.brainGrants \/ ~(Range(c.brainGrants) \subseteq brains)
          /\ \/ c.serviceGrants = path.config.serviceGrants
             \/ ~(Range(c.serviceGrants) \subseteq services)
          /\ c.route = path.config.route
    BY <1>1, <2>6 DEF RequestInv, KeepsWhatItDoesNotPatch, ReadRow, ReadAssets, ReadBrains,
      ReadServices, ReadTerminal, ReadRoute
  <2>8. mine'[r].config = merged /\ pc'[r] = "registry" /\ ask'[r].patch = patch
    BY <1>4, <2>3
  <2> HIDE DEF c, patch
  <2>9. KeepsWhatItDoesNotPatch(r)'
    BY <2>3, <2>4, <2>5, <2>7, <2>8 DEF KeepsWhatItDoesNotPatch, ReadRow, ReadAssets,
      ReadBrains, ReadServices, ReadTerminal, ReadRoute, Merged
  <2>10. Vouched(r)'
    BY <2>3 DEF Vouched, InTx
  <2> QED
    BY <2>2, <2>9, <2>10, WriteKeeps
<1> QED
  BY <1>5, <1>6

(* What neither the registry nor the assets give is kept as it was merged.  *)
LEMMA FieldsKeep ==
  ASSUME IInv, NEW r \in Requests, pc[r] \in Merged, pc'[r] \in Merged,
         UNCHANGED <<ask, path, assets, brains, services>>, Unchanged(r)' = Unchanged(r),
         \A f \in DOMAIN FieldTypes : mine'[r].config[f] = mine[r].config[f]
  PROVE  KeepsWhatItDoesNotPatch(r)'
<1> DEFINE c == mine[r].config
           d == mine'[r].config
<1>1. /\ d.state = c.state /\ d.visibility = c.visibility /\ d.operations = c.operations
      /\ d.assets = c.assets /\ d.brainGrants = c.brainGrants
      /\ d.serviceGrants = c.serviceGrants /\ d.route = c.route
  BY DEF FieldTypes
<1>2. Is(r, {"patch"}) => \A f \in DOMAIN ask[r].patch : d[f] = c[f]
  <2>1. IsAsk(ask[r])
    BY Asked DEF IInv
  <2> QED
    BY <2>1 DEF IsAsk, Is
<1>3. KeepsWhatItDoesNotPatch(r)
  BY DEF IInv, RequestInv
<1>4. pc'[r] \notin {"hops"} /\ \A f : Patches(r, f)' = Patches(r, f)
  BY DEF Patches, Merged
<1> HIDE DEF c, d
<1>5. Is(r, {"patch"})' = Is(r, {"patch"})
  BY DEF Is
<1> QED
  BY <1>1, <1>2, <1>3, <1>4, <1>5 DEF KeepsWhatItDoesNotPatch, c, d

(* The registry's answer is no field of a patch.                            *)
LEMMA ListRegistryStep ==
  ASSUME IInv, NEW r \in Requests, ListRegistry(r)
  PROVE  IInv'
<1> DEFINE c == mine[r].config
           p == IF path # NoPath /\ path.id # mine[r].id THEN "other" ELSE "own"
           d == [c EXCEPT !.path = p]
           m == [mine[r] EXCEPT !.brains = brains, !.services = services, !.config = d]
<1>1. /\ mine[r] \in Memory /\ c \in Configuration /\ RequestInv(r) /\ pc[r] = "registry"
      /\ brains \in SUBSET Brains /\ services \in SUBSET Services /\ p \in {"own", "other"}
  BY Memories DEF ListRegistry, IInv, Typed, StoreStands
<1>2. d \in Configuration
  BY <1>1, Fields
<1>3. \A f \in DOMAIN FieldTypes : d[f] = c[f]
  BY <1>1 DEF FieldTypes, Configuration
<1>4. d.path = p
  BY <1>1 DEF Configuration
<1>5. mine' = [mine EXCEPT ![r] = m]
  BY <1>1 DEF ListRegistry, IInv, Typed, Memory
<1> HIDE DEF d, p, c
<1>6. m \in Memory /\ m.id = mine[r].id /\ m.version = mine[r].version /\ m.config = d
  BY <1>1, <1>2 DEF Memory
<1> HIDE DEF m
<1>7. Writes(r, m, "lookup")
  BY <1>1, <1>5, <1>6 DEF ListRegistry, Writes
<1>8. /\ mine'[r] = m /\ pc'[r] = "lookup" /\ Unchanged(r)' = Unchanged(r)
      /\ UNCHANGED <<ask, path, assets, brains, services>>
  BY <1>7, WriteFrame
<1>9. KeepsWhatItDoesNotPatch(r)'
  BY <1>1, <1>3, <1>6, <1>8, FieldsKeep DEF Merged, c
<1>10. Vouched(r)'
  BY <1>1, <1>4, <1>6, <1>8 DEF Vouched, InTx
<1> QED
  BY <1>7, <1>9, <1>10, WriteKeeps

(* A configuration with no errors goes on; any other is answered.           *)
LEMMA ValidateStep ==
  ASSUME IInv, NEW r \in Requests, Validate(r)
  PROVE  IInv'
<1> DEFINE found == {a \in DOMAIN assets \cap Range(mine[r].config.assets) :
                       assets[a].brain = Source}
           m == [mine[r] EXCEPT !.assets = Restrict(assets, found)]
<1>1. /\ mine[r] \in Memory /\ mine[r].config \in Configuration /\ RequestInv(r)
      /\ pc[r] = "lookup"
  BY Memories DEF Validate, IInv, Typed
<1>2. DOMAIN assets \subseteq Assets /\ \A a \in DOMAIN assets : assets[a] \in Asset
  BY InputsAreTyped DEF IInv, StoreStands
<1>3. found \in SUBSET Assets /\ Restrict(assets, found) \in [found -> Asset]
  BY <1>2 DEF Restrict
<1>4. m \in Memory
  BY <1>1, <1>3, Memories
<1>5. mine' = [mine EXCEPT ![r] = m]
  BY DEF Validate
<1>6. CASE ValidateConfiguration(m.config, ContextOf(m)) = {}
  <2>1. Goto(r, "write") /\ UNCHANGED <<answer, store, ask, seen>>
    BY <1>6 DEF Validate
  <2> HIDE DEF found
  <2>2. m.config = mine[r].config /\ m.id = mine[r].id /\ m.version = mine[r].version
    BY <1>1 DEF Memory
  <2> HIDE DEF m
  <2>3. Writes(r, m, "write")
    BY <1>1, <1>4, <1>5, <2>1, <2>2 DEF Writes
  <2>4. /\ mine'[r] = m /\ pc'[r] = "write" /\ Unchanged(r)' = Unchanged(r)
        /\ UNCHANGED <<ask, path, assets, brains, services>>
    BY <2>3, WriteFrame
  <2>5. KeepsWhatItDoesNotPatch(r)'
    BY <1>1, <2>2, <2>4, FieldsKeep DEF Merged
  <2>6. Vouched(r)'
    <3>1. m.config.path \in {"own", "other"}
      BY <1>1, <2>2 DEF RequestInv, Vouched, Merged
    <3>2. ValidateConfiguration(mine[r].config, ContextOf(mine[r]))'
            = ValidateConfiguration(m.config, ContextOf(m))
      BY <2>4 DEF ContextOf
    <3> QED
      BY <1>6, <2>4, <3>1, <3>2 DEF Vouched, InTx
  <2> QED
    BY <2>3, <2>5, <2>6, WriteKeeps
<1>7. CASE ValidateConfiguration(m.config, ContextOf(m)) # {}
  <2>1. Answer(r, "invalid") /\ UNCHANGED <<store, ask, seen>>
    BY <1>7 DEF Validate
  <2> HIDE DEF found
  <2>2. m.id = mine[r].id /\ m.version = mine[r].version
    BY <1>1 DEF Memory
  <2> HIDE DEF m
  <2>3. mine' \in [Requests -> Memory] /\ mine'[r] = m
    BY <1>4, <1>5 DEF IInv, Typed
  <2>4. Only(r) /\ LockHeld'
    BY <1>1, <1>5, <2>1 DEF Answer, Goto, IInv, Typed, store, Only, Same, Stored,
      LockHeld, InTx
  <2> QED
    BY <2>1, <2>2, <2>3, <2>4, Ends DEF Answers
<1> QED
  BY <1>6, <1>7

-----------------------------------------------------------------------------
(* A request goes on in its transaction with what it has assembled.         *)
LEMMA TransactionKeeps ==
  ASSUME IInv, NEW r \in Requests, NEW next \in InTx, pc[r] \in {"write", "relate"},
         Goto(r, next), lock' = r, lock \in {r, NoRequest},
         UNCHANGED <<Stored, ask, mine, answer, seen>>,
         Vouched(r)'
  PROVE  IInv'
<1>1. /\ pc'[r] = next /\ RequestInv(r) /\ next \in Merged /\ pc[r] \in Merged
      /\ UNCHANGED <<path, brains, services, assets, created, ask, mine, answer, seen>>
  BY DEF Goto, IInv, Typed, InTx, Merged, Stored
<1>2. Typed' /\ LockHeld' /\ Only(r)
  <2>1. NoRequest \notin Requests
    BY InputsAreTyped
  <2>2. \A q \in Requests \ {r} : pc[q] \notin InTx
    BY <2>1 DEF IInv, LockHeld
  <2> QED
    BY <1>1, <2>1, <2>2 DEF Goto, IInv, Typed, Steps, InTx, LockHeld, Only, Same, Stored
<1>3. Current(r)' = Current(r) /\ Unchanged(r)' = Unchanged(r) /\ Served(r)' = Served(r)
      /\ ~Served(r) /\ At(r)' = next
  BY <1>1 DEF Current, Unchanged, Served, RequestInv, StepFits, Merged, At
<1>4. StepFits(r)' /\ KnowsThePast(r)' /\ Watches(r)'
  BY <1>1, <1>3 DEF RequestInv, StepFits, KnowsThePast, Watches, Reading, Merged, Is, InTx
<1>5. ReadsWhatItWatches(r)' /\ ReadsOneExactly(r)'
  BY <1>3 DEF ReadsWhatItWatches, ReadsOneExactly, ReadsExactly, Reading, InTx
<1>6. KeepsWhatItDoesNotPatch(r)'
  BY <1>1, <1>3, FieldsKeep
<1>7. RequestInv(r)'
  BY <1>4, <1>5, <1>6 DEF RequestInv
<1> QED
  BY <1>2, <1>7, OthersKeep

(* The compare-and-set holds the path at the version the client named.      *)
LEMMA BeginWriteStep ==
  ASSUME IInv, NEW r \in Requests, BeginWrite(r)
  PROVE  IInv'
<1> DEFINE applies == IF Is(r, {"create"}) THEN path = NoPath ELSE Unchanged(r)
           failure == IF Is(r, {"create"}) THEN "name_exists" ELSE "conflict"
<1>1. /\ pc[r] = "write" /\ RequestInv(r) /\ UNCHANGED <<Stored, ask, mine, seen>>
      /\ mine \in [Requests -> Memory] /\ Is(r, {"create", "patch"})
  BY DEF BeginWrite, IInv, Typed, Stored, RequestInv, StepFits, Merged
<1>2. CASE applies /\ lock = NoRequest /\ lock' = r /\ Goto(r, "relate") /\ UNCHANGED answer
  <2>1. pc'[r] = "relate"
    BY <1>2 DEF Goto, IInv, Typed
  <2>2. Vouched(r)'
    <3>1. ValidateConfiguration(mine[r].config, ContextOf(mine[r]))'
            = ValidateConfiguration(mine[r].config, ContextOf(mine[r]))
      BY <1>1 DEF ContextOf
    <3>2. applies' = applies
      BY <1>1 DEF Is, Unchanged, Current, Stored
    <3> HIDE DEF applies
    <3>3. Vouched(r) /\ mine' = mine
      BY <1>1 DEF RequestInv
    <3> QED
      BY <1>1, <1>2, <2>1, <3>1, <3>2, <3>3 DEF Vouched, InTx, Merged, applies
  <2> QED
    BY <1>1, <1>2, <2>2, TransactionKeeps DEF InTx
<1>3. CASE Answer(r, failure) /\ UNCHANGED lock
  <2>1. Only(r) /\ LockHeld'
    BY <1>1, <1>3 DEF Answer, Goto, IInv, Typed, Only, Same, Stored, LockHeld, InTx
  <2> QED
    BY <1>1, <1>3, <2>1, Ends DEF Answers
<1> QED
  BY <1>2, <1>3 DEF BeginWrite, Unchanged

(* Whatever a request was at, a rollback leaves the store to the others.    *)
LEMMA RollbackStep ==
  ASSUME IInv, NEW r \in Requests, Rollback(r, "failed")
  PROVE  IInv'
<1>1. /\ UNCHANGED <<Stored, ask, mine, seen>> /\ mine \in [Requests -> Memory]
      /\ Answer(r, "failed") /\ NoRequest \notin Requests
  BY InputsAreTyped DEF Rollback, Stored, IInv, Typed
<1>2. Only(r)
  BY <1>1 DEF Answer, Goto, IInv, Typed, Only, Same
<1>3. LockHeld'
  BY <1>1 DEF Rollback, Answer, Goto, IInv, Typed, LockHeld, InTx
<1> QED
  BY <1>1, <1>2, <1>3, Ends DEF Answers

(* The foreign keys find every row, or the transaction is rolled back.      *)
LEMMA InsertRelationsStep ==
  ASSUME IInv, NEW r \in Requests, InsertRelations(r)
  PROVE  IInv'
<1>1. CASE Refers(mine[r].config, brains, services, assets)
  <2>1. /\ pc[r] = "relate" /\ Goto(r, "commit") /\ UNCHANGED <<store, ask, mine, answer, seen>>
        /\ RequestInv(r)
    BY <1>1 DEF InsertRelations, IInv
  <2>2. lock' = r /\ lock = r /\ UNCHANGED <<Stored, path, brains, services, assets>>
    BY <2>1 DEF store, Stored, IInv, LockHeld, InTx
  <2>3. pc'[r] = "commit"
    BY <2>1 DEF Goto, IInv, Typed
  <2>4. Vouched(r)'
    <3>1. ValidateConfiguration(mine[r].config, ContextOf(mine[r]))'
            = ValidateConfiguration(mine[r].config, ContextOf(mine[r]))
      BY <2>1 DEF ContextOf
    <3>2. Unchanged(r)' = Unchanged(r) /\ Is(r, {"create"})' = Is(r, {"create"})
      BY <2>1, <2>2 DEF Is, Unchanged, Current
    <3>3. Refers(mine[r].config, brains, services, assets)'
      BY <1>1, <2>1, <2>2 DEF Refers
    <3>4. Vouched(r) /\ UNCHANGED <<mine, path>>
      BY <2>1, <2>2 DEF RequestInv
    <3> QED
      BY <2>1, <2>3, <3>1, <3>2, <3>3, <3>4 DEF Vouched, InTx, Merged
  <2> QED
    BY <2>1, <2>2, <2>4, TransactionKeeps DEF InTx
<1>2. CASE ~Refers(mine[r].config, brains, services, assets)
  BY <1>2, RollbackStep DEF InsertRelations
<1> QED
  BY <1>1, <1>2

-----------------------------------------------------------------------------
(* What is delivered has passed executeRoute's checks.                      *)
LEMMA ExecutedIsPermitted ==
  ASSUME NEW c, NEW x, NEW q \in Call, x.brains \subseteq Brains,
         ExecuteRoute(c, x, q).code = "ok"
  PROVE  c.route # NoRoute /\ \E d \in Brains : Permitted(c, x, q, d)
<1> DEFINE authorization == Authorize(AuthorizationInput(c, x, q))
<1>1. /\ c.route # NoRoute /\ c.route.terminal \in x.brains \cup {"caller"}
      /\ authorization.code = "ok"
  BY DEF ExecuteRoute, Refuse
<1>2. Permitted(c, x, q, authorization.destination)
  BY <1>1, AuthorizeIsPermitted DEF Terminals
<1> QED
  BY <1>1, <1>2 DEF Permitted

(* What executeRoute lets pass is permitted by what was read.               *)
LEMMA RunStep ==
  ASSUME IInv, NEW r \in Requests, Run(r)
  PROVE  IInv'
<1> DEFINE c == mine[r].config
           call == ask[r].call
           result == ExecuteRoute(c, CallContext(r), call)
           answered == IF Is(r, {"send"}) /\ ~Enabled(c) THEN "disabled"
                       ELSE IF call.initiator \notin brains THEN "refused"
                       ELSE IF ~Current(r) THEN "failed"
                       ELSE IF result.code = "ok" THEN "delivered" ELSE "refused"
<1>1. /\ pc[r] = "run" /\ RequestInv(r) /\ Is(r, {"pull", "send"}) /\ IsAsk(ask[r])
      /\ UNCHANGED <<store, Stored, lock, path, created, ask, mine, seen>>
      /\ Answer(r, answered)
  BY Asked DEF Run, IInv, RequestInv, StepFits, store, Stored
<1>2. /\ pc'[r] = "done" /\ answer'[r] = answered /\ mine \in [Requests -> Memory]
  BY <1>1 DEF Answer, Goto, IInv, Typed
<1>3. Only(r) /\ LockHeld'
  <2>1. \A q \in Requests \ {r} : pc'[q] = pc[q] /\ answer'[q] = answer[q]
    BY <1>1 DEF Answer, Goto, IInv, Typed
  <2> HIDE DEF answered
  <2> QED
    BY <1>1, <1>2, <2>1 DEF Only, Same, LockHeld, InTx, IInv
<1>4. CASE answered \in Answers
  <2> HIDE DEF answered
  <2> QED
    BY <1>1, <1>2, <1>3, <1>4, Ends
<1>5. CASE answered = "delivered"
  <2>1. (Is(r, {"send"}) => Enabled(c)) /\ result.code = "ok"
    BY <1>5
  <2> HIDE DEF answered
  <2>2. call \in Call
    BY <1>1 DEF IsAsk, Is
  <2>3. CallContext(r).source = Source /\ CallContext(r).brains \subseteq Brains
    BY DEF CallContext, ContextOf, IInv, StoreStands
  <2>4. c.route # NoRoute /\ \E d \in Brains : Permitted(c, CallContext(r), call, d)
    BY <2>1, <2>2, <2>3, ExecutedIsPermitted
  <2>5. \E d \in Brains : Permitted(c, [source |-> Source], call, d)
    BY <2>3, <2>4 DEF Permitted
  <2>6. /\ Served(r)' /\ At(r)' = "run" /\ ~Served(r) /\ At(r) = "run"
        /\ Current(r)' = Current(r)
    BY <1>1, <1>2, <1>5 DEF Served, At, RequestInv, StepFits, Current
  <2> HIDE DEF result
  <2>7. Typed'
    BY <1>1, <1>2, <1>5 DEF Answer, Goto, IInv, Typed, Steps, Ended
  <2>8. StepFits(r)' /\ KnowsThePast(r)' /\ Watches(r)'
    BY <1>1, <1>2, <2>6 DEF RequestInv, StepFits, KnowsThePast, Watches, Reading, Merged, Is
  <2>9. ReadsWhatItWatches(r)'
    <3>1. ReadsWhatItWatches(r)
      BY <1>1 DEF RequestInv
    <3> QED
      BY <1>1, <2>1, <2>4, <2>5, <2>6, <3>1 DEF ReadsWhatItWatches, Is
  <2>10. ReadsOneExactly(r)'
    <3>1. ReadsOneExactly(r)
      BY <1>1 DEF RequestInv
    <3> QED
      BY <1>1, <2>6, <3>1 DEF ReadsOneExactly, ReadsExactly
  <2>11. KeepsWhatItDoesNotPatch(r)' /\ Vouched(r)'
    BY <1>1, <1>2 DEF KeepsWhatItDoesNotPatch, Vouched, Is, InTx, Merged
  <2>12. RequestInv(r)'
    BY <2>8, <2>9, <2>10, <2>11 DEF RequestInv
  <2> QED
    BY <1>3, <2>7, <2>12, OthersKeep
<1>6. answered \in Answers \/ answered = "delivered"
  BY DEF Answers
<1> QED
  BY <1>4, <1>5, <1>6

-----------------------------------------------------------------------------
(* The steps that change the store.  A version keeps what is not deleted    *)
(* under it.                                                                *)
KeepsVersion ==
  LET c == path.config
      d == path'.config
  IN
  /\ d.state = c.state /\ d.visibility = c.visibility /\ d.operations = c.operations
  /\ d.route = c.route
  /\ d.assets = c.assets \/ ~(Range(c.assets) \subseteq DOMAIN assets')
  /\ d.brainGrants = c.brainGrants \/ ~(Range(c.brainGrants) \subseteq brains')
  /\ d.serviceGrants = c.serviceGrants \/ ~(Range(c.serviceGrants) \subseteq services')

(* A path keeps its id and gets higher versions; another one gets a new id. *)
StoreMoves ==
  /\ path' \in StoredPath \cup {NoPath} /\ created' \in Nat /\ created <= created'
  /\ path' # NoPath =>
       \/ path'.id = created + 1
       \/ /\ path # NoPath /\ path'.id = path.id /\ path.version <= path'.version
          /\ path'.version = path.version => KeepsVersion
  /\ DOMAIN assets' \subseteq DOMAIN assets /\ brains' \subseteq brains
  /\ services' \subseteq services
  /\ UNCHANGED ask

(* A path that a request knows is the one it knew, and no older.            *)
LEMMA StillKnows ==
  ASSUME IInv, StoreMoves, NEW q \in Requests,
         pc'[q] \in {pc[q], "done"}, mine'[q] = mine[q]
  PROVE  /\ KnowsThePast(q)'
         /\ Current(q)' => /\ Current(q) /\ path'.id = path.id /\ path.version <= path'.version
                           /\ path'.version = path.version => KeepsVersion
         /\ Unchanged(q)' => Unchanged(q) /\ KeepsVersion
<1>1. /\ RequestInv(q) /\ mine[q] \in Memory /\ mine[q].id \in Nat /\ mine[q].version \in Nat
      /\ mine[q].routeOf \in Nat /\ created \in Nat
      /\ path # NoPath => path \in StoredPath /\ path.id = created /\ path.version \in Nat
      /\ path' # NoPath => path'.version \in Nat
  BY DEF IInv, Typed, StoreStands, StoreMoves, Memory, StoredPath
<1>2. \A ops : Is(q, ops)' = Is(q, ops)
  BY DEF StoreMoves, Is
<1>3. /\ mine[q].id <= created
      /\ Current(q) => mine[q].version <= path.version
  BY <1>1 DEF RequestInv, KnowsThePast
<1>4. Current(q)' => /\ Current(q) /\ path'.id = path.id /\ path.version <= path'.version
                     /\ path'.version = path.version => KeepsVersion
  <2>1. Current(q)' => path' # NoPath /\ path'.id = mine[q].id
    BY DEF Current
  <2>2. created + 1 # mine[q].id
    BY <1>1, <1>3
  <2> QED
    BY <2>1, <2>2 DEF StoreMoves, Current
<1>5. KnowsThePast(q)'
  <2>1. mine[q].id <= created'
    BY <1>1, <1>3 DEF StoreMoves
  <2>2. Current(q)' => mine[q].version <= path'.version
    BY <1>1, <1>3, <1>4 DEF Current
  <2>3. ASSUME pc'[q] = "hops", Current(q)'
        PROVE  /\ mine[q].routeOf <= path'.version
               /\ mine[q].routeOf = path'.version => path'.config.route # NoRoute
    <3>1. /\ mine[q].routeOf <= path.version
          /\ mine[q].routeOf = path.version => path.config.route # NoRoute
      BY <1>1, <1>4, <2>3 DEF RequestInv, KnowsThePast
    <3>2. path.version \in Nat /\ path'.version \in Nat
      BY <1>1, <1>4, <2>3 DEF Current
    <3>3. mine[q].routeOf = path'.version => path'.version = path.version
      BY <1>1, <1>4, <2>3, <3>1, <3>2
    <3> QED
      BY <1>1, <1>4, <2>3, <3>1, <3>2, <3>3 DEF KeepsVersion
  <2> QED
    BY <1>1, <1>2, <2>1, <2>2, <2>3 DEF RequestInv, KnowsThePast
<1>6. Unchanged(q)' => Unchanged(q) /\ KeepsVersion
  BY <1>1, <1>3, <1>4 DEF Unchanged, Current
<1> QED
  BY <1>4, <1>5, <1>6

(* The others keep what they rely on, given what the transactions rely on.  *)
LEMMA OthersWitness ==
  ASSUME IInv, StoreMoves, NEW q \in Requests,
         pc'[q] = pc[q], mine'[q] = mine[q], answer'[q] = answer[q],
         seen'[q] = IF pc[q] \in Reading \cup {"run"} /\ Current(q)
                      THEN seen[q] \cup {path'} ELSE seen[q],
         Vouched(q)'
  PROVE  RequestInv(q)'
<1>1. RequestInv(q)
  BY DEF IInv
<1>2. /\ Served(q)' = Served(q) /\ At(q)' = At(q) /\ \A ops : Is(q, ops)' = Is(q, ops)
      /\ \A f : Patches(q, f)' = Patches(q, f)
  BY DEF StoreMoves, Served, At, Is, Patches
<1>3. Unchanged(q)' => Unchanged(q) /\ KeepsVersion
  BY StillKnows
<1>4. Current(q)' => /\ Current(q) /\ path'.id = path.id /\ path.version <= path'.version
                     /\ path'.version = path.version => KeepsVersion
  BY StillKnows
<1>5. StepFits(q)'
  BY <1>1, <1>2 DEF RequestInv, StepFits
<1>6. KnowsThePast(q)'
  BY StillKnows
<1>7. ASSUME NEW p \in seen'[q], seen'[q] = {p}
      PROVE  seen[q] = {p} /\ p \in seen[q] /\ (pc[q] \in Reading \cup {"run"} => path' = path)
  BY <1>1, <1>7 DEF RequestInv, Watches
<1>8. Watches(q)'
  <2>1. seen'[q] \subseteq StoredPath \cup {NoPath}
    BY <1>1 DEF RequestInv, Watches, StoreMoves
  <2>2. pc[q] \in Reading \cup {"run"} /\ Current(q)' => path' \in seen'[q]
    BY <1>4
  <2>3. ASSUME NEW p \in seen'[q], seen'[q] = {p}, pc[q] \in Reading \cup {"run"}
        PROVE  Current(q)'
    BY <1>1, <1>7, <2>3 DEF RequestInv, Watches, Current
  <2> QED
    BY <2>1, <2>2, <2>3 DEF Watches
<1>9. ReadsWhatItWatches(q)'
  <2>1. seen[q] \subseteq seen'[q]
    OBVIOUS
  <2>2. ReadsWhatItWatches(q) /\ ask'[q] = ask[q]
    BY <1>1 DEF RequestInv, StoreMoves
  <2> QED
    BY <1>2, <2>1, <2>2 DEF ReadsWhatItWatches
<1>10. ReadsOneExactly(q)'
  <2>1. ReadsOneExactly(q)
    BY <1>1 DEF RequestInv
  <2>2. \A p \in seen'[q] : seen'[q] = {p} => p \in seen[q] /\ seen[q] = {p}
    BY <1>7
  <2>3. \A p : ReadsExactly(q, p)' = ReadsExactly(q, p)
    BY <1>2 DEF ReadsExactly
  <2> QED
    BY <2>1, <2>2, <2>3 DEF ReadsOneExactly
<1>11. KeepsWhatItDoesNotPatch(q)'
  <2>1. KeepsWhatItDoesNotPatch(q) /\ ask'[q] = ask[q]
    BY <1>1 DEF RequestInv, StoreMoves
  <2>2. \A S, T, U : S \subseteq T /\ ~(U \subseteq T) => ~(U \subseteq S)
    OBVIOUS
  <2>3. ASSUME Is(q, {"patch"}), Unchanged(q)'
        PROVE  path'.version = path.version
    BY <1>3, <1>4, <2>3 DEF Unchanged
  <2> QED
    BY <1>2, <1>3, <2>1, <2>2, <2>3 DEF KeepsWhatItDoesNotPatch, KeepsVersion, StoreMoves
<1> QED
  BY <1>5, <1>6, <1>8, <1>9, <1>10, <1>11 DEF RequestInv

(* What a cascade leaves of a stored path.                                  *)
LEMMA CascadeLeaves ==
  ASSUME NEW x, path \in StoredPath, KeyedOnce(path.config),
         path' = [path EXCEPT !.config.assets = Without(@, x),
                              !.config.brainGrants = Without(@, x),
                              !.config.serviceGrants = Without(@, x)]
  PROVE  LET c == path.config
             d == path'.config
         IN
         /\ path' \in StoredPath /\ path'.id = path.id /\ path'.version = path.version
         /\ d.path = c.path /\ d.state = c.state /\ d.visibility = c.visibility
         /\ d.operations = c.operations /\ d.route = c.route
         /\ d.assets = Without(c.assets, x) /\ Range(d.assets) = Range(c.assets) \ {x}
         /\ d.brainGrants = Without(c.brainGrants, x)
         /\ Range(d.brainGrants) = Range(c.brainGrants) \ {x}
         /\ d.serviceGrants = Without(c.serviceGrants, x)
         /\ Range(d.serviceGrants) = Range(c.serviceGrants) \ {x}
         /\ x \notin Range(c.assets) => d.assets = c.assets
         /\ x \notin Range(c.brainGrants) => d.brainGrants = c.brainGrants
         /\ x \notin Range(c.serviceGrants) => d.serviceGrants = c.serviceGrants
         /\ KeyedOnce(d)
<1> DEFINE c == path.config
           d == path'.config
           scope == Without(c.assets, x)
           readers == Without(c.brainGrants, x)
           carriers == Without(c.serviceGrants, x)
<1>1. c \in Configuration /\ path.id \in Nat \ {0} /\ path.version \in Nat \ {0}
  BY DEF StoredPath
<1>2. c.assets \in Seq(Assets) /\ c.brainGrants \in Seq(Brains) /\ c.serviceGrants \in Seq(Services)
  BY <1>1, Fields
<1>3. ~Repeats(c.assets) /\ ~Repeats(c.brainGrants) /\ ~Repeats(c.serviceGrants)
  BY DEF KeyedOnce
<1>4. /\ scope \in Seq(Assets) /\ Range(scope) = Range(c.assets) \ {x} /\ ~Repeats(scope)
      /\ x \notin Range(c.assets) => scope = c.assets
  BY <1>2, <1>3, WithoutOne
<1>5. /\ readers \in Seq(Brains) /\ Range(readers) = Range(c.brainGrants) \ {x}
      /\ ~Repeats(readers)
      /\ x \notin Range(c.brainGrants) => readers = c.brainGrants
  BY <1>2, <1>3, WithoutOne
<1>6. /\ carriers \in Seq(Services) /\ Range(carriers) = Range(c.serviceGrants) \ {x}
      /\ ~Repeats(carriers)
      /\ x \notin Range(c.serviceGrants) => carriers = c.serviceGrants
  BY <1>2, <1>3, WithoutOne
<1>7. path' = [path EXCEPT !.config = [c EXCEPT !.assets = scope, !.brainGrants = readers,
                                                !.serviceGrants = carriers]]
  BY <1>1 DEF StoredPath, Configuration
<1> HIDE DEF scope, readers, carriers
<1>8. d = [c EXCEPT !.assets = scope, !.brainGrants = readers, !.serviceGrants = carriers]
  BY <1>1, <1>7 DEF StoredPath
<1>9. d \in Configuration
  <2>1. [c EXCEPT !.assets = scope] \in Configuration
    BY <1>1, <1>4, Fields
  <2>2. [c EXCEPT !.assets = scope, !.brainGrants = readers] \in Configuration
    BY <1>5, <2>1, Fields
  <2> QED
    BY <1>6, <1>8, <2>2, Fields
<1>10. path' \in StoredPath /\ path'.id = path.id /\ path'.version = path.version
  <2> HIDE DEF d
  <2>1. path' = [path EXCEPT !.config = d]
    BY <1>7, <1>8
  <2> QED
    BY <1>9, <2>1 DEF StoredPath
<1>11. /\ d.path = c.path /\ d.state = c.state /\ d.visibility = c.visibility
       /\ d.operations = c.operations /\ d.route = c.route
       /\ d.assets = scope /\ d.brainGrants = readers /\ d.serviceGrants = carriers
  <2> HIDE DEF c, d
  <2> QED
    BY <1>1, <1>8 DEF Configuration
<1> QED
  BY <1>4, <1>5, <1>6, <1>10, <1>11 DEF KeyedOnce, scope, readers, carriers

(* The end of a step that changes the store and no request's memory.        *)
LEMMA StoreKeeps ==
  ASSUME IInv, StoreMoves, StoreStands', UNCHANGED <<lock, pc, mine, answer>>,
         Witness, \A q \in Requests : Vouched(q)'
  PROVE  IInv'
<1>1. ASSUME NEW q \in Requests
      PROVE  RequestInv(q)'
  <2>1. seen'[q] = IF pc[q] \in Reading \cup {"run"} /\ Current(q)
                     THEN seen[q] \cup {path'} ELSE seen[q]
    BY DEF Witness
  <2> QED
    BY <2>1, OthersWitness
<1>2. Typed' /\ LockHeld'
  BY DEF IInv, Typed, LockHeld, Witness, StoreMoves
<1> QED
  BY <1>1, <1>2 DEF IInv

(* The deletion of a row, whichever table it is in.                         *)
Deletes(x) ==
  /\ x # Source /\ Deletable(x) /\ Cascade(x)
  /\ path # NoPath => /\ x \notin Hops(path.config) \cup Fixed(path.config)
                      /\ Enabled(path.config) => x \notin Range(path.config.assets)
  /\ assets' = Restrict(assets, DOMAIN assets \ {x})
  /\ brains' = brains \ {x} /\ services' = services \ {x}
  /\ UNCHANGED <<lock, created, ask, pc, mine, answer>>

(* A deletion that the triggers and keys let pass leaves the path complete. *)
LEMMA DeletesStep ==
  ASSUME IInv, NEW x, Deletes(x)
  PROVE  IInv'
<1>1. /\ DOMAIN assets' = DOMAIN assets \ {x}
      /\ \A a \in DOMAIN assets' : assets'[a] = assets[a]
      /\ brains' = brains \ {x} /\ services' = services \ {x}
  BY DEF Deletes, Restrict
<1>2. /\ UNCHANGED <<lock, created, ask, pc, mine, answer>> /\ StoreStands
      /\ path # NoPath => path \in StoredPath /\ KeyedOnce(path.config)
  BY DEF Deletes, IInv, StoreStands
<1>3. /\ \E A \in SUBSET Assets : assets' \in [A -> {v \in AssetChoices : v.brain = Source}]
      /\ Source \in brains' /\ brains' \subseteq Brains /\ services' \subseteq Services
  BY <1>1, <1>2 DEF Deletes, StoreStands, Restrict
<1> DEFINE c == path.config
           d == path'.config
<1>4. path # NoPath =>
        /\ path' \in StoredPath /\ path'.id = path.id /\ path'.version = path.version
        /\ d.path = c.path /\ d.state = c.state /\ d.visibility = c.visibility
        /\ d.operations = c.operations /\ d.route = c.route /\ KeyedOnce(d)
        /\ Range(d.assets) = Range(c.assets) \ {x}
        /\ Range(d.brainGrants) = Range(c.brainGrants) \ {x}
        /\ Range(d.serviceGrants) = Range(c.serviceGrants) \ {x}
        /\ x \notin Range(c.assets) => d.assets = c.assets
        /\ x \notin Range(c.brainGrants) => d.brainGrants = c.brainGrants
        /\ x \notin Range(c.serviceGrants) => d.serviceGrants = c.serviceGrants
  BY <1>2, CascadeLeaves DEF Deletes, Cascade
<1>5. NoPath \notin StoredPath
  BY InputsAreTyped DEF StoredPath
<1>6. path' = NoPath <=> path = NoPath
  BY <1>4, <1>5 DEF Deletes, Cascade
<1>7. Witness
  BY <1>2 DEF Deletes, Cascade, Witness, Current, IInv, Typed
<1>8. StoreMoves
  <2>1. path # NoPath => KeepsVersion
    BY <1>1, <1>4 DEF KeepsVersion
  <2>2. path # NoPath => path.version \in Nat
    BY <1>2 DEF StoredPath
  <2> QED
    BY <1>1, <1>2, <1>4, <1>6, <2>1, <2>2 DEF StoreMoves, StoreStands
<1>9. StoreStands'
  <2>1. ASSUME path # NoPath
        PROVE  Complete(d, brains', services', assets')
    <3>1. /\ Complete(c, brains, services, assets) /\ Hops(d) = Hops(c) /\ Fixed(d) = Fixed(c)
          /\ Enabled(d) = Enabled(c)
      BY <1>2, <1>4, <2>1 DEF StoreStands, StoredPathIsComplete, Hops, Fixed, Enabled
    <3>2. /\ x \notin Hops(c) \cup Fixed(c) /\ x # Source
          /\ Enabled(c) => x \notin Range(c.assets)
      BY <2>1 DEF Deletes
    <3>3. Refers(d, brains', services', assets')
      BY <1>1, <1>4, <2>1, <3>1, <3>2 DEF Complete, Refers
    <3>4. ASSUME Enabled(d)
          PROVE  /\ d.assets # <<>> /\ d.route # NoRoute
                 /\ \A a \in Range(d.assets) : assets'[a].brain = Source
                 /\ d.visibility = "private" =>
                      /\ Hops(d) \subseteq Range(d.serviceGrants)
                      /\ Fixed(d) \ {Source} \subseteq Range(d.brainGrants)
      <4>1. /\ c.assets # <<>> /\ c.route # NoRoute
            /\ c.visibility = "private" =>
                 /\ Hops(c) \subseteq Range(c.serviceGrants)
                 /\ Fixed(c) \ {Source} \subseteq Range(c.brainGrants)
        BY <3>1, <3>4 DEF Complete
      <4>2. \A a \in Range(d.assets) : assets'[a].brain = Source
        BY <1>3, <3>3 DEF Refers
      <4> QED
        BY <1>4, <2>1, <3>1, <3>2, <3>4, <4>1, <4>2
    <3> HIDE DEF d
    <3> QED
      BY <3>3, <3>4 DEF Complete
  <2>2. path # NoPath => path.id = created /\ c.path = "own"
    BY <1>2 DEF StoreStands
  <2>3. created' \in Nat /\ created' = created
    BY <1>2 DEF StoreStands
  <2> QED
    BY <1>3, <1>4, <1>6, <2>1, <2>2, <2>3 DEF StoreStands, StoredPathIsComplete
<1>10. ASSUME NEW q \in Requests
       PROVE  Vouched(q)'
  <2>1. Vouched(q) /\ UNCHANGED <<ask, mine, pc>>
    BY <1>2 DEF IInv, RequestInv
  <2>2. Unchanged(q)' = Unchanged(q)
    BY <1>2, <1>4, <1>6 DEF Unchanged, Current
  <2>3. ValidateConfiguration(mine[q].config, ContextOf(mine[q]))'
          = ValidateConfiguration(mine[q].config, ContextOf(mine[q]))
    BY <2>1 DEF ContextOf
  <2>4. pc[q] = "commit" => Refers(mine[q].config, brains', services', assets')
    <3>1. pc[q] = "commit" => x \notin References(mine[q].config)
      BY DEF Deletes, Deletable
    <3> QED
      BY <1>1, <2>1, <3>1 DEF Vouched, Refers, References
  <2>5. Is(q, {"create"})' = Is(q, {"create"})
    BY <2>1 DEF Is
  <2> QED
    BY <1>6, <2>1, <2>2, <2>3, <2>4, <2>5 DEF Vouched
<1> QED
  BY <1>2, <1>7, <1>8, <1>9, <1>10, StoreKeeps

(* No enabled path loses an asset of its scope.                             *)
LEMMA DeleteAssetStep ==
  ASSUME IInv, NEW a \in Assets, DeleteAsset(a)
  PROVE  IInv'
<1>1. a \notin Brains \cup Services /\ Source \in Brains
  BY KindsAreDistinct, InputsAreTyped
<1>2. brains' = brains \ {a} /\ services' = services \ {a} /\ a # Source
  BY <1>1 DEF DeleteAsset, IInv, StoreStands
<1>3. path # NoPath => a \notin Hops(path.config) \cup Fixed(path.config)
  BY <1>1 DEF IInv, StoreStands, StoredPathIsComplete, Complete, Refers
<1>4. Deletes(a)
  BY <1>2, <1>3 DEF DeleteAsset, Deletes
<1> QED
  BY <1>4, DeletesStep

(* No route loses a hop.                                                    *)
LEMMA DeleteServiceStep ==
  ASSUME IInv, NEW s \in Services, DeleteService(s)
  PROVE  IInv'
<1>1. s \notin Assets \cup Brains /\ Source \in Brains
  BY KindsAreDistinct, InputsAreTyped
<1>2. DOMAIN assets \subseteq Assets /\ assets = [a \in DOMAIN assets |-> assets[a]]
  BY DEF IInv, StoreStands
<1>3. assets' = Restrict(assets, DOMAIN assets \ {s})
  BY <1>1, <1>2 DEF DeleteService, Restrict
<1>4. brains' = brains \ {s} /\ services' = services \ {s} /\ s # Source
  BY <1>1 DEF DeleteService, IInv, StoreStands
<1>5. path # NoPath => /\ s \notin Hops(path.config) \cup Fixed(path.config)
                       /\ s \notin Range(path.config.assets)
  BY <1>1, <1>2 DEF DeleteService, IInv, StoreStands, StoredPathIsComplete, Complete, Refers
<1>6. Deletes(s)
  BY <1>3, <1>4, <1>5 DEF DeleteService, Deletes
<1> QED
  BY <1>6, DeletesStep

(* No route loses its terminal, and the source stays.                       *)
LEMMA DeleteBrainStep ==
  ASSUME IInv, NEW b \in Brains, DeleteBrain(b)
  PROVE  IInv'
<1>1. b \notin Assets \cup Services
  BY KindsAreDistinct
<1>2. DOMAIN assets \subseteq Assets /\ assets = [a \in DOMAIN assets |-> assets[a]]
  BY DEF IInv, StoreStands
<1>3. assets' = Restrict(assets, DOMAIN assets \ {b})
  BY <1>1, <1>2 DEF DeleteBrain, Restrict
<1>4. brains' = brains \ {b} /\ services' = services \ {b} /\ b # Source
  BY <1>1 DEF DeleteBrain, IInv, StoreStands
<1>5. path # NoPath => /\ b \notin Hops(path.config) \cup Fixed(path.config)
                       /\ b \notin Range(path.config.assets)
  BY <1>1, <1>2 DEF DeleteBrain, IInv, StoreStands, StoredPathIsComplete, Complete, Refers
<1>6. Deletes(b)
  BY <1>3, <1>4, <1>5 DEF DeleteBrain, Deletes
<1> QED
  BY <1>6, DeletesStep

(* An overwritten asset is still the same Brain's.                          *)
LEMMA OverwriteAssetStep ==
  ASSUME IInv, NEW a \in Assets, OverwriteAsset(a)
  PROVE  IInv'
<1>1. PICK to \in AssetChoices : to.brain = assets[a].brain /\ assets' = [assets EXCEPT ![a] = to]
  BY DEF OverwriteAsset
<1>2. /\ UNCHANGED <<path, brains, services, lock, created, ask, pc, mine, answer, seen>>
      /\ a \in DOMAIN assets
  BY DEF OverwriteAsset
<1>3. PICK A \in SUBSET Assets : assets \in [A -> {v \in AssetChoices : v.brain = Source}]
  BY DEF IInv, StoreStands
<1>4. assets' \in [A -> {v \in AssetChoices : v.brain = Source}] /\ DOMAIN assets' = DOMAIN assets
  BY <1>1, <1>2, <1>3
<1>5. StoreStands'
  <2>1. StoreStands
    BY DEF IInv
  <2>2. path # NoPath /\ Enabled(path.config) =>
          \A b \in Range(path.config.assets) : assets'[b].brain = Source
    BY <1>3, <1>4, <2>1 DEF StoreStands, StoredPathIsComplete, Complete, Refers
  <2>3. StoredPathIsComplete'
    BY <1>2, <1>4, <2>1, <2>2 DEF StoreStands, StoredPathIsComplete, Complete, Refers
  <2> QED
    BY <1>2, <1>4, <2>1, <2>3 DEF StoreStands
<1>6. StoreMoves
  BY <1>2, <1>4 DEF StoreMoves, KeepsVersion, IInv, StoreStands, StoredPath
<1>7. Witness
  <2>1. \A q \in Requests : pc[q] \in Reading \cup {"run"} /\ Current(q) => path \in seen[q]
    BY DEF IInv, RequestInv, Watches
  <2> QED
    BY <1>2, <2>1 DEF Witness, IInv, Typed
<1>8. ASSUME NEW q \in Requests
      PROVE  Vouched(q)'
  <2>1. Vouched(q)
    BY DEF IInv, RequestInv
  <2>2. ValidateConfiguration(mine[q].config, ContextOf(mine[q]))'
          = ValidateConfiguration(mine[q].config, ContextOf(mine[q]))
    BY <1>2 DEF ContextOf
  <2>3. Unchanged(q)' = Unchanged(q) /\ Is(q, {"create"})' = Is(q, {"create"})
    BY <1>2 DEF Unchanged, Current, Is
  <2>4. Refers(mine[q].config, brains, services, assets)'
          = Refers(mine[q].config, brains, services, assets)
    BY <1>2, <1>4 DEF Refers
  <2> QED
    BY <1>2, <2>1, <2>2, <2>3, <2>4 DEF Vouched
<1> QED
  BY <1>2, <1>5, <1>6, <1>7, <1>8, StoreKeeps

-----------------------------------------------------------------------------
(* The end of a step that changes the store and answers its request, while  *)
(* no other request is in a transaction.                                    *)
LEMMA AnswerKeeps ==
  ASSUME IInv, StoreMoves, StoreStands', NEW r \in Requests,
         pc[r] \notin Reading \cup {"run"}, lock \in {r, NoRequest}, lock' = NoRequest,
         NEW a \in Answers, Answer(r, a), Witness, UNCHANGED mine
  PROVE  IInv'
<1>1. NoRequest \notin Requests /\ ask' = ask
  BY InputsAreTyped DEF StoreMoves
<1>2. /\ pc'[r] = "done" /\ answer'[r] = a /\ seen'[r] = seen[r]
      /\ \A q \in Requests \ {r} : pc'[q] = pc[q] /\ answer'[q] = answer[q] /\ pc[q] \notin InTx
  BY <1>1 DEF Answer, Goto, Witness, IInv, Typed, LockHeld
<1>3. Typed' /\ LockHeld'
  <2>1. Typed'
    BY <1>1 DEF Answer, Goto, Witness, IInv, Typed, Steps, Ended, Answers
  <2>2. LockHeld'
    BY <1>1, <1>2 DEF LockHeld, InTx
  <2> QED
    BY <2>1, <2>2
<1>4. RequestInv(r)'
  <2>1. RequestInv(r) /\ ~Served(r)'
    BY <1>2 DEF IInv, Served, Answers
  <2>2. KnowsThePast(r)'
    BY <1>2, StillKnows
  <2>3. StepFits(r)' /\ Watches(r)'
    BY <1>2, <2>1 DEF RequestInv, StepFits, Watches, Reading, Merged
  <2>4. ReadsWhatItWatches(r)' /\ ReadsOneExactly(r)'
    BY <1>2, <2>1 DEF ReadsWhatItWatches, ReadsOneExactly, ReadsExactly, At, Reading
  <2>5. KeepsWhatItDoesNotPatch(r)' /\ Vouched(r)'
    BY <1>2 DEF KeepsWhatItDoesNotPatch, Vouched, Merged, InTx, ReadRow, ReadAssets,
      ReadBrains, ReadServices, ReadTerminal, ReadRoute
  <2> QED
    BY <2>2, <2>3, <2>4, <2>5 DEF RequestInv
<1>5. ASSUME NEW q \in Requests, q # r
      PROVE  RequestInv(q)'
  <2>1. Vouched(q) /\ pc'[q] = pc[q] /\ answer'[q] = answer[q] /\ pc[q] \notin InTx
    BY <1>2, <1>5 DEF IInv, RequestInv
  <2>2. ValidateConfiguration(mine[q].config, ContextOf(mine[q]))'
          = ValidateConfiguration(mine[q].config, ContextOf(mine[q]))
    BY DEF ContextOf
  <2>3. Vouched(q)'
    BY <2>1, <2>2 DEF Vouched, InTx
  <2>4. seen'[q] = IF pc[q] \in Reading \cup {"run"} /\ Current(q)
                     THEN seen[q] \cup {path'} ELSE seen[q]
    BY DEF Witness
  <2> QED
    BY <2>1, <2>3, <2>4, OthersWitness
<1> QED
  BY <1>3, <1>4, <1>5 DEF IInv

(* Nobody is in a transaction while the path is deleted.                    *)
LEMMA EraseStep ==
  ASSUME IInv, NEW r \in Requests, Erase(r)
  PROVE  IInv'
<1>1. /\ pc[r] = "erase" /\ UNCHANGED <<brains, services, assets, lock, created, ask, mine>>
      /\ mine \in [Requests -> Memory]
  BY DEF Erase, IInv, Typed
<1>2. CASE ~(Current(r) /\ path.version = mine[r].version)
  <2>1. Answer(r, "conflict") /\ UNCHANGED <<path, seen>>
    BY <1>2 DEF Erase
  <2>2. Only(r) /\ LockHeld'
    BY <1>1, <2>1 DEF Answer, Goto, IInv, Typed, Only, Same, Stored, LockHeld, InTx
  <2> QED
    BY <1>1, <2>1, <2>2, Ends DEF Answers
<1>3. CASE Current(r) /\ path.version = mine[r].version
  <2>1. lock = NoRequest /\ path' = NoPath /\ Witness /\ Answer(r, "ok")
    BY <1>3 DEF Erase
  <2>2. StoreMoves
    BY <1>1, <2>1 DEF StoreMoves, IInv, StoreStands
  <2>3. StoreStands'
    BY <1>1, <2>1 DEF IInv, StoreStands, StoredPathIsComplete
  <2> QED
    BY <1>1, <2>1, <2>2, <2>3, AnswerKeeps DEF Reading, Answers
<1> QED
  BY <1>2, <1>3

(* A configuration that was validated, and whose foreign keys hold now, is  *)
(* complete now: the rest of what was validated does not change.            *)
LEMMA ValidatedIsComplete ==
  ASSUME NEW c, NEW m, ValidateConfiguration(c, ContextOf(m)) = {},
         Refers(c, brains, services, assets),
         \A a \in DOMAIN assets : assets[a].brain = Source
  PROVE  /\ Complete(c, brains, services, assets) /\ KeyedOnce(c) /\ c.path # "other"
<1> DEFINE x == ContextOf(m)
<1>1. /\ ~ScopeErrors(c, x).asset_required /\ ~ScopeErrors(c, x).asset_duplicate
  BY DEF ValidateConfiguration, Raised, ScopeErrors
<1>2. /\ ~GrantErrors(c, x).brain_grant_duplicate /\ ~GrantErrors(c, x).service_grant_duplicate
  BY DEF ValidateConfiguration, Raised, GrantErrors
<1>3. ~SourceErrors(c, x).path_not_unique
  BY DEF ValidateConfiguration, Raised, SourceErrors
<1>4. c.assets # <<>> /\ KeyedOnce(c) /\ c.path # "other"
  BY <1>1, <1>2, <1>3 DEF ScopeErrors, GrantErrors, SourceErrors, KeyedOnce
<1>5. Sound(c, x) /\ x.source = Source
  BY NoErrorsIsSound DEF ContextOf
<1>6. ASSUME Enabled(c)
      PROVE  /\ c.route # NoRoute
             /\ c.visibility = "private" =>
                  /\ Hops(c) \subseteq Range(c.serviceGrants)
                  /\ Fixed(c) \ {Source} \subseteq Range(c.brainGrants)
  <2> HIDE DEF x
  <2> QED
    BY <1>5, <1>6 DEF Sound, Hops, Fixed
<1>7. \A a \in Range(c.assets) : assets[a].brain = Source
  BY DEF Refers
<1> QED
  BY <1>4, <1>6, <1>7 DEF Complete

(* What was validated and has its rows is stored, at a version of its own.  *)
LEMMA CommitStep ==
  ASSUME IInv, NEW r \in Requests, Commit(r)
  PROVE  IInv'
<1> DEFINE c == mine[r].config
<1>1. /\ pc[r] = "commit" /\ RequestInv(r) /\ StoreStands /\ lock' = NoRequest /\ Witness
      /\ UNCHANGED <<brains, services, assets, ask, mine>> /\ c \in Configuration
      /\ Is(r, {"create", "patch"})
  BY Memories DEF Commit, IInv, Typed, RequestInv, StepFits, Merged
<1>2. PICK a \in {"ok", "failed"} : Answer(r, a)
  BY DEF Commit
<1>3. lock = r
  BY <1>1 DEF IInv, LockHeld, InTx
<1>4. /\ c.path \in {"own", "other"} /\ ValidateConfiguration(c, ContextOf(mine[r])) = {}
      /\ IF Is(r, {"create"}) THEN path = NoPath ELSE Unchanged(r)
      /\ Refers(c, brains, services, assets)
  BY <1>1 DEF RequestInv, Vouched, Merged, InTx
<1>5. /\ Complete(c, brains, services, assets) /\ KeyedOnce(c) /\ c.path = "own"
  BY <1>1, <1>4, ValidatedIsComplete DEF StoreStands
<1>6. /\ path' \in StoredPath /\ path'.config = c /\ path'.id = created'
      /\ IF Is(r, {"create"})
           THEN path'.id = created + 1
           ELSE /\ path # NoPath /\ path'.id = path.id /\ path'.version = path.version + 1
                /\ path.id = created /\ path.version \in Nat
  <2>1. CASE Is(r, {"create"})
    BY <1>1, <2>1 DEF Commit, StoredPath, StoreStands
  <2>2. CASE ~Is(r, {"create"})
    <3>1. path \in StoredPath /\ path # NoPath /\ path.id = created
      BY <1>1, <1>4, <2>2 DEF Unchanged, Current, StoreStands
    <3>2. path' = [path EXCEPT !.version = path.version + 1, !.config = c]
      BY <2>2, <3>1 DEF Commit, StoredPath
    <3> HIDE DEF c
    <3>3. /\ path'.id = path.id /\ path'.version = path.version + 1 /\ path'.config = c
          /\ path' \in StoredPath
      <4> DEFINE next == path.version + 1
      <4>1. next \in Nat \ {0} /\ path.id \in Nat \ {0}
        BY <3>1 DEF StoredPath
      <4> HIDE DEF next
      <4>2. path' = [path EXCEPT !.version = next, !.config = c]
        BY <3>2 DEF next
      <4>3. /\ path'.id = path.id /\ path'.version = next /\ path'.config = c
            /\ path' \in StoredPath
        BY <1>1, <3>1, <4>1, <4>2 DEF StoredPath
      <4> QED
        BY <4>3 DEF next
    <3> QED
      BY <2>2, <3>1, <3>3 DEF Commit, StoredPath
  <2> QED
    BY <2>1, <2>2
<1>7. created \in Nat /\ created' \in Nat /\ created <= created'
  BY <1>1, <1>6 DEF StoreStands
<1>8. StoreMoves
  BY <1>1, <1>6, <1>7 DEF StoreMoves
<1>9. StoreStands'
  BY <1>1, <1>5, <1>6, <1>7 DEF StoreStands, StoredPathIsComplete
<1> QED
  BY <1>1, <1>2, <1>3, <1>8, <1>9, AnswerKeeps DEF Reading, Answers

-----------------------------------------------------------------------------
(* What is stored at the start is complete, and no request knows of it.     *)
LEMMA Initially == Init => IInv
<1> SUFFICES ASSUME Init
             PROVE  IInv
  OBVIOUS
<1>1. PICK mix \in Mixes :
        path \in mix.paths /\ ask \in {a \in [Requests -> mix.asks] : Range(a) = mix.asks}
  BY DEF Init
<1>2. path \in InitialPaths /\ mix.asks \subseteq Asks
  BY <1>1 DEF InitialPaths, Asks
<1>3. /\ brains = Brains /\ services = Services /\ lock = NoRequest
      /\ assets \in [Assets -> {v \in AssetChoices : v.brain = Source /\ v.state = "ready"}]
      /\ created = IF path = NoPath THEN 0 ELSE path.id
      /\ pc = [r \in Requests |-> "start"] /\ mine = [r \in Requests |-> Nothing]
      /\ answer = [r \in Requests |-> "none"] /\ seen = [r \in Requests |-> {}]
  BY DEF Init
<1>4. assets \in [Assets -> {v \in AssetChoices : v.brain = Source}]
  BY <1>3
<1>5. Typed
  <2>1. ask \in [Requests -> Asks]
    BY <1>1, <1>2
  <2>2. mine \in [Requests -> Memory]
    BY <1>3, BlankTyped
  <2> QED
    BY <1>3, <2>1, <2>2 DEF Typed, Steps
<1>6. LockHeld
  BY <1>3, InputsAreTyped DEF LockHeld, InTx
<1>7. path # NoPath =>
        /\ path = [id |-> 1, version |-> path.version, config |-> path.config]
        /\ path.version \in Nat \ {0} /\ path.config \in Configuration
        /\ path.config.path = "own" /\ KeyedOnce(path.config)
        /\ Complete(path.config, brains, services, assets)
  BY <1>2, <1>3, <1>4, InputsAreTyped
<1>8. StoreStands
  <2>1. path # NoPath => path \in StoredPath /\ path.id = 1
    <3>1. ASSUME path # NoPath
          PROVE  path \in StoredPath /\ path.id = 1
      <4> DEFINE v == path.version
                 c == path.config
      <4>1. path = [id |-> 1, version |-> v, config |-> c] /\ v \in Nat \ {0} /\ c \in Configuration
        BY <1>7, <3>1
      <4> HIDE DEF v, c
      <4> QED
        BY <4>1 DEF StoredPath
    <3> QED
      BY <3>1
  <2>2. Source \in brains /\ brains \subseteq Brains /\ services \subseteq Services
    BY <1>3, InputsAreTyped
  <2>3. created \in Nat /\ (path # NoPath => path.id = created)
    BY <1>3, <2>1
  <2> QED
    BY <1>4, <1>7, <2>1, <2>2, <2>3 DEF StoreStands, StoredPathIsComplete
<1>9. ASSUME NEW r \in Requests
      PROVE  RequestInv(r)
  <2>1. /\ pc[r] = "start" /\ mine[r] = Nothing /\ answer[r] = "none" /\ seen[r] = {}
        /\ ~Served(r) /\ At(r) = "start"
    BY <1>3 DEF Served, At
  <2>2. mine[r].id = 0 /\ mine[r].version = 0 /\ mine[r].config.route = NoRoute
    BY <2>1 DEF Nothing, Blank
  <2>3. StepFits(r) /\ Watches(r)
    BY <2>1 DEF StepFits, Watches, Reading, Merged
  <2>4. KnowsThePast(r)
    BY <1>8, <2>1, <2>2 DEF KnowsThePast, StoreStands, StoredPath, Current
  <2>5. ReadsWhatItWatches(r) /\ ReadsOneExactly(r)
    BY <2>1 DEF ReadsWhatItWatches, ReadsOneExactly, Reading
  <2>6. KeepsWhatItDoesNotPatch(r) /\ Vouched(r)
    BY <2>1 DEF KeepsWhatItDoesNotPatch, Vouched, Merged, InTx, ReadRow, ReadAssets,
      ReadBrains, ReadServices, ReadTerminal, ReadRoute
  <2> QED
    BY <2>3, <2>4, <2>5, <2>6 DEF RequestInv
<1> QED
  BY <1>5, <1>6, <1>8, <1>9 DEF IInv

(* Every step keeps the invariant.                                          *)
LEMMA Inductive == IInv /\ [Next]_vars => IInv'
<1> SUFFICES ASSUME IInv, [Next]_vars
             PROVE  IInv'
  OBVIOUS
<1>1. CASE UNCHANGED vars
  <2>1. \A r \in Requests : RequestInv(r)'
    BY <1>1, RequestKeeps DEF vars, Same, Stored
  <2> QED
    BY <1>1, <2>1 DEF IInv, Typed, LockHeld, StoreStands, StoredPathIsComplete, vars
<1>2. ASSUME NEW r \in Requests, Handle(r)
      PROVE  IInv'
  BY <1>2, SubmitStep, AddressStep, ResolveEnabledStep, LoadRowStep, LoadAssetsStep,
    LoadBrainGrantsStep, LoadServiceGrantsStep, LoadRouteStep, LoadHopsStep,
    MergePatchStep, ListRegistryStep, ValidateStep, BeginWriteStep, InsertRelationsStep,
    CommitStep, EraseStep, RunStep DEF Handle, Load
<1>3. ASSUME NEW r \in Requests, Fails(r)
      PROVE  IInv'
  BY <1>3, RollbackStep DEF Fails
<1>4. ASSUME NEW a \in Assets, DeleteAsset(a) \/ OverwriteAsset(a)
      PROVE  IInv'
  BY <1>4, DeleteAssetStep, OverwriteAssetStep
<1>5. ASSUME NEW s \in Services, DeleteService(s)
      PROVE  IInv'
  BY <1>5, DeleteServiceStep
<1>6. ASSUME NEW b \in Brains, DeleteBrain(b)
      PROVE  IInv'
  BY <1>6, DeleteBrainStep
<1> QED
  BY <1>1, <1>2, <1>3, <1>4, <1>5, <1>6 DEF Next

(* The inductive invariant holds throughout.                                *)
THEOREM Invariance == Spec => []IInv
BY Initially, Inductive, PTL DEF Spec

-----------------------------------------------------------------------------
(* Every reachable state is typed, and the transaction that is open is the  *)
(* one of the request that is writing (insert and update of a query path).  *)
THEOREM TypesHold == Spec => []TypeOK
<1>1. IInv => TypeOK
  <2> SUFFICES ASSUME IInv
               PROVE  TypeOK
    OBVIOUS
  <2>1. path = NoPath \/ /\ path.id = created /\ path.version \in Nat \ {0}
                         /\ path.config \in Configuration
    BY DEF IInv, StoreStands, StoredPath
  <2>2. /\ brains \subseteq Brains /\ services \subseteq Services /\ created \in Nat
        /\ DOMAIN assets \subseteq Assets /\ \A a \in DOMAIN assets : assets[a] \in AssetChoices
    BY DEF IInv, StoreStands
  <2>3. \A r \in Requests : mine[r].config \in Configuration
    BY Memories DEF IInv, Typed
  <2>4. \A r \in Requests : \A p \in seen[r] \ {NoPath} : p.config \in Configuration
    BY DEF IInv, RequestInv, Watches, StoredPath
  <2> QED
    BY <2>1, <2>2, <2>3, <2>4 DEF IInv, Typed, LockHeld, TypeOK
<1> QED
  BY <1>1, Invariance, PTL

(* The stored path always refers to rows that exist and, while enabled, is  *)
(* as complete as validation asked (validation before the transaction,      *)
(* foreign keys in it, the triggers on deletions after it).                 *)
THEOREM StoredPathStaysComplete == Spec => []StoredPathIsComplete
<1>1. IInv => StoredPathIsComplete
  BY DEF IInv, StoreStands
<1> QED
  BY <1>1, Invariance, PTL

(* What pull and send serve was in scope, on a path that was enabled, at    *)
(* some time while the request ran.                                         *)
THEOREM ServesOnlyWhatWasScoped == Spec => []ServesWhatWasScoped
<1>1. IInv => ServesWhatWasScoped
  <2> SUFFICES ASSUME IInv, NEW r \in Requests, Served(r)
               PROVE  /\ \E p \in seen[r] \ {NoPath} : Enabled(p.config)
                      /\ \A a \in Range(mine[r].config.assets) :
                           \E p \in seen[r] \ {NoPath} : a \in Range(p.config.assets)
    BY DEF ServesWhatWasScoped
  <2>1. At(r) = "run" /\ Is(r, {"pull", "send"}) /\ ReadsWhatItWatches(r)
    BY DEF At, IInv, RequestInv, StepFits
  <2>2. \A a \in Range(mine[r].config.assets) :
          \E p \in seen[r] \ {NoPath} : a \in Range(p.config.assets)
    BY <2>1 DEF ReadsWhatItWatches, ReadAssets, ReadBrains, ReadServices, ReadTerminal,
      ReadRoute
  <2>3. CASE Is(r, {"pull"})
    BY <2>1, <2>2, <2>3 DEF ReadsWhatItWatches
  <2>4. CASE Is(r, {"send"})
    <3>1. \E p \in seen[r] \ {NoPath} : mine[r].config.state = p.config.state
      BY <2>1 DEF ReadsWhatItWatches, ReadRow, ReadAssets, ReadBrains, ReadServices,
        ReadTerminal, ReadRoute
    <3>2. Enabled(mine[r].config)
      BY <2>1, <2>4 DEF ReadsWhatItWatches
    <3> QED
      BY <2>2, <3>1, <3>2 DEF Enabled
  <2> QED
    BY <2>1, <2>3, <2>4 DEF Is
<1> QED
  BY <1>1, Invariance, PTL

(* A request that overlapped no change was served under the one stored      *)
(* configuration, scope, route and grants alike (executeRoute over what     *)
(* LoadQueryPathConfig's statements read).                                  *)
THEOREM UndisturbedRequestsStayExact == Spec => []UndisturbedRequestsAreExact
<1>1. IInv => UndisturbedRequestsAreExact
  <2> SUFFICES ASSUME IInv, NEW r \in Requests, NEW p \in seen[r], Served(r), seen[r] = {p}
               PROVE  ServedUnder(r, p.config) /\ mine[r].config.assets = p.config.assets
    BY DEF UndisturbedRequestsAreExact
  <2> DEFINE c == mine[r].config
             d == p.config
  <2>1. /\ At(r) = "run" /\ Is(r, {"pull", "send"}) /\ ReadsWhatItWatches(r)
        /\ ReadsExactly(r, p)
    BY DEF At, IInv, RequestInv, StepFits, ReadsOneExactly
  <2>2. /\ c.state = d.state /\ c.visibility = d.visibility /\ c.assets = d.assets
        /\ c.brainGrants = d.brainGrants /\ c.serviceGrants = d.serviceGrants
        /\ c.route = d.route
    BY <2>1 DEF ReadsExactly, ReadRow, ReadAssets, ReadBrains, ReadServices, ReadTerminal,
      ReadRoute
  <2>3. Enabled(d)
    <3>1. CASE Is(r, {"pull"})
      BY <2>1, <3>1 DEF ReadsWhatItWatches
    <3>2. CASE Is(r, {"send"})
      BY <2>1, <2>2, <3>2 DEF ReadsWhatItWatches, Enabled
    <3> QED
      BY <2>1, <3>1, <3>2 DEF Is
  <2>4. PICK b \in Brains : Permitted(c, [source |-> Source], ask[r].call, b)
    BY <2>1 DEF ReadsWhatItWatches
  <2>5. CallContext(r).source = Source
    BY DEF CallContext, ContextOf
  <2>6. Permitted(d, CallContext(r), ask[r].call, b)
    <3> HIDE DEF c, d
    <3> QED
      BY <2>2, <2>4, <2>5 DEF Permitted
  <2> QED
    BY <2>2, <2>3, <2>6 DEF ServedUnder
<1> QED
  BY <1>1, Invariance, PTL

-----------------------------------------------------------------------------
(* Only the commit of a patch gives a stored path another version.          *)
LEMMA OnlyCommitsVersion ==
  ASSUME IInv, [Next]_vars
  PROVE  \/ \E r \in Requests : Commit(r)
         \/ path = NoPath \/ path' = NoPath \/ path'.version = path.version
<1>1. ASSUME NEW r \in Requests, Handle(r), ~Commit(r)
      PROVE  path' = path \/ path' = NoPath
  BY <1>1 DEF Handle, Load, Submit, Address, ResolveEnabled, LoadRow, LoadAssets,
    LoadBrainGrants, LoadServiceGrants, LoadRoute, LoadHops, MergePatch, ListRegistry,
    Validate, BeginWrite, InsertRelations, Rollback, Erase, Run, store
<1>2. ASSUME NEW x, Cascade(x), path # NoPath
      PROVE  path'.version = path.version
  BY <1>2, CascadeLeaves DEF Cascade, IInv, StoreStands
<1>3. ASSUME NEW r \in Requests, Fails(r)
      PROVE  path' = path
  BY <1>3 DEF Fails, Rollback
<1>4. ASSUME NEW a \in Assets, DeleteAsset(a) \/ OverwriteAsset(a)
      PROVE  path' = path \/ path = NoPath \/ path'.version = path.version
  BY <1>2, <1>4 DEF DeleteAsset, OverwriteAsset
<1>5. ASSUME NEW s \in Services, DeleteService(s)
      PROVE  path = NoPath \/ path'.version = path.version
  BY <1>2, <1>5 DEF DeleteService
<1>6. ASSUME NEW b \in Brains, DeleteBrain(b)
      PROVE  path = NoPath \/ path'.version = path.version
  BY <1>2, <1>6 DEF DeleteBrain
<1> QED
  BY <1>1, <1>3, <1>4, <1>5, <1>6 DEF Next, vars

(* A patch that is committed is merged into what is stored at the commit.   *)
LEMMA CommitMerges ==
  ASSUME IInv, NEW r \in Requests, Commit(r), path # NoPath
  PROVE  /\ ask[r].op = "patch" /\ pc[r] = "commit" /\ mine[r].version = path.version
         /\ path'.version = path.version + 1
         /\ path'.config = Merge(path.config, ask[r].patch)
<1> DEFINE c == mine[r].config
           d == path.config
           patch == ask[r].patch
<1>1. /\ pc[r] = "commit" /\ RequestInv(r) /\ path \in StoredPath /\ d.path = "own"
      /\ c \in Configuration /\ d \in Configuration
  BY Memories DEF Commit, IInv, Typed, StoreStands, StoredPath
<1>2. /\ ask[r].op = "patch" /\ Unchanged(r) /\ Refers(c, brains, services, assets)
      /\ ValidateConfiguration(c, ContextOf(mine[r])) = {} /\ c.path \in {"own", "other"}
  BY <1>1 DEF RequestInv, Vouched, StepFits, Merged, InTx, Is
<1>3. c.path = "own"
  BY <1>2, ValidatedIsComplete DEF IInv, StoreStands
<1>4. /\ DOMAIN patch \subseteq DOMAIN FieldTypes
      /\ \A f \in DOMAIN patch : patch[f] \in FieldTypes[f]
  BY <1>2, Asked DEF IInv, IsAsk
<1>5. /\ Merge(d, patch) \in Configuration /\ Merge(d, patch).path = d.path
      /\ \A f \in DOMAIN FieldTypes :
           Merge(d, patch)[f] = IF f \in DOMAIN patch THEN patch[f] ELSE d[f]
  BY <1>1, <1>4, MergeTyped
<1>6. \A f \in DOMAIN patch : c[f] = patch[f]
  BY <1>1, <1>2 DEF RequestInv, KeepsWhatItDoesNotPatch, Is, Merged
<1>7. \A f : Patches(r, f) <=> f \in DOMAIN patch
  BY <1>1 DEF Patches, Merged
<1>8. /\ "state" \in DOMAIN patch \/ c.state = d.state
      /\ "visibility" \in DOMAIN patch \/ c.visibility = d.visibility
      /\ "operations" \in DOMAIN patch \/ c.operations = d.operations
      /\ "assets" \in DOMAIN patch \/ c.assets = d.assets
      /\ "brainGrants" \in DOMAIN patch \/ c.brainGrants = d.brainGrants
      /\ "serviceGrants" \in DOMAIN patch \/ c.serviceGrants = d.serviceGrants
      /\ "route" \in DOMAIN patch \/ c.route = d.route
  BY <1>1, <1>2, <1>7 DEF RequestInv, KeepsWhatItDoesNotPatch, Is, Merged, Refers
<1>9. \A f \in DOMAIN FieldTypes : c[f] = Merge(d, patch)[f]
  BY <1>5, <1>6, <1>8 DEF FieldTypes
<1>10. c = Merge(d, patch)
  <2> DEFINE e == Merge(d, patch)
  <2>1. /\ e \in Configuration /\ e.path = c.path /\ e.assets = c.assets
        /\ e.operations = c.operations /\ e.visibility = c.visibility /\ e.state = c.state
        /\ e.brainGrants = c.brainGrants /\ e.serviceGrants = c.serviceGrants
        /\ e.route = c.route
    BY <1>1, <1>3, <1>5, <1>9 DEF FieldTypes
  <2> HIDE DEF e, c
  <2>2. \A g \in Configuration :
          g = [path |-> g.path, assets |-> g.assets, operations |-> g.operations,
               visibility |-> g.visibility, state |-> g.state, brainGrants |-> g.brainGrants,
               serviceGrants |-> g.serviceGrants, route |-> g.route]
    BY DEF Configuration
  <2>3. e = c
    BY <1>1, <2>1, <2>2 DEF c
  <2> QED
    BY <2>3 DEF e, c
<1>11. path'.version = path.version + 1 /\ path'.config = c
  <2>1. path' = [path EXCEPT !.version = path.version + 1, !.config = c]
    BY <1>1, <1>2 DEF Commit, Is, StoredPath
  <2> HIDE DEF c
  <2> QED
    BY <1>1, <2>1 DEF StoredPath
<1> QED
  BY <1>1, <1>2, <1>10, <1>11 DEF Unchanged

(* No update is lost: every new version of a path is the one before it with *)
(* one request's patch (patchQueryPath, whose reads are not one snapshot,   *)
(* and the compare-and-set update that ReplaceQueryPath begins with).       *)
THEOREM PatchesAlwaysCompose == Spec => PatchesCompose
<1>1. ASSUME IInv, [Next]_vars, path # NoPath, path' # NoPath, path'.id = path.id,
             path'.version # path.version
      PROVE  /\ path'.version = path.version + 1
             /\ \E r \in Requests :
                  /\ ask[r].op = "patch" /\ pc[r] = "commit" /\ mine[r].version = path.version
                  /\ path'.config = Merge(path.config, ask[r].patch)
  <2>1. PICK r \in Requests : Commit(r)
    BY <1>1, OnlyCommitsVersion
  <2> QED
    BY <1>1, <2>1, CommitMerges
<1>2. IInv /\ [Next]_vars =>
        [path # NoPath /\ path' # NoPath /\ path'.id = path.id /\ path'.version # path.version =>
           /\ path'.version = path.version + 1
           /\ \E r \in Requests :
                /\ ask[r].op = "patch" /\ pc[r] = "commit" /\ mine[r].version = path.version
                /\ path'.config = Merge(path.config, ask[r].patch)]_vars
  BY <1>1
<1> QED
  BY <1>2, Invariance, PTL DEF Spec, PatchesCompose
===============================================================================
