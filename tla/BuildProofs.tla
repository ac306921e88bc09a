------------------------------ MODULE BuildProofs ------------------------------
(***************************************************************************)
(* What a check of the registries is worth, for every dict a machine may   *)
(* be built from and every name that may be registered: names are only     *)
(* ever added, and the graph never changes.  And what to_mermaid draws of  *)
(* every machine.                                                          *)
(***************************************************************************)
EXTENDS Diagram, SchemaTheorems, FiniteSetTheorems

(* Registering more names makes none go missing. *)
LEMMA MoreNames ==
  ASSUME NEW c, NEW g, NEW a, NEW g2, NEW a2, g \subseteq g2, a \subseteq a2,
         MissingNames(c, g, a) = {}
  PROVE  MissingNames(c, g2, a2) = {}
BY DEF MissingNames

(* A constructor that was given callbacks has checked their names. *)
LEMMA FromDictChecks ==
  ASSUME CheckedMeansComplete, NEW src, NEW acts, NEW grds, FromDict(src, acts, grds)
  PROVE  CheckedMeansComplete'
<1>1. CASE UNCHANGED <<config, actions, guards, checked>>
  BY <1>1 DEF CheckedMeansComplete
<1>2. CASE /\ Checks(acts, grds) => MissingNames(Parsed(src), grds, acts) = {}
           /\ config' = Parsed(src)
           /\ actions' = acts /\ guards' = grds
           /\ checked' = (acts \cup grds # {})
  <2>1. (acts \cup grds # {}) => Checks(acts, grds)
    BY DEF Checks
  <2>2. QED BY <1>2, <2>1 DEF CheckedMeansComplete
<1>3. QED BY <1>1, <1>2 DEF FromDict, Rejects

LEMMA RegisterChecks ==
  ASSUME CheckedMeansComplete, NEW name, RegisterAction(name) \/ RegisterGuard(name)
  PROVE  CheckedMeansComplete'
<1>1. /\ UNCHANGED <<config, checked>>
      /\ actions \subseteq actions' /\ guards \subseteq guards'
  BY DEF RegisterAction, RegisterGuard
<1>2. QED BY <1>1, MoreNames DEF CheckedMeansComplete

LEMMA ValidateChecks ==
  ASSUME CheckedMeansComplete, ValidateRegistries
  PROVE  CheckedMeansComplete'
BY DEF CheckedMeansComplete, ValidateRegistries

(***************************************************************************)
(* Once from_dict has been given callbacks, or validate_registries has     *)
(* returned, the machine finds every name of its graph, whatever is        *)
(* registered afterwards.                                                  *)
(***************************************************************************)
THEOREM CheckLasts == Spec => []CheckedMeansComplete
<1>1. Init => CheckedMeansComplete
  BY DEF Init, CheckedMeansComplete
<1>2. CheckedMeansComplete /\ [Next]_vars => CheckedMeansComplete'
  <2>1. CheckedMeansComplete /\ UNCHANGED vars => CheckedMeansComplete'
    BY DEF CheckedMeansComplete, vars
  <2>2. QED
    BY <2>1, FromDictChecks, RegisterChecks, ValidateChecks DEF Next
<1>3. QED BY <1>1, <1>2, PTL DEF Spec

----------------------------------------------------------------------------
(* Parsing *)

(* A well-formed item becomes the candidate that was written. *)
LEMMA ItemParsed ==
  ASSUME NEW item, IsItem(item), ItemOK(AsDict(item))
  PROVE  /\ ParsedItem(AsDict(item)) \in TransitionConfig
         /\ AgreesOn(ParsedItem(AsDict(item)), Written(item))
<1> DEFINE fields == Written(item)
<1>1. AsDict(item).fields = fields /\ "target" \in DOMAIN fields
  BY DEF AsDict, Dict, Written, ItemOK
<1>2. /\ fields.target \in STRING
      /\ FieldOr(fields, "guard", None) \in STRING \cup {None}
      /\ FieldOr(fields, "actions", <<>>) \in Seq(STRING)
  <2>1. CASE item.is = "str"
    BY <2>1 DEF Written, IsItem, FieldOr
  <2>2. CASE item.is # "str"
    <3>1. item.is = "dict"
      BY <2>2 DEF ItemOK, AsDict
    <3>2. QED BY <1>1, <2>2, <3>1 DEF Written, IsItem
  <2>3. QED BY <2>1, <2>2
<1> HIDE DEF fields
<1>3. ParsedItem(AsDict(item)) =
        [target  |-> fields.target,
         guard   |-> FieldOr(fields, "guard", None),
         actions |-> FieldOr(fields, "actions", <<>>)]
  BY <1>1 DEF ParsedItem
<1>4. AgreesOn(ParsedItem(AsDict(item)), fields)
  BY <1>3 DEF AgreesOn, FieldOr
<1>5. QED BY <1>2, <1>3, <1>4 DEF TransitionConfig, fields

(* ... and a list of items, the list of candidates. *)
LEMMA ListParsed ==
  ASSUME NEW spec, IsSpec(spec), SpecOK(spec)
  PROVE  /\ ParsedList(NormalizeOn(spec)) \in Seq(TransitionConfig)
         /\ Agrees(ParsedList(NormalizeOn(spec)), spec)
         /\ spec.is = "list" => NormalizeAlways(spec) = NormalizeOn(spec)
<1> DEFINE n == Len(Items(spec))
           parsed == ParsedList(NormalizeOn(spec))
<1>1. n \in Nat /\ DOMAIN Items(spec) = 1 .. n
  BY DEF IsSpec
<1>2. /\ DOMAIN NormalizeOn(spec) = 1 .. n
      /\ \A i \in 1 .. n : NormalizeOn(spec)[i] = AsDict(Items(spec)[i])
  <2>1. CASE spec.is = "list"
    BY <1>1, <2>1 DEF NormalizeOn, Items
  <2>2. CASE spec.is \in {"str", "dict"}
    BY <1>1, <2>2 DEF NormalizeOn, Items
  <2>3. QED BY <2>1, <2>2 DEF SpecOK
<1>3. \A i \in 1 .. n : IsItem(Items(spec)[i]) /\ ItemOK(AsDict(Items(spec)[i]))
  BY <1>1, <1>2 DEF IsSpec, SpecOK
<1>4. /\ DOMAIN parsed = 1 .. n
      /\ \A i \in 1 .. n : parsed[i] = ParsedItem(AsDict(Items(spec)[i]))
  BY <1>2 DEF ParsedList
<1>5. \A i \in 1 .. n : /\ parsed[i] \in TransitionConfig
                        /\ AgreesOn(parsed[i], Written(Items(spec)[i]))
  BY <1>3, <1>4, ItemParsed
<1>6. parsed \in Seq(TransitionConfig) /\ Len(parsed) = n
  <2>1. parsed = [i \in 1 .. n |-> parsed[i]]
    BY <1>2 DEF ParsedList
  <2>2. parsed \in [1 .. n -> TransitionConfig]
    BY <1>5, <2>1
  <2>3. QED BY <1>1, <2>2, FunctionIsSeq
<1>7. spec.is = "list" => NormalizeAlways(spec) = NormalizeOn(spec)
  BY DEF NormalizeAlways, NormalizeOn
<1>8. QED BY <1>4, <1>5, <1>6, <1>7 DEF Agrees

(* The lists of a state that was parsed. *)
LEMMA StateParsed ==
  ASSUME NEW src, IsSource(src), Parses(src), NEW s \in DOMAIN src
  PROVE  LET sc == Parsed(src)[s]
             on == FieldOr(src[s], "on", <<>>)
         IN /\ IsStateConfig(sc)
            /\ DOMAIN sc.on = DOMAIN on
            /\ \A e \in DOMAIN on : Agrees(sc.on[e], on[e])
            /\ "always" \in DOMAIN src[s] => Agrees(sc.always, src[s].always)
<1> DEFINE sc == Parsed(src)[s]
           on == FieldOr(src[s], "on", <<>>)
<1>1. sc = ParsedState(src[s])
  BY DEF Parsed
<1>2. /\ sc.on = [e \in DOMAIN on |-> ParsedList(NormalizeOn(on[e]))]
      /\ sc.always = IF "always" \in DOMAIN src[s]
                       THEN ParsedList(NormalizeAlways(src[s].always)) ELSE <<>>
      /\ sc.entry = FieldOr(src[s], "entry", <<>>)
      /\ sc.exit = FieldOr(src[s], "exit", <<>>)
      /\ sc.error_state = FieldOr(src[s], "error_state", None)
  BY <1>1 DEF ParsedState
<1>3. \A e \in DOMAIN on : IsSpec(on[e]) /\ SpecOK(on[e])
  <2>1. CASE "on" \in DOMAIN src[s]
    BY <2>1 DEF FieldOr, IsSource, Parses
  <2>2. CASE "on" \notin DOMAIN src[s]
    <3>1. on = <<>>
      BY <2>2 DEF FieldOr
    <3>2. QED BY <3>1
  <2>3. QED BY <2>1, <2>2
<1>4. \A e \in DOMAIN on : sc.on[e] \in Seq(TransitionConfig) /\ Agrees(sc.on[e], on[e])
  BY <1>2, <1>3, ListParsed
<1>5. /\ sc.always \in Seq(TransitionConfig)
      /\ "always" \in DOMAIN src[s] => Agrees(sc.always, src[s].always)
  <2>1. CASE "always" \in DOMAIN src[s]
    <3>1. IsSpec(src[s].always) /\ SpecOK(src[s].always) /\ src[s].always.is = "list"
      BY <2>1 DEF IsSource, Parses, AlwaysOK
    <3>2. QED BY <1>2, <2>1, <3>1, ListParsed
  <2>2. CASE "always" \notin DOMAIN src[s]
    BY <1>2, <2>2
  <2>3. QED BY <2>1, <2>2
<1>6. DOMAIN sc.on = DOMAIN on
  BY <1>2
<1>7. IsStateConfig(sc)
  BY <1>2, <1>4, <1>5, <1>6 DEF IsSource, IsStateConfig
<1>8. QED BY <1>4, <1>5, <1>6, <1>7

(***************************************************************************)
(* The machine that was built.                                             *)
(***************************************************************************)

(* The graph is what from_dict made of its argument, and stays so. *)
Built ==
  config # None =>
    /\ source \in Sources /\ IsSource(source) /\ Parses(source)
    /\ config = Parsed(source)
    /\ BadTargets(config) = {}

LEMMA BuiltOnce == Spec => []Built
<1>1. Init => Built
  BY DEF Init, Built
<1>2. Built /\ [Next]_vars => Built'
  <2> SUFFICES ASSUME Built, [Next]_vars PROVE Built'
    OBVIOUS
  <2>1. ASSUME NEW src \in Sources, NEW acts, NEW grds, FromDict(src, acts, grds)
        PROVE  Built'
    <3>1. CASE UNCHANGED <<source, config>>
      BY <3>1 DEF Built
    <3>2. CASE /\ Parses(src) /\ BadTargets(Parsed(src)) = {}
               /\ source' = src /\ config' = Parsed(src)
      <4>1. IsSource(src)
        BY SourceAssumption
      <4>2. QED BY <3>2, <4>1 DEF Built
    <3>3. QED BY <2>1, <3>1, <3>2 DEF FromDict, Rejects
  <2>2. CASE UNCHANGED <<source, config>>
    BY <2>2 DEF Built
  <2>3. QED
    BY <2>1, <2>2 DEF Next, vars, RegisterAction, RegisterGuard, ValidateRegistries
<1>3. QED BY <1>1, <1>2, PTL DEF Spec

(***************************************************************************)
(* Every machine that from_dict makes meets what the models of the engine  *)
(* assume of a graph (ConfigAssumption): it is well formed, and no target  *)
(* leads out of it.                                                        *)
(***************************************************************************)
THEOREM BuiltIsRunnable ==
  Spec => [](config # None => IsConfig(config) /\ BadTargets(config) = {})
<1>1. Built => (config # None => IsConfig(config) /\ BadTargets(config) = {})
  <2> SUFFICES ASSUME Built, config # None PROVE IsConfig(config) /\ BadTargets(config) = {}
    OBVIOUS
  <2>1. \A s \in DOMAIN config : s \in STRING /\ IsStateConfig(config[s])
    BY StateParsed DEF Built, IsSource, Parsed
  <2>2. QED BY <2>1 DEF IsConfig, Built
<1>2. QED BY <1>1, BuiltOnce, PTL

(***************************************************************************)
(* The machine offers what the user wrote, in that order, in whichever     *)
(* spelling.                                                               *)
(***************************************************************************)
THEOREM SpellingsAgree == Spec => []GraphAsWritten
<1>1. Built => GraphAsWritten
  <2> SUFFICES ASSUME Built, config # None PROVE GraphAsWritten
    BY DEF GraphAsWritten
  <2>1. IsSource(source) /\ Parses(source) /\ config = Parsed(source) /\ BadTargets(config) = {}
    BY DEF Built
  <2>2. DOMAIN config = DOMAIN source
    BY <2>1 DEF Parsed
  <2>3. ASSUME NEW s \in DOMAIN config
        PROVE  LET on == FieldOr(source[s], "on", <<>>)
               IN /\ \A e \in DOMAIN on :
                       Items(on[e]) # <<>> => Agrees(Lookup(config, s, e), on[e])
                  /\ DOMAIN config[s].on = DOMAIN on
                  /\ "always" \in DOMAIN source[s] => Agrees(config[s].always, source[s].always)
                  /\ \A t \in AllCandidates(config, s) : t.target \in DOMAIN config
    <3> DEFINE on == FieldOr(source[s], "on", <<>>)
    <3>1. /\ IsStateConfig(config[s]) /\ DOMAIN config[s].on = DOMAIN on
          /\ \A e \in DOMAIN on : Agrees(config[s].on[e], on[e])
          /\ "always" \in DOMAIN source[s] => Agrees(config[s].always, source[s].always)
      BY <2>1, <2>2, <2>3, StateParsed
    <3>2. ASSUME NEW e \in DOMAIN on, Items(on[e]) # <<>>
          PROVE  Agrees(Lookup(config, s, e), on[e])
      <4>1. Len(config[s].on[e]) = Len(Items(on[e])) /\ IsSpec(on[e])
        BY <2>1, <2>2, <2>3, <3>1, <3>2 DEF Agrees, IsSource, FieldOr
      <4>2. config[s].on[e] # <<>>
        BY <3>2, <4>1 DEF IsSpec
      <4>3. Lookup(config, s, e) = config[s].on[e]
        BY <2>3, <3>1, <3>2, <4>2 DEF Lookup, TableRow
      <4>4. QED BY <3>1, <3>2, <4>3
    <3>3. QED BY <2>1, <2>3, <3>1, <3>2, CheckedTargets
  <2>4. QED BY <2>2, <2>3 DEF GraphAsWritten
<1>2. QED BY <1>1, BuiltOnce, PTL

----------------------------------------------------------------------------
(***************************************************************************)
(* The diagram                                                             *)
(***************************************************************************)

(* A free id is found, for there are more suffixes to try than ids in use. *)
LEMMA FreshIdIsFree ==
  ASSUME NEW safe, NEW used, IsFiniteSet(used),
         \A m \in 2 .. Cardinality(used) + 2, n \in 2 .. Cardinality(used) + 2 :
           Suffixed(safe, m) = Suffixed(safe, n) => m = n
  PROVE  FreshId(safe, used) \notin used
<1> DEFINE c == Cardinality(used)
           D == 2 .. c + 2
           Free == {n \in D : Suffixed(safe, n) \notin used}
           First(n) == /\ Suffixed(safe, n) \notin used
                       /\ \A m \in 2 .. n - 1 : Suffixed(safe, m) \in used
<1>1. c \in Nat
  BY FS_CardinalityType
<1>2. Free # {}
  <2> SUFFICES ASSUME \A n \in D : Suffixed(safe, n) \in used PROVE FALSE
    OBVIOUS
  <2> DEFINE f == [n \in D |-> Suffixed(safe, n)]
  <2>1. IsFiniteSet(D) /\ Cardinality(D) = c + 1
    <3>1. 2 \in Int /\ c + 2 \in Int /\ ~(2 > c + 2) /\ (c + 2) - 2 + 1 = c + 1
      BY <1>1
    <3> HIDE DEF c
    <3>2. QED BY <3>1, FS_Interval
  <2>2. f \in [D -> used]
    OBVIOUS
  <2>3. c < Cardinality(D)
    BY <1>1, <2>1
  <2>4. \E x \in D, y \in D : x # y /\ f[x] = f[y]
    <3> HIDE DEF f, D
    <3>1. QED BY <2>1, <2>2, <2>3, FS_PigeonHole
  <2>5. QED BY <2>4
<1>3. PICK n \in Free : \A k \in Free : n <= k
  <2>1. Free \subseteq Nat
    BY <1>1
  <2> HIDE DEF Free
  <2>2. QED BY <1>2, <2>1, LeastNumber
<1>4. First(n)
  <2>1. ASSUME NEW m \in 2 .. n - 1 PROVE Suffixed(safe, m) \in used
    <3>1. m \in D /\ m < n
      BY <1>1
    <3>2. m \notin Free
      BY <1>1, <1>3, <3>1
    <3>3. QED BY <3>1, <3>2
  <2>2. QED BY <2>1
<1>5. First(CHOOSE k \in D : First(k))
  <2>1. n \in D
    OBVIOUS
  <2> HIDE DEF First, D
  <2>2. QED BY <1>4, <2>1
<1>6. CASE safe \notin used
  BY <1>6 DEF FreshId
<1>7. CASE safe \in used
  <2>1. FreshId(safe, used) = Suffixed(safe, CHOOSE k \in D : First(k))
    BY <1>7 DEF FreshId
  <2>2. QED BY <1>5, <2>1
<1>8. QED BY <1>6, <1>7

----------------------------------------------------------------------------
(* The ids of _assign_ids, after each of the first n turns of its loop. *)
AreIds(names, n, f) ==
  f = [k \in 0 .. n |-> IF k = 0 THEN <<>> ELSE AddId(f[k - 1], names[k])]

LEMMA IdsExist ==
  ASSUME NEW names
  PROVE  \A n \in Nat : \E f : AreIds(names, n, f)
<1> DEFINE T == {n \in Nat : \E f : AreIds(names, n, f)}
<1>1. 0 \in T
  <2> DEFINE g == [k \in 0 .. 0 |-> <<>>]
  <2>1. g = [k \in 0 .. 0 |-> IF k = 0 THEN <<>> ELSE AddId(g[k - 1], names[k])]
    OBVIOUS
  <2> HIDE DEF g
  <2>2. AreIds(names, 0, g)
    BY <2>1 DEF AreIds
  <2>3. QED BY <2>2
<1>2. ASSUME NEW n \in Nat, n \in T PROVE n + 1 \in T
  <2>1. PICK f : AreIds(names, n, f)
    BY <1>2
  <2> DEFINE Turn(k) == IF k = 0 THEN <<>> ELSE AddId(f[k - 1], names[k])
             g == [k \in 0 .. n + 1 |-> IF k <= n THEN f[k] ELSE Turn(k)]
  <2>2. \A k \in 0 .. n + 1 : g[k] = IF k = 0 THEN <<>> ELSE AddId(g[k - 1], names[k])
    <3>1. \A k \in 0 .. n : f[k] = Turn(k)
      BY <2>1, Zenon DEF AreIds
    <3>2. \A k \in 1 .. n + 1 : g[k - 1] = f[k - 1]
      OBVIOUS
    <3>3. QED BY <3>1, <3>2
  <2>3. g = [k \in 0 .. n + 1 |-> g[k]]
    OBVIOUS
  <2> HIDE DEF g
  <2>4. AreIds(names, n + 1, g)
    BY <2>2, <2>3 DEF AreIds
  <2>5. QED BY <2>4
<1> HIDE DEF T
<1>3. Nat \subseteq T
  BY <1>1, <1>2, Induct
<1>4. QED BY <1>3 DEF T

(* AssignIds returns the last of them. *)
LEMMA IdsUnfold ==
  ASSUME NEW names, Len(names) \in Nat
  PROVE  \E f : /\ f[0] = <<>>
                /\ \A k \in 1 .. Len(names) : f[k] = AddId(f[k - 1], names[k])
                /\ AssignIds(names) = f[Len(names)]
<1> DEFINE n == Len(names)
           c == CHOOSE f : AreIds(names, n, f)
<1>1. AreIds(names, n, c)
  BY IdsExist
<1>2. AssignIds(names) = c[n]
  BY Zenon DEF AssignIds, AreIds
<1>3. \A k \in 0 .. n : c[k] = IF k = 0 THEN <<>> ELSE AddId(c[k - 1], names[k])
  <2> HIDE DEF c, n
  <2>1. QED BY <1>1, Zenon DEF AreIds
<1>4. 0 \in 0 .. n /\ \A k \in 1 .. n : k \in 0 .. n /\ k # 0
  OBVIOUS
<1> HIDE DEF c
<1>5. QED BY <1>2, <1>3, <1>4, Zenon DEF n

(* A turn gives one more name an id that no other has. *)
Distinct(f) == \A x \in DOMAIN f, y \in DOMAIN f : f[x] = f[y] => x = y

LEMMA IdAdded ==
  ASSUME NEW ids, NEW name, name \notin DOMAIN ids, Distinct(ids),
         FreshId(Sanitised[name], Range(ids)) \notin Range(ids)
  PROVE  /\ DOMAIN AddId(ids, name) = DOMAIN ids \cup {name}
         /\ Distinct(AddId(ids, name))
<1> DEFINE id == FreshId(Sanitised[name], Range(ids))
           new == AddId(ids, name)
<1>1. /\ DOMAIN new = DOMAIN ids \cup {name}
      /\ \A x \in DOMAIN ids : new[x] = ids[x]
      /\ new[name] = id
  <2> HIDE DEF id
  <2>1. new = [x \in DOMAIN ids \cup {name} |-> IF x = name THEN id ELSE ids[x]]
    BY DEF AddId, id
  <2> HIDE DEF new
  <2>2. QED BY <2>1
<1>2. \A x \in DOMAIN ids : ids[x] # id
  BY DEF Range
<1> HIDE DEF id, new
<1>3. Distinct(new)
  BY <1>1, <1>2 DEF Distinct
<1>4. QED BY <1>1, <1>3 DEF new

(* The ids of all states of a machine: one each, no two alike, in whatever *)
(* order the states were declared.                                         *)
LEMMA IdsDistinct ==
  ASSUME NEW S, IsFiniteSet(S), NEW names \in SetToSeqs(S),
         \A s \in S, m \in 2 .. Cardinality(S) + 2, n \in 2 .. Cardinality(S) + 2 :
           Suffixed(Sanitised[s], m) = Suffixed(Sanitised[s], n) => m = n
  PROVE  DOMAIN AssignIds(names) = S /\ Distinct(AssignIds(names))
<1> DEFINE n == Cardinality(S)
           Named(k) == {names[i] : i \in 1 .. k}
<1>1. /\ n \in Nat
      /\ names \in [1 .. n -> S]
      /\ \A i \in 1 .. n, j \in 1 .. n : names[i] = names[j] => i = j
  BY FS_CardinalityType DEF SetToSeqs
<1>2. Len(names) = n
  <2>1. names \in Seq(S)
    BY <1>1
  <2>2. QED BY <1>1, <2>1
<1>3. Named(n) = S
  <2>1. names \in Injection(1 .. n, S)
    BY <1>1 DEF Injection, IsInjective
  <2>2. Cardinality(1 .. n) = n
    BY <1>1, FS_Interval
  <2>3. names \in Surjection(1 .. n, S)
    BY <2>1, <2>2, FS_Injection
  <2>4. QED BY <1>1, <2>3 DEF Surjection
<1>4. PICK f : /\ f[0] = <<>>
               /\ \A k \in 1 .. n : f[k] = AddId(f[k - 1], names[k])
               /\ AssignIds(names) = f[n]
  BY <1>1, <1>2, IdsUnfold
<1> DEFINE T == {k \in Nat : k <= n => DOMAIN f[k] = Named(k) /\ Distinct(f[k])}
<1>5. 0 \in T
  BY <1>4 DEF Distinct
<1>6. ASSUME NEW k \in Nat, k \in T PROVE k + 1 \in T
  <2> SUFFICES ASSUME k + 1 <= n
               PROVE  DOMAIN f[k + 1] = Named(k + 1) /\ Distinct(f[k + 1])
    OBVIOUS
  <2> DEFINE ids == f[k]
             name == names[k + 1]
  <2>1. DOMAIN ids = Named(k) /\ Distinct(ids)
    BY <1>1, <1>6
  <2>2. f[k + 1] = AddId(ids, name) /\ name \in S
    <3>1. k + 1 \in 1 .. n /\ (k + 1) - 1 = k
      BY <1>1
    <3>2. QED BY <1>1, <1>4, <3>1
  <2>3. name \notin Named(k) /\ Named(k + 1) = Named(k) \cup {name} /\ Named(k) \subseteq S
    BY <1>1
  <2>4. FreshId(Sanitised[name], Range(ids)) \notin Range(ids)
    <3>1. IsFiniteSet(DOMAIN ids) /\ Cardinality(DOMAIN ids) <= n
      BY <2>1, <2>3, FS_Subset
    <3>2. IsFiniteSet(Range(ids)) /\ Cardinality(Range(ids)) <= Cardinality(DOMAIN ids)
      <4>1. [x \in DOMAIN ids |-> ids[x]] \in Surjection(DOMAIN ids, Range(ids))
        BY DEF Surjection, Range
      <4> HIDE DEF ids
      <4>2. QED BY <3>1, <4>1, FS_Surjection
    <3>3. Cardinality(Range(ids)) <= n
      BY <1>1, <3>1, <3>2, FS_CardinalityType
    <3>4. \A i \in 2 .. Cardinality(Range(ids)) + 2 : i \in 2 .. n + 2
      BY <1>1, <3>2, <3>3, FS_CardinalityType
    <3> HIDE DEF ids, name
    <3>5. QED BY <2>2, <3>2, <3>4, FreshIdIsFree
  <2> HIDE DEF ids, name, Named
  <2>5. QED BY <2>1, <2>2, <2>3, <2>4, IdAdded
<1>7. n \in T
  <2> HIDE DEF T, n
  <2>1. QED BY <1>1, <1>5, <1>6, Induct
<1>8. DOMAIN f[n] = Named(n) /\ Distinct(f[n])
  <2> HIDE DEF n, Named
  <2>1. QED BY <1>1, <1>7
<1> HIDE DEF n, Named
<1>9. QED BY <1>3, <1>4, <1>8

----------------------------------------------------------------------------
(* With such ids, what is drawn from a state is what it leads to. *)
LEMMA DrawnIsGraph ==
  ASSUME NEW c, BadTargets(c) = {}, NEW ids, DOMAIN ids = DOMAIN c, Distinct(ids),
         NEW s \in DOMAIN c, \A r \in DOMAIN c : c[r].error_state # ""
  PROVE  DrawnSuccessors(c, ids, s) = Successors(c, s)
<1>1. \A r \in DOMAIN c : Successors(c, r) \subseteq DOMAIN c
  <2> SUFFICES ASSUME NEW r \in DOMAIN c, NEW x \in Successors(c, r) PROVE x \in DOMAIN c
    OBVIOUS
  <2>1. CASE \E t \in AllCandidates(c, r) : x = t.target
    BY <2>1, CheckedTargets
  <2>2. CASE x = c[r].error_state /\ x # None
    BY <2>2, CheckedErrorStates
  <2>3. QED BY <2>1, <2>2 DEF Successors
<1>2. \A r \in DOMAIN c : \A edge \in EdgesFrom(c, ids, r) :
        \E x \in Successors(c, r) : edge.from = ids[r] /\ edge.to = ids[x]
  <2> SUFFICES ASSUME NEW r \in DOMAIN c, NEW edge \in EdgesFrom(c, ids, r)
               PROVE  \E x \in Successors(c, r) : edge.from = ids[r] /\ edge.to = ids[x]
    OBVIOUS
  <2>1. CASE edge \in UNION {{Edge(ids, r, t.target, e, t.guard) : t \in Elements(c[r].on[e])}
                              : e \in DOMAIN c[r].on}
    <3>1. PICK e \in DOMAIN c[r].on : \E t \in Elements(c[r].on[e]) :
                                       edge = Edge(ids, r, t.target, e, t.guard)
      BY <2>1
    <3>2. PICK t \in Elements(c[r].on[e]) : edge = Edge(ids, r, t.target, e, t.guard)
      BY <3>1
    <3>3. t \in AllCandidates(c, r)
      BY <3>2 DEF AllCandidates, OnCandidates
    <3>4. QED BY <3>2, <3>3 DEF Edge, Successors
  <2>2. CASE edge \in {Edge(ids, r, t.target, "always", t.guard) : t \in Elements(c[r].always)}
    <3>1. PICK t \in Elements(c[r].always) : edge = Edge(ids, r, t.target, "always", t.guard)
      BY <2>2
    <3>2. t \in AllCandidates(c, r)
      BY <3>1 DEF AllCandidates
    <3>3. QED BY <3>1, <3>2 DEF Edge, Successors
  <2>3. CASE edge \in {Edge(ids, r, err, "error", None) : err \in {c[r].error_state} \ {None}}
    <3>1. edge = Edge(ids, r, c[r].error_state, "error", None) /\ c[r].error_state # None
      BY <2>3
    <3>2. QED BY <3>1 DEF Edge, Successors
  <2>4. QED BY <2>1, <2>2, <2>3 DEF EdgesFrom
<1>3. \A r \in DOMAIN c : \A x \in Successors(c, r) :
        \E edge \in EdgesFrom(c, ids, r) : edge.from = ids[r] /\ edge.to = ids[x]
  <2> SUFFICES ASSUME NEW r \in DOMAIN c, NEW x \in Successors(c, r)
               PROVE  \E edge \in EdgesFrom(c, ids, r) : edge.from = ids[r] /\ edge.to = ids[x]
    OBVIOUS
  <2>1. CASE \E t \in AllCandidates(c, r) : x = t.target
    <3>1. PICK t \in AllCandidates(c, r) : x = t.target
      BY <2>1
    <3>2. CASE t \in Elements(c[r].always)
      <4>1. Edge(ids, r, x, "always", t.guard) \in EdgesFrom(c, ids, r)
        BY <3>1, <3>2 DEF EdgesFrom
      <4>2. QED BY <4>1 DEF Edge
    <3>3. CASE t \in OnCandidates(c, r)
      <4>1. PICK e \in DOMAIN c[r].on : t \in Elements(c[r].on[e])
        BY <3>3 DEF OnCandidates
      <4>2. Edge(ids, r, x, e, t.guard) \in EdgesFrom(c, ids, r)
        <5>1. Edge(ids, r, x, e, t.guard) \in
                {Edge(ids, r, u.target, e, u.guard) : u \in Elements(c[r].on[e])}
          BY <3>1, <4>1
        <5>2. Edge(ids, r, x, e, t.guard) \in
                UNION {{Edge(ids, r, u.target, d, u.guard) : u \in Elements(c[r].on[d])}
                         : d \in DOMAIN c[r].on}
          BY <5>1
        <5>3. QED BY <5>2 DEF EdgesFrom
      <4>3. QED BY <4>2 DEF Edge
    <3>4. QED BY <3>2, <3>3 DEF AllCandidates
  <2>2. CASE x = c[r].error_state /\ x # None
    <3>1. Edge(ids, r, x, "error", None) \in EdgesFrom(c, ids, r)
      BY <2>2 DEF EdgesFrom
    <3>2. QED BY <3>1 DEF Edge
  <2>3. QED BY <2>1, <2>2 DEF Successors
<1>4. ASSUME NEW x \in DrawnSuccessors(c, ids, s) PROVE x \in Successors(c, s)
  <2>1. PICK r \in DOMAIN c :
          \E edge \in EdgesFrom(c, ids, r) : edge.from = ids[s] /\ edge.to = ids[x]
    BY DEF DrawnSuccessors, Edges
  <2>2. PICK y \in Successors(c, r) : ids[s] = ids[r] /\ ids[x] = ids[y]
    BY <1>2, <2>1
  <2>3. r = s /\ y = x
    BY <1>1, <2>1, <2>2 DEF Distinct, DrawnSuccessors
  <2>4. QED BY <2>2, <2>3
<1>5. ASSUME NEW x \in Successors(c, s) PROVE x \in DrawnSuccessors(c, ids, s)
  <2>1. PICK edge \in EdgesFrom(c, ids, s) : edge.from = ids[s] /\ edge.to = ids[x]
    BY <1>3
  <2>2. edge \in Edges(c, ids)
    BY <2>1 DEF Edges
  <2>3. QED BY <1>1, <2>1, <2>2 DEF DrawnSuccessors
<1>6. QED BY <1>4, <1>5

(***************************************************************************)
(* The diagram of every machine from_dict accepts shows from each state    *)
(* edges to the states the engine can go to and to no other, whatever the  *)
(* names are made of and in whatever order they were declared.             *)
(***************************************************************************)
THEOREM DiagramsTell == Spec => []DiagramTellsTheGraph
<1>1. Built => DiagramTellsTheGraph
  <2> SUFFICES ASSUME Built, config # None, \A s \in DOMAIN config : config[s].error_state # "",
                      NEW ids \in IdsOf(config)
               PROVE  DrawsTheGraph(config, ids)
    BY DEF DiagramTellsTheGraph
  <2>1. DOMAIN config = DOMAIN source /\ IsFiniteSet(DOMAIN source) /\ source \in Sources
    BY DEF Built, IsSource, Parsed
  <2>2. PICK names \in SetToSeqs(DOMAIN config) : ids = AssignIds(names)
    BY DEF IdsOf
  <2>3. DOMAIN ids = DOMAIN config /\ Distinct(ids)
    BY <2>1, <2>2, SuffixAssumption, IdsDistinct
  <2>4. BadTargets(config) = {}
    BY DEF Built
  <2>5. \A s \in DOMAIN config : DrawnSuccessors(config, ids, s) = Successors(config, s)
    BY <2>3, <2>4, DrawnIsGraph
  <2>6. QED BY <2>5 DEF DrawsTheGraph
<1>2. QED BY <1>1, BuiltOnce, PTL
=============================================================================
