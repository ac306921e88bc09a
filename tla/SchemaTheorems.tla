--------------------------- MODULE SchemaTheorems ---------------------------
(***************************************************************************)
(* What the look-ups of Schema return, for every well-formed config, and   *)
(* what the operators of CallRecords say of sequences that grow.  The      *)
(* library's induction theorems take an operator, so induction goes by the *)
(* least element of a set of counterexamples.  And the order by which the  *)
(* calls of both engines descend.                                          *)
(***************************************************************************)
EXTENDS CallRecords, SequenceTheorems, WellFoundedInduction, TLAPS

(* A row of the transition table is a list of candidates, maybe empty.     *)
LEMMA TableRowType ==
  ASSUME NEW c, IsConfig(c), NEW s, NEW e
  PROVE  TableRow(c, s, e) \in Seq(TransitionConfig)
<1>1. CASE s \in DOMAIN c /\ e \in DOMAIN c[s].on
  BY <1>1 DEF TableRow, IsConfig, IsStateConfig
<1>2. CASE ~(s \in DOMAIN c /\ e \in DOMAIN c[s].on)
  BY <1>2 DEF TableRow
<1>3. QED BY <1>1, <1>2

(* _push_signal gets a list of candidates, and a non-empty one only in a   *)
(* state of the graph.                                                     *)
LEMMA LookupType ==
  ASSUME NEW c, IsConfig(c), NEW s, NEW e
  PROVE  /\ Lookup(c, s, e) \in Seq(TransitionConfig)
         /\ Lookup(c, s, e) # <<>> => s \in DOMAIN c
<1>1. Lookup(c, s, e) \in Seq(TransitionConfig)
  BY TableRowType DEF Lookup
<1>2. s \notin DOMAIN c => Lookup(c, s, e) = <<>>
  BY DEF Lookup, TableRow
<1>3. QED BY <1>1, <1>2

(* The lists a state of a well-formed config is made of.                   *)
LEMMA StateConfigType ==
  ASSUME NEW c, IsConfig(c), NEW s \in DOMAIN c
  PROVE  /\ s \in STRING
         /\ c[s].always \in Seq(TransitionConfig)
         /\ c[s].entry \in Seq(STRING)
         /\ c[s].exit \in Seq(STRING)
         /\ c[s].error_state \in STRING \cup {None}
BY DEF IsConfig, IsStateConfig

(* The target of a candidate is a name.                                    *)
LEMMA TargetType ==
  ASSUME NEW list \in Seq(TransitionConfig), NEW i \in DOMAIN list
  PROVE  /\ list[i].target \in STRING
         /\ list[i].guard \in STRING \cup {None}
         /\ list[i].actions \in Seq(STRING)
<1>1. list[i] \in TransitionConfig
  OBVIOUS
<1>2. QED BY <1>1 DEF TransitionConfig

(* What a look-up finds is a candidate of the state it was made in. *)
LEMMA LookedUpIsCandidate ==
  ASSUME NEW c, NEW s, NEW e, NEW i \in DOMAIN Lookup(c, s, e), Lookup(c, s, e) # <<>>
  PROVE  /\ s \in DOMAIN c
         /\ Lookup(c, s, e)[i] \in OnCandidates(c, s)
         /\ Lookup(c, s, e)[i] \in AllCandidates(c, s)
<1>1. PICK f \in {e, Wildcard} : s \in DOMAIN c /\ f \in DOMAIN c[s].on /\ Lookup(c, s, e) = c[s].on[f]
  BY DEF Lookup, TableRow
<1>2. Lookup(c, s, e)[i] \in Elements(c[s].on[f])
  BY <1>1 DEF Elements
<1>3. Lookup(c, s, e)[i] \in OnCandidates(c, s)
  BY <1>1, <1>2 DEF OnCandidates
<1>4. QED BY <1>1, <1>3 DEF AllCandidates

(* What _validate_machine has let through leads only to states it has. *)
LEMMA CheckedTargets ==
  ASSUME NEW c, BadTargets(c) = {}, NEW s \in DOMAIN c, NEW t \in AllCandidates(c, s)
  PROVE  t.target \in DOMAIN c
<1> DEFINE Targets(r) == {u.target : u \in AllCandidates(c, r)}
           Errors(r) == {c[r].error_state} \ {None, ""}
<1>1. BadTargets(c) = (UNION {Targets(r) \cup Errors(r) : r \in DOMAIN c}) \ DOMAIN c
  BY Zenon DEF BadTargets
<1>2. t.target \in Targets(s)
  OBVIOUS
<1> HIDE DEF Targets, Errors
<1>3. t.target \in UNION {Targets(r) \cup Errors(r) : r \in DOMAIN c}
  BY <1>2
<1>4. QED BY <1>1, <1>3, Zenon

(* ... and an error state that is declared is one of them. *)
LEMMA CheckedErrorStates ==
  ASSUME NEW c, BadTargets(c) = {}, NEW s \in DOMAIN c, c[s].error_state \notin {None, ""}
  PROVE  c[s].error_state \in DOMAIN c
<1> DEFINE Targets(r) == {u.target : u \in AllCandidates(c, r)}
           Errors(r) == {c[r].error_state} \ {None, ""}
<1>1. BadTargets(c) = (UNION {Targets(r) \cup Errors(r) : r \in DOMAIN c}) \ DOMAIN c
  BY Zenon DEF BadTargets
<1>2. c[s].error_state \in Errors(s)
  OBVIOUS
<1> HIDE DEF Targets, Errors
<1>3. c[s].error_state \in UNION {Targets(r) \cup Errors(r) : r \in DOMAIN c}
  BY <1>2
<1>4. QED BY <1>1, <1>3, Zenon

(* A path that gets longer still starts where it did, and stays in S if    *)
(* the state it gets is in S.                                              *)
LEMMA PathLengthens ==
  ASSUME NEW T, NEW path \in Seq(T), Len(path) > 0, NEW to \in T, NEW S
  PROVE  /\ Append(path, to)[1] = path[1]
         /\ to \in S /\ (\A i \in DOMAIN path : path[i] \in S) =>
              \A i \in DOMAIN Append(path, to) : Append(path, to)[i] \in S
<1> DEFINE longer == Append(path, to)
<1>0. /\ longer \in Seq(T) /\ Len(longer) = Len(path) + 1
      /\ longer[Len(path) + 1] = to
      /\ \A i \in 1 .. Len(path) : longer[i] = path[i]
  BY AppendProperties
<1> HIDE DEF longer
<1>1. /\ DOMAIN path = 1 .. Len(path) /\ Len(path) \in Nat
      /\ DOMAIN longer = 1 .. Len(path) + 1
  BY <1>0, LenProperties
<1>2. longer[1] = path[1]
  BY <1>0, <1>1
<1>3. ASSUME to \in S, \A i \in DOMAIN path : path[i] \in S, NEW i \in DOMAIN longer
      PROVE  longer[i] \in S
  <2>1. CASE i = Len(path) + 1
    BY <1>0, <1>1, <1>3, <2>1
  <2>2. CASE i # Len(path) + 1
    BY <1>0, <1>1, <1>3, <2>2
  <2>3. QED BY <2>1, <2>2
<1>4. QED BY <1>2, <1>3 DEF longer

(***************************************************************************)
(* Sequences written out, or given by a function.                          *)
(***************************************************************************)
LEMMA Singleton ==
  ASSUME NEW S, NEW e \in S
  PROVE  <<e>> \in Seq(S) /\ Len(<<e>>) = 1
OBVIOUS

(* The same of two elements. *)
LEMMA Couple ==
  ASSUME NEW S, NEW d \in S, NEW e \in S
  PROVE  <<d, e>> \in Seq(S) /\ Len(<<d, e>>) = 2
OBVIOUS

(* A function on 1 .. k is a sequence. *)
LEMMA FunctionIsSeq ==
  ASSUME NEW S, NEW k \in Nat, NEW f \in [1 .. k -> S]
  PROVE  f \in Seq(S) /\ Len(f) = k
OBVIOUS

(***************************************************************************)
(* A sequence that is appended to.                                         *)
(***************************************************************************)
LEMMA SeqGrows ==
  ASSUME NEW S, NEW h \in Seq(S), NEW s \in S
  PROVE  /\ Append(h, s) \in Seq(S)
         /\ Len(Append(h, s)) = Len(h) + 1
         /\ Len(Append(h, s)) > 0
         /\ Append(h, s)[Len(Append(h, s))] = s
<1>1. /\ Append(h, s) \in Seq(S) /\ Len(Append(h, s)) = Len(h) + 1
      /\ Append(h, s)[Len(h) + 1] = s
  BY AppendProperties
<1>2. Len(h) \in Nat
  BY LenProperties
<1>3. \A n \in Nat : n + 1 > 0
  OBVIOUS
<1>4. QED BY <1>1, <1>2, <1>3, Zenon

(***************************************************************************)
(* Induction, and flattening.                                              *)
(***************************************************************************)
Less == {ss \in Nat \X Nat : ss[1] < ss[2]}

(* A set of natural numbers has a least element. *)
LEMMA LeastNumber ==
  ASSUME NEW T, T \subseteq Nat, T # {}
  PROVE  \E m \in T : \A k \in T : m <= k
<1>1. IsWellFoundedOn(Less, Nat)
  BY NatLessThanWellFounded DEF Less, OpToRel
<1>2. PICK m \in T : \A k \in T : <<k, m>> \notin Less
  BY <1>1, WFMin, Zenon
<1>3. \A k \in Nat, n \in Nat : <<k, n>> \in Less <=> k < n
  BY DEF Less
<1>4. \A k \in T : ~(k < m)
  BY <1>2, <1>3
<1>5. QED BY <1>4

(* Induction on the natural numbers, from the least counterexample. *)
LEMMA Induct ==
  ASSUME NEW T, 0 \in T, \A n \in Nat : n \in T => n + 1 \in T
  PROVE  Nat \subseteq T
<1> SUFFICES ASSUME Nat \ T # {} PROVE FALSE OBVIOUS
<1>1. PICK m \in Nat \ T : \A k \in Nat \ T : m <= k
  BY LeastNumber
<1>2. m # 0 /\ m - 1 \in Nat /\ m - 1 \in T
  BY <1>1
<1>3. QED BY <1>1, <1>2

(***************************************************************************)
(* Descent: five numbers, compared from the left, cannot fall for ever.    *)
(***************************************************************************)
RankOrder == LexProductOrdering(Less, Nat, 5)

LEMMA RanksWellFounded == IsWellFoundedOn(RankOrder, [1 .. 5 -> Nat])
<1>1. IsWellFoundedOn(Less, Nat)
  BY NatLessThanWellFounded DEF Less, OpToRel
<1>2. 5 \in Nat
  OBVIOUS
<1>3. QED BY <1>1, <1>2, WFLexProductOrdering, Zenon DEF RankOrder

(* One of them falls, and those before it stay. *)
LEMMA RankFalls ==
  ASSUME NEW a \in Nat, NEW b \in Nat, NEW c \in Nat, NEW d \in Nat, NEW e \in Nat,
         NEW f \in Nat, NEW g \in Nat, NEW h \in Nat, NEW k \in Nat, NEW l \in Nat,
         \/ f < a
         \/ f = a /\ g < b
         \/ f = a /\ g = b /\ h < c
         \/ f = a /\ g = b /\ h = c /\ k < d
         \/ f = a /\ g = b /\ h = c /\ k = d /\ l < e
  PROVE  <<<<f, g, h, k, l>>, <<a, b, c, d, e>>>> \in RankOrder
<1> DEFINE old == <<a, b, c, d, e>>
           new == <<f, g, h, k, l>>
<1>1. old \in [1 .. 5 -> Nat] /\ new \in [1 .. 5 -> Nat]
  OBVIOUS
<1>2. /\ old[1] = a /\ old[2] = b /\ old[3] = c /\ old[4] = d /\ old[5] = e
      /\ new[1] = f /\ new[2] = g /\ new[3] = h /\ new[4] = k /\ new[5] = l
  OBVIOUS
<1> HIDE DEF old, new
<1>3. PICK j \in 1 .. 5 : (\A i \in 1 .. j - 1 : new[i] = old[i]) /\ new[j] < old[j]
  <2>1. CASE f < a
    <3>1. \A i \in 1 .. 1 - 1 : new[i] = old[i] OBVIOUS
    <3>2. QED BY <2>1, <3>1, <1>2
  <2>2. CASE f = a /\ g < b
    <3>1. \A i \in 1 .. 2 - 1 : i = 1 OBVIOUS
    <3>2. QED BY <2>2, <3>1, <1>2
  <2>3. CASE f = a /\ g = b /\ h < c
    <3>1. \A i \in 1 .. 3 - 1 : i = 1 \/ i = 2 OBVIOUS
    <3>2. QED BY <2>3, <3>1, <1>2
  <2>4. CASE f = a /\ g = b /\ h = c /\ k < d
    <3>1. \A i \in 1 .. 4 - 1 : i = 1 \/ i = 2 \/ i = 3 OBVIOUS
    <3>2. QED BY <2>4, <3>1, <1>2
  <2>5. CASE f = a /\ g = b /\ h = c /\ k = d /\ l < e
    <3>1. \A i \in 1 .. 5 - 1 : i = 1 \/ i = 2 \/ i = 3 \/ i = 4 OBVIOUS
    <3>2. QED BY <2>5, <3>1, <1>2
  <2>6. QED BY <2>1, <2>2, <2>3, <2>4, <2>5
<1>4. <<new[j], old[j]>> \in Less
  BY <1>1, <1>3 DEF Less
<1>5. <<new, old>> \in RankOrder
  BY <1>1, <1>3, <1>4 DEF RankOrder, LexProductOrdering
<1>6. QED BY <1>5 DEF new, old

(* flatten of FlattenSeq, on its first n sequences. *)
IsFlat(seqs, n, f) ==
  f = [i \in 1 .. n |-> IF i = 1 THEN seqs[i] ELSE f[i - 1] \o seqs[i]]

(* Its first value, ... *)
LEMMA FlatFirst ==
  ASSUME NEW seqs, NEW n \in Nat, NEW f, IsFlat(seqs, n, f), n > 0
  PROVE  f[1] = seqs[1]
<1>1. \A i \in 1 .. n : f[i] = IF i = 1 THEN seqs[i] ELSE f[i - 1] \o seqs[i]
  BY Zenon DEF IsFlat
<1>2. 1 \in 1 .. n
  OBVIOUS
<1>3. QED BY <1>1, <1>2, Zenon

(* ... and each next one. *)
LEMMA FlatNext ==
  ASSUME NEW seqs, NEW n \in Nat, NEW f, IsFlat(seqs, n, f), NEW i \in 2 .. n
  PROVE  f[i] = f[i - 1] \o seqs[i]
<1>1. i \in 1 .. n /\ i # 1
  OBVIOUS
<1>2. f[i] = IF i = 1 THEN seqs[i] ELSE f[i - 1] \o seqs[i]
  BY <1>1, Zenon DEF IsFlat
<1>3. QED BY <1>1, <1>2, Zenon

(* Such a function exists, ... *)
LEMMA FlatExists ==
  ASSUME NEW seqs
  PROVE  \A n \in Nat : \E f : IsFlat(seqs, n, f)
<1> DEFINE T == {n \in Nat : \E f : IsFlat(seqs, n, f)}
<1>1. 0 \in T
  <2>1. IsFlat(seqs, 0, <<>>)
    BY DEF IsFlat
  <2>2. QED BY <2>1
<1>2. ASSUME NEW n \in Nat, n \in T PROVE n + 1 \in T
  <2>1. PICK f : IsFlat(seqs, n, f)
    BY <1>2
  <2> DEFINE Flat(i) == IF i = 1 THEN seqs[i] ELSE f[i - 1] \o seqs[i]
             g == [i \in 1 .. n + 1 |-> IF i <= n THEN f[i] ELSE Flat(i)]
  <2>2. \A i \in 1 .. n + 1 : g[i] = IF i = 1 THEN seqs[i] ELSE g[i - 1] \o seqs[i]
    <3>1. \A i \in 1 .. n : f[i] = Flat(i)
      BY <2>1, Zenon DEF IsFlat
    <3>2. \A i \in 2 .. n + 1 : g[i - 1] = f[i - 1]
      OBVIOUS
    <3>3. QED BY <3>1, <3>2
  <2>3. g = [i \in 1 .. n + 1 |-> g[i]]
    OBVIOUS
  <2> HIDE DEF g
  <2>4. IsFlat(seqs, n + 1, g)
    BY <2>2, <2>3 DEF IsFlat
  <2>5. QED BY <2>4
<1> HIDE DEF T
<1>3. Nat \subseteq T
  BY <1>1, <1>2, Induct
<1>4. QED BY <1>3 DEF T

(* ... and depends on nothing but those sequences. *)
LEMMA FlatUnique ==
  ASSUME NEW s, NEW t, NEW m \in Nat, NEW n \in Nat, NEW f, NEW g,
         m <= n, \A i \in 1 .. m : s[i] = t[i],
         IsFlat(s, m, f), IsFlat(t, n, g), NEW k \in 1 .. m
  PROVE  f[k] = g[k]
<1> DEFINE T == {i \in Nat : i + 1 \in 1 .. m => f[i + 1] = g[i + 1]}
<1>a. m > 0 => f[1] = s[1]
  BY FlatFirst
<1>b. n > 0 => g[1] = t[1]
  BY FlatFirst
<1>c. \A i \in 2 .. m : f[i] = f[i - 1] \o s[i]
  BY FlatNext, Zenon
<1>d. \A i \in 2 .. n : g[i] = g[i - 1] \o t[i]
  BY FlatNext, Zenon
<1>1. 0 \in T
  <2> SUFFICES ASSUME 1 \in 1 .. m PROVE f[1] = g[1]
    OBVIOUS
  <2>1. m > 0 /\ n > 0 /\ s[1] = t[1]
    OBVIOUS
  <2>2. QED BY <1>a, <1>b, <2>1
<1>2. ASSUME NEW i \in Nat, i \in T PROVE i + 1 \in T
  <2> SUFFICES ASSUME i + 2 \in 1 .. m PROVE f[i + 2] = g[i + 2]
    OBVIOUS
  <2>1. f[i + 1] = g[i + 1] /\ s[i + 2] = t[i + 2]
    BY <1>2
  <2>2. (i + 2) - 1 = i + 1 /\ i + 2 \in 2 .. m /\ i + 2 \in 2 .. n
    OBVIOUS
  <2>3. f[i + 2] = f[i + 1] \o s[i + 2] /\ g[i + 2] = g[i + 1] \o t[i + 2]
    BY <2>2, <1>c, <1>d
  <2>4. QED BY <2>1, <2>3
<1>3. Nat \subseteq T
  <2> HIDE DEF T
  <2>1. QED BY <1>1, <1>2, Induct
<1>4. k - 1 \in T
  BY <1>3
<1>5. QED BY <1>4

(* FlattenSeq returns the last value of such a function. *)
LEMMA FlattenUnfold ==
  ASSUME NEW seqs, Len(seqs) \in Nat \ {0}
  PROVE  \E f : IsFlat(seqs, Len(seqs), f) /\ FlattenSeq(seqs) = f[Len(seqs)]
<1> DEFINE c == CHOOSE f : IsFlat(seqs, Len(seqs), f)
<1>1. IsFlat(seqs, Len(seqs), c)
  BY FlatExists
<1>2. FlattenSeq(seqs) = c[Len(seqs)]
  BY Zenon DEF FlattenSeq, IsFlat
<1>3. QED BY <1>1, <1>2

(* Flattening goes on from the left. *)
LEMMA FlattenAppend ==
  ASSUME NEW S, NEW seqs \in Seq(Seq(S)), NEW x \in Seq(S)
  PROVE  FlattenSeq(Append(seqs, x)) = FlattenSeq(seqs) \o x
<1> DEFINE t == Append(seqs, x)
           n == Len(seqs)
           m == n + 1
<1>1. /\ n \in Nat /\ m \in Nat /\ m > 0 /\ n <= m
      /\ Len(t) = m /\ t[m] = x /\ \A i \in 1 .. n : seqs[i] = t[i]
  BY AppendProperties, LenProperties
<1> HIDE DEF t
<1>2. PICK g : IsFlat(t, m, g) /\ FlattenSeq(t) = g[m]
  BY <1>1, FlattenUnfold
<1>3. CASE n = 0
  <2>1. seqs = <<>> /\ FlattenSeq(seqs) = <<>>
    BY <1>3, EmptySeq DEF FlattenSeq
  <2>2. g[1] = t[1]
    <3> HIDE DEF m
    <3>1. QED BY <1>1, <1>2, FlatFirst
  <2>3. QED BY <1>1, <1>2, <1>3, <2>1, <2>2, ConcatEmptySeq DEF t
<1>4. CASE n > 0
  <2>1. PICK f : IsFlat(seqs, n, f) /\ FlattenSeq(seqs) = f[n]
    BY <1>1, <1>4, FlattenUnfold
  <2>2. n \in 1 .. n /\ m \in 2 .. m /\ m - 1 = n
    BY <1>1, <1>4
  <2> HIDE DEF m, n
  <2>3. \A i \in 1 .. n : f[i] = g[i]
    <3>1. /\ n \in Nat /\ m \in Nat /\ n <= m
          /\ IsFlat(seqs, n, f) /\ IsFlat(t, m, g)
          /\ \A i \in 1 .. n : seqs[i] = t[i]
      BY <1>1, <1>2, <2>1
    <3> HIDE <1>1, <1>2, <2>1
    <3>2. ASSUME NEW k \in 1 .. n PROVE f[k] = g[k]
      BY <3>1, FlatUnique
    <3>3. QED BY <3>2
  <2>4. g[m] = g[m - 1] \o t[m]
    BY <1>1, <1>2, <2>2, FlatNext, Zenon
  <2>5. QED BY <1>1, <1>2, <2>1, <2>2, <2>3, <2>4 DEF t
<1>5. QED BY <1>1, <1>3, <1>4

(* Induction on sequences, from the last element. *)
LEMMA SeqInduct ==
  ASSUME NEW S, NEW T, <<>> \in T,
         \A q \in Seq(S), e \in S : q \in T => Append(q, e) \in T
  PROVE  Seq(S) \subseteq T
<1> DEFINE Missing(n) == \E q \in Seq(S) : q \notin T /\ Len(q) = n
           M == {n \in Nat : Missing(n)}
<1> SUFFICES ASSUME NEW q \in Seq(S), q \notin T
             PROVE  FALSE
  OBVIOUS
<1>1. M # {}
  <2>1. Len(q) \in Nat
    BY LenProperties
  <2>2. QED BY <2>1
<1>2. PICK n \in M : \A k \in M : n <= k
  <2> HIDE DEF M
  <2>1. M \subseteq Nat
    BY DEF M
  <2>2. QED BY <1>1, <2>1, LeastNumber
<1>3. PICK p \in Seq(S) : p \notin T /\ Len(p) = n
  OBVIOUS
<1>4. p # <<>>
  BY <1>3
<1>5. PICK o \in Seq(S), e \in S : p = Append(o, e)
  BY <1>4, SequenceEmptyOrAppend
<1>6. Len(o) \in Nat /\ Len(o) = n - 1 /\ o \notin T
  BY <1>3, <1>5, AppendProperties, LenProperties
<1>7. Len(o) \in M
  BY <1>6
<1>8. QED BY <1>2, <1>6, <1>7

(* There is nothing in nothing. *)
LEMMA FlattenEmpty == FlattenSeq(<<>>) = <<>>
BY DEF FlattenSeq

(* What is flattened keeps its elements. *)
LEMMA FlattenType ==
  ASSUME NEW S, NEW seqs \in Seq(Seq(S))
  PROVE  FlattenSeq(seqs) \in Seq(S)
<1> DEFINE T == {q \in Seq(Seq(S)) : FlattenSeq(q) \in Seq(S)}
<1>1. <<>> \in T
  BY FlattenEmpty, EmptySeq
<1>2. ASSUME NEW q \in Seq(Seq(S)), NEW e \in Seq(S), q \in T
      PROVE  Append(q, e) \in T
  <2>1. FlattenSeq(Append(q, e)) = FlattenSeq(q) \o e
    BY FlattenAppend
  <2>2. FlattenSeq(q) \o e \in Seq(S) /\ Append(q, e) \in Seq(Seq(S))
    BY <1>2, ConcatProperties, AppendProperties
  <2>3. QED BY <2>1, <2>2
<1> HIDE DEF T
<1>3. Seq(Seq(S)) \subseteq T
  BY <1>1, <1>2, SeqInduct
<1>4. QED BY <1>3 DEF T

(* Appending to the right part of a concatenation. *)
LEMMA ConcatAppend ==
  ASSUME NEW S, NEW p \in Seq(S), NEW q \in Seq(S), NEW e \in S
  PROVE  p \o Append(q, e) = Append(p \o q, e)
<1>1. <<e>> \in Seq(S) /\ p \o q \in Seq(S)
  BY ConcatProperties
<1>2. Append(q, e) = q \o <<e>> /\ Append(p \o q, e) = (p \o q) \o <<e>>
  BY <1>1, AppendIsConcat
<1>3. QED BY <1>1, <1>2, ConcatAssociative

(* Flattening distributes over concatenation. *)
LEMMA FlattenConcat ==
  ASSUME NEW S, NEW p \in Seq(Seq(S)), NEW q \in Seq(Seq(S))
  PROVE  FlattenSeq(p \o q) = FlattenSeq(p) \o FlattenSeq(q)
<1> DEFINE T == {r \in Seq(Seq(S)) : FlattenSeq(p \o r) = FlattenSeq(p) \o FlattenSeq(r)}
<1>0. FlattenSeq(p) \in Seq(S)
  BY FlattenType
<1>1. <<>> \in T
  BY <1>0, FlattenEmpty, EmptySeq, ConcatEmptySeq
<1>2. ASSUME NEW r \in Seq(Seq(S)), NEW e \in Seq(S), r \in T
      PROVE  Append(r, e) \in T
  <2>1. p \o r \in Seq(Seq(S)) /\ FlattenSeq(r) \in Seq(S) /\ Append(r, e) \in Seq(Seq(S))
    BY ConcatProperties, FlattenType, AppendProperties
  <2>2. FlattenSeq(p \o Append(r, e)) = FlattenSeq(p \o r) \o e
    <3>1. p \o Append(r, e) = Append(p \o r, e)
      BY ConcatAppend
    <3>2. FlattenSeq(Append(p \o r, e)) = FlattenSeq(p \o r) \o e
      BY <2>1, FlattenAppend
    <3>3. QED BY <3>1, <3>2
  <2>3. FlattenSeq(Append(r, e)) = FlattenSeq(r) \o e
    BY FlattenAppend
  <2>4. (FlattenSeq(p) \o FlattenSeq(r)) \o e = FlattenSeq(p) \o (FlattenSeq(r) \o e)
    <3>1. \A a, b \in Seq(S) : (a \o b) \o e = a \o (b \o e)
      BY ConcatAssociative
    <3>2. QED BY <1>0, <2>1, <3>1
  <2>5. QED BY <1>2, <2>1, <2>2, <2>3, <2>4
<1> HIDE DEF T
<1>3. Seq(Seq(S)) \subseteq T
  BY <1>1, <1>2, SeqInduct
<1>4. QED BY <1>3 DEF T

(* Every element of a sequence, mapped. *)
Mapped(f, q) == [i \in DOMAIN q |-> f[q[i]]]

Maps(f, S, R) == f \in [S -> R]

(* Mapping goes on from the left. *)
LEMMA MapAppend ==
  ASSUME NEW S, NEW R, NEW f, Maps(f, S, R), NEW q \in Seq(S), NEW e \in S
  PROVE  /\ Mapped(f, q) \in Seq(R)
         /\ Mapped(f, Append(q, e)) = Append(Mapped(f, q), f[e])
<1> DEFINE m == [i \in DOMAIN q |-> f[q[i]]]
           t == Append(q, e)
           mt == [i \in DOMAIN t |-> f[t[i]]]
<1>0. f \in [S -> R]
  BY DEF Maps
<1>1. /\ Len(q) \in Nat /\ DOMAIN q = 1 .. Len(q) /\ \A i \in 1 .. Len(q) : q[i] \in S
      /\ t \in Seq(S) /\ Len(t) = Len(q) + 1 /\ DOMAIN t = 1 .. Len(q) + 1
      /\ \A i \in 1 .. Len(q) : t[i] = q[i]
      /\ t[Len(q) + 1] = e
  BY AppendProperties, LenProperties, ElementOfSeq
<1> HIDE DEF t
<1>2. m \in Seq(R) /\ Len(m) = Len(q)
  BY <1>0, <1>1, FunctionIsSeq
<1>3. \A i \in 1 .. Len(q) : m[i] = f[q[i]]
  BY <1>1
<1>4. /\ Append(m, f[e]) \in Seq(R) /\ Len(Append(m, f[e])) = Len(q) + 1
      /\ \A i \in 1 .. Len(q) : Append(m, f[e])[i] = f[q[i]]
      /\ Append(m, f[e])[Len(q) + 1] = f[e]
  BY <1>0, <1>2, <1>3, AppendProperties
<1>5. \A i \in 1 .. Len(q) + 1 : t[i] \in S
  BY <1>1
<1>6. mt \in Seq(R) /\ Len(mt) = Len(q) + 1 /\ \A i \in 1 .. Len(q) + 1 : mt[i] = f[t[i]]
  <2>1. mt \in [1 .. Len(q) + 1 -> R]
    BY <1>0, <1>1, <1>5
  <2>2. QED BY <1>1, <2>1, FunctionIsSeq
<1>7. ASSUME NEW i \in 1 .. Len(q) + 1 PROVE mt[i] = Append(m, f[e])[i]
  BY <1>1, <1>4, <1>6
<1>8. mt = Append(m, f[e])
  <2> HIDE DEF m, mt
  <2>1. QED BY <1>4, <1>6, <1>7, SeqEqual
<1>9. QED BY <1>2, <1>8 DEF t, Mapped

(***************************************************************************)
(* The events of a queue, one at a time.                                   *)
(***************************************************************************)
(* What Append leaves alone, and what it adds. *)
LEMMA Grown ==
  ASSUME NEW S, NEW q \in Seq(S), NEW e \in S
  PROVE  /\ Len(q) \in Nat /\ DOMAIN q = 1 .. Len(q)
         /\ Append(q, e) \in Seq(S)
         /\ Len(Append(q, e)) = Len(q) + 1
         /\ DOMAIN Append(q, e) = 1 .. Len(q) + 1
         /\ \A i \in 1 .. Len(q) : Append(q, e)[i] = q[i]
         /\ Append(q, e)[Len(q) + 1] = e
BY AppendProperties, LenProperties

(* Appending an event changes nothing about the events before it. *)
LEMMA LatestKept ==
  ASSUME NEW S, NEW q \in Seq(S), NEW e \in S, NEW n \in 0 .. Len(q), NEW types, NEW j
  PROVE  Latest(Append(q, e), n, types, j) <=> Latest(q, n, types, j)
<1>1. \A k \in 1 .. n : Append(q, e)[k] = q[k]
  BY Grown
<1>2. n \in Nat
  BY Grown
<1> DEFINE t == Append(q, e)
<1> HIDE DEF t
<1>3. \A k \in 1 .. n : t[k] = q[k]
  BY <1>1 DEF t
<1>4. Latest(t, n, types, j) <=> Latest(q, n, types, j)
  BY <1>2, <1>3 DEF Latest
<1>5. QED BY <1>4 DEF t

(* ... nor about the step that was open, ... *)
LEMMA OpenKept ==
  ASSUME NEW S, NEW q \in Seq(S), NEW e \in S, NEW n \in 0 .. Len(q), NEW name
  PROVE  OpenAfter(Append(q, e), n, name) <=> OpenAfter(q, n, name)
<1>1. \A k \in 1 .. n : Append(q, e)[k] = q[k]
  BY Grown
<1>2. QED BY <1>1, LatestKept DEF OpenAfter

(* ... nor about the view a client held. *)
LEMMA HoldsKept ==
  ASSUME NEW S, NEW q \in Seq(S), NEW e \in S, NEW n \in 0 .. Len(q), NEW view
  PROVE  HoldsAfter(Append(q, e), n, view) <=> HoldsAfter(q, n, view)
<1>1. \A k \in 1 .. n : Append(q, e)[k] = q[k]
  BY Grown
<1>2. QED BY <1>1, LatestKept DEF HoldsAfter

(* An appended event of the types is the latest of them; ... *)
LEMMA LatestIsNew ==
  ASSUME NEW S, NEW q \in Seq(S), NEW e \in S, NEW types, e.type \in types
  PROVE  Latest(Append(q, e), Len(q) + 1, types, Len(q) + 1)
BY Grown DEF Latest

(* ... one of another type leaves the latest as it was. *)
LEMMA LatestStays ==
  ASSUME NEW S, NEW q \in Seq(S), NEW e \in S, NEW types, e.type \notin types,
         NEW j, Latest(q, Len(q), types, j)
  PROVE  Latest(Append(q, e), Len(q) + 1, types, j)
<1> DEFINE t == Append(q, e)
           n == Len(q)
<1>1. n \in Nat /\ (\A k \in 1 .. n : t[k] = q[k]) /\ t[n + 1] = e
  BY Grown
<1> HIDE DEF t, n
<1>2. Latest(q, n, types, j)
  BY DEF n
<1>3. j \in 1 .. n + 1 /\ t[j].type \in types
  BY <1>1, <1>2 DEF Latest
<1>4. ASSUME NEW k \in j + 1 .. n + 1 PROVE t[k].type \notin types
  <2>1. CASE k = n + 1
    BY <1>1, <2>1
  <2>2. CASE k # n + 1
    <3>1. k \in j + 1 .. n /\ k \in 1 .. n
      BY <1>1, <1>2, <2>2 DEF Latest
    <3>2. QED BY <1>1, <1>2, <3>1 DEF Latest
  <2>3. QED BY <2>1, <2>2
<1>5. Latest(t, n + 1, types, j)
  BY <1>3, <1>4 DEF Latest
<1>6. QED BY <1>5 DEF t, n

(* STEP_STARTED opens its step, ... *)
LEMMA OpenBegins ==
  ASSUME NEW S, NEW q \in Seq(S), NEW e \in S, e.type = "STEP_STARTED"
  PROVE  OpenAfter(Append(q, e), Len(q) + 1, e.step)
<1>1. Latest(Append(q, e), Len(q) + 1, Brackets, Len(q) + 1)
  BY LatestIsNew DEF Brackets
<1>2. Append(q, e)[Len(q) + 1] = e /\ Len(q) + 1 \in 1 .. Len(q) + 1
  BY Grown
<1>3. QED BY <1>1, <1>2 DEF OpenAfter

(* ... which stays open until the next bracket. *)
LEMMA OpenStays ==
  ASSUME NEW S, NEW q \in Seq(S), NEW e \in S, e.type \notin Brackets,
         NEW name, OpenAfter(q, Len(q), name)
  PROVE  OpenAfter(Append(q, e), Len(q) + 1, name)
<1>1. PICK j \in 1 .. Len(q) :
        Latest(q, Len(q), Brackets, j) /\ q[j].type = "STEP_STARTED" /\ q[j].step = name
  BY DEF OpenAfter
<1>2. Latest(Append(q, e), Len(q) + 1, Brackets, j)
  BY <1>1, LatestStays
<1>3. Append(q, e)[j] = q[j] /\ j \in 1 .. Len(q) + 1
  BY Grown
<1>4. QED BY <1>1, <1>2, <1>3 DEF OpenAfter

(* A client holds what the newest update says, ... *)
LEMMA HoldsNew ==
  ASSUME NEW S, NEW q \in Seq(S), NEW e \in S, e.type \in Updates
  PROVE  HoldsAfter(Append(q, e), Len(q) + 1, Held(e))
<1>1. Latest(Append(q, e), Len(q) + 1, Updates, Len(q) + 1)
  BY LatestIsNew
<1>2. Append(q, e)[Len(q) + 1] = e /\ Len(q) + 1 \in 1 .. Len(q) + 1
  BY Grown
<1>3. QED BY <1>1, <1>2 DEF HoldsAfter

(* ... until the next update. *)
LEMMA HoldsStays ==
  ASSUME NEW S, NEW q \in Seq(S), NEW e \in S, e.type \notin Updates,
         NEW view, HoldsAfter(q, Len(q), view)
  PROVE  HoldsAfter(Append(q, e), Len(q) + 1, view)
<1>1. PICK j \in 1 .. Len(q) : Latest(q, Len(q), Updates, j) /\ Held(q[j]) = view
  BY DEF HoldsAfter
<1>2. Latest(Append(q, e), Len(q) + 1, Updates, j)
  BY <1>1, LatestStays
<1>3. Append(q, e)[j] = q[j] /\ j \in 1 .. Len(q) + 1
  BY Grown
<1>4. QED BY <1>1, <1>2, <1>3 DEF HoldsAfter

(* What an event has to satisfy for the queue to stay well bracketed. *)
LEMMA BracketsGrow ==
  ASSUME NEW S, NEW q \in Seq(S), NEW e \in S, WellBracketed(q),
         TypeAt(q, Len(q)) \in Preceding(e.type),
         e.type = "STEP_FINISHED" => OpenAfter(q, Len(q), e.step)
  PROVE  WellBracketed(Append(q, e)) /\ TypeAt(Append(q, e), Len(q) + 1) = e.type
<1> DEFINE t == Append(q, e)
           n == Len(q)
<1>1. /\ n \in Nat /\ DOMAIN q = 1 .. n /\ DOMAIN t = 1 .. n + 1
      /\ \A k \in 1 .. n : t[k] = q[k]
      /\ t[n + 1] = e
  BY Grown
<1>2. \A k \in 0 .. n : \A name : OpenAfter(t, k, name) <=> OpenAfter(q, k, name)
  BY OpenKept
<1>3. WellBracketed(q) /\ TypeAt(q, n) \in Preceding(e.type)
      /\ (e.type = "STEP_FINISHED" => OpenAfter(q, n, e.step))
  OBVIOUS
<1> HIDE DEF t, n
<1>4. \A k \in 0 .. n : TypeAt(t, k) = TypeAt(q, k)
  <2> SUFFICES ASSUME NEW k \in 0 .. n PROVE TypeAt(t, k) = TypeAt(q, k)
    OBVIOUS
  <2>1. k # 0 => t[k] = q[k]
    BY <1>1
  <2>2. QED BY <2>1, Zenon DEF TypeAt
<1>5. ASSUME NEW i \in 1 .. n + 1
      PROVE  /\ TypeAt(t, i - 1) \in Preceding(t[i].type)
             /\ t[i].type = "STEP_FINISHED" => OpenAfter(t, i - 1, t[i].step)
  <2>0. i - 1 \in 0 .. n
    BY <1>1
  <2>1. CASE i = n + 1
    <3>1. i - 1 = n /\ t[i] = e
      BY <1>1, <2>1
    <3>2. QED BY <1>2, <1>3, <1>4, <2>0, <3>1
  <2>2. CASE i # n + 1
    <3>1. i \in DOMAIN q /\ t[i] = q[i]
      BY <1>1, <2>2
    <3>2. /\ TypeAt(q, i - 1) \in Preceding(q[i].type)
          /\ q[i].type = "STEP_FINISHED" => OpenAfter(q, i - 1, q[i].step)
      BY <1>3, <3>1 DEF WellBracketed
    <3>3. QED BY <1>2, <1>4, <2>0, <3>1, <3>2
  <2>3. QED BY <2>1, <2>2
<1>6. WellBracketed(t)
  BY <1>1, <1>5 DEF WellBracketed
<1>7. TypeAt(t, n + 1) = e.type
  <2>1. n + 1 # 0 /\ t[n + 1] = e
    BY <1>1
  <2>2. QED BY <2>1, Zenon DEF TypeAt
<1>8. QED BY <1>6, <1>7 DEF t, n

(* What a delta has to satisfy for the deltas to apply. *)
LEMMA DeltasGrow ==
  ASSUME NEW S, NEW q \in Seq(S), NEW e \in S, DeltasApply(q),
         e.type = "STATE_DELTA" => HoldsAfter(q, Len(q), e.old)
  PROVE  DeltasApply(Append(q, e))
<1> DEFINE t == Append(q, e)
           n == Len(q)
<1>1. /\ n \in Nat /\ DOMAIN q = 1 .. n /\ DOMAIN t = 1 .. n + 1
      /\ \A k \in 1 .. n : t[k] = q[k]
      /\ t[n + 1] = e
  BY Grown
<1>2. \A k \in 0 .. n : \A view : HoldsAfter(t, k, view) <=> HoldsAfter(q, k, view)
  BY HoldsKept
<1>3. DeltasApply(q) /\ (e.type = "STATE_DELTA" => HoldsAfter(q, n, e.old))
  OBVIOUS
<1> HIDE DEF t, n
<1>5. ASSUME NEW i \in 1 .. n + 1, t[i].type = "STATE_DELTA"
      PROVE  HoldsAfter(t, i - 1, t[i].old)
  <2>0. i - 1 \in 0 .. n
    BY <1>1
  <2>1. CASE i = n + 1
    <3>1. i - 1 = n /\ t[i] = e
      BY <1>1, <2>1
    <3>2. QED BY <1>2, <1>3, <1>5, <2>0, <3>1
  <2>2. CASE i # n + 1
    <3>1. i \in DOMAIN q /\ t[i] = q[i]
      BY <1>1, <2>2
    <3>2. QED BY <1>2, <1>3, <1>5, <2>0, <3>1 DEF DeltasApply
  <2>3. QED BY <2>1, <2>2
<1>6. DeltasApply(t)
  BY <1>1, <1>5 DEF DeltasApply
<1>7. QED BY <1>6 DEF t

(* The events so far end inside a step of that name. *)
InStep(q, name) ==
  /\ WellBracketed(q)
  /\ TypeAt(q, Len(q)) \in {"STATE_SNAPSHOT", "ACTIVITY_SNAPSHOT"}
  /\ OpenAfter(q, Len(q), name)

(* A client of the events so far holds that view. *)
InSync(q, view) == DeltasApply(q) /\ HoldsAfter(q, Len(q), view)

(* A list is its first n elements, then the rest. *)
LEMMA Halves ==
  ASSUME NEW S, NEW r \in Seq(S), NEW n \in 0 .. Len(r)
  PROVE  /\ SubSeq(r, 1, n) \in Seq(S)
         /\ SubSeq(r, n + 1, Len(r)) \in Seq(S)
         /\ Len(SubSeq(r, n + 1, Len(r))) = Len(r) - n
         /\ \A i \in 1 .. Len(r) - n : SubSeq(r, n + 1, Len(r))[i] = r[n + i]
         /\ SubSeq(r, 1, n) \o SubSeq(r, n + 1, Len(r)) = r
<1>1. Len(r) \in Nat /\ \A i \in 1 .. Len(r) : r[i] \in S
  BY LenProperties, ElementOfSeq
<1>2. SubSeq(r, 1, n) \in Seq(S)
  BY <1>1, SubSeqProperties
<1> DEFINE rest == SubSeq(r, n + 1, Len(r))
<1>3. /\ rest \in Seq(S)
      /\ Len(rest) = IF n + 1 <= Len(r) THEN Len(r) - (n + 1) + 1 ELSE 0
      /\ \A i \in 1 .. Len(r) - (n + 1) + 1 : rest[i] = r[n + 1 + i - 1]
  <2>1. \A i \in n + 1 .. Len(r) : r[i] \in S
    BY <1>1
  <2>2. n + 1 \in Int /\ Len(r) \in Int
    BY <1>1
  <2> HIDE DEF rest
  <2>3. QED BY <2>1, <2>2, SubSeqProperties DEF rest
<1>4. SubSeq(r, 1, n) \o rest = r
  <2>1. 1 \in 1 .. Len(r) + 1 /\ n \in 1 - 1 .. Len(r) /\ Len(r) \in n .. Len(r)
    BY <1>1
  <2>2. SubSeq(r, 1, n) \o SubSeq(r, n + 1, Len(r)) = SubSeq(r, 1, Len(r))
    BY <2>1, ConcatAdjacentSubSeq
  <2>3. QED BY <2>2, SubSeqFull
<1> HIDE DEF rest
<1>5. Len(rest) = Len(r) - n /\ \A i \in 1 .. Len(r) - n : rest[i] = r[n + i]
  BY <1>1, <1>3
<1>6. QED BY <1>2, <1>3, <1>4, <1>5 DEF rest

(* Appending does not change what was there. *)
LEMMA FirstOfAppend ==
  ASSUME NEW S, NEW r \in Seq(S), NEW n \in 0 .. Len(r), NEW e \in S
  PROVE  SubSeq(Append(r, e), 1, n) = SubSeq(r, 1, n)
<1>1. /\ Len(r) \in Nat /\ Append(r, e) \in Seq(S) /\ Len(Append(r, e)) = Len(r) + 1
      /\ \A i \in 1 .. Len(r) : Append(r, e)[i] = r[i]
  BY Grown
<1>2. /\ \A i \in 1 .. n : r[i] \in S /\ Append(r, e)[i] = r[i]
  BY <1>1, ElementOfSeq
<1>3. n \in Nat /\ \A i \in 1 .. n - 1 + 1 : i \in 1 .. n /\ 1 + i - 1 = i
  BY <1>1
<1> DEFINE a == SubSeq(r, 1, n)
           b == SubSeq(Append(r, e), 1, n)
<1>4. a \in Seq(S) /\ Len(a) = (IF 1 <= n THEN n - 1 + 1 ELSE 0)
      /\ \A i \in 1 .. n - 1 + 1 : a[i] = r[1 + i - 1]
  BY <1>2, <1>3, SubSeqProperties
<1>5. b \in Seq(S) /\ Len(b) = (IF 1 <= n THEN n - 1 + 1 ELSE 0)
      /\ \A i \in 1 .. n - 1 + 1 : b[i] = Append(r, e)[1 + i - 1]
  BY <1>2, <1>3, SubSeqProperties
<1> HIDE DEF a, b
<1>6. Len(a) = n /\ Len(b) = n /\ \A i \in 1 .. n : a[i] = b[i]
  BY <1>2, <1>3, <1>4, <1>5
<1>7. a = b
  BY <1>4, <1>5, <1>6, SeqEqual
<1>8. QED BY <1>7 DEF a, b

(* One or two events, appended at once. *)
LEMMA TwoAppended ==
  ASSUME NEW S, NEW q \in Seq(S), NEW a \in S, NEW b \in S
  PROVE  q \o <<a>> = Append(q, a) /\ q \o <<a, b>> = Append(Append(q, a), b)
<1>1. <<a>> \in Seq(S) /\ <<a, b>> = Append(<<a>>, b) /\ q \o <<a>> = Append(q, a)
  BY AppendIsConcat
<1>2. q \o Append(<<a>>, b) = Append(q \o <<a>>, b)
  BY <1>1, ConcatAppend
<1>3. QED BY <1>1, <1>2

(* A pair is a singleton and one more. *)
LEMMA PairAppended ==
  ASSUME NEW S, NEW a \in S, NEW b \in S
  PROVE  Append(<<a>>, b) = <<a, b>>
<1>1. <<>> \in Seq(S) /\ <<a>> \in Seq(S) /\ <<a, b>> \in Seq(S)
  OBVIOUS
<1>2. <<>> \o <<a>> = Append(<<>>, a) /\ <<>> \o <<a, b>> = Append(Append(<<>>, a), b)
  BY <1>1, TwoAppended
<1>3. <<>> \o <<a>> = <<a>> /\ <<>> \o <<a, b>> = <<a, b>>
  BY <1>1, ConcatEmptySeq
<1>4. QED BY <1>2, <1>3, Zenon

(* A queue with no open step may take a STEP_STARTED. *)
LEMMA AllClosedEnd ==
  ASSUME NEW q, AllClosed(q)
  PROVE  TypeAt(q, Len(q)) \in Preceding("STEP_STARTED")
BY DEF AllClosed, Preceding

(* A step begins, ... *)
LEMMA StepOpens ==
  ASSUME NEW S, NEW q \in Seq(S), NEW a \in S, WellBracketed(q), AllClosed(q),
         a.type = "STEP_STARTED"
  PROVE  /\ WellBracketed(q \o <<a>>)
         /\ \A b \in S : b.type = "STATE_SNAPSHOT" => InStep(q \o <<a, b>>, a.step)
<1>1. /\ Append(q, a) \in Seq(S) /\ Len(Append(q, a)) = Len(q) + 1
  BY Grown
<1>2. WellBracketed(Append(q, a)) /\ TypeAt(Append(q, a), Len(q) + 1) = "STEP_STARTED"
  BY AllClosedEnd, BracketsGrow
<1>3. OpenAfter(Append(q, a), Len(q) + 1, a.step)
  BY OpenBegins
<1>4. ASSUME NEW b \in S, b.type = "STATE_SNAPSHOT"
      PROVE  InStep(q \o <<a, b>>, a.step)
  <2> DEFINE t == Append(q, a)
  <2>1. t \in Seq(S) /\ WellBracketed(t) /\ TypeAt(t, Len(t)) = "STEP_STARTED"
        /\ OpenAfter(t, Len(t), a.step)
    BY <1>1, <1>2, <1>3
  <2> HIDE DEF t
  <2>2. TypeAt(t, Len(t)) \in Preceding(b.type)
    BY <1>4, <2>1 DEF Preceding
  <2>3. WellBracketed(Append(t, b)) /\ TypeAt(Append(t, b), Len(t) + 1) = "STATE_SNAPSHOT"
    BY <1>4, <2>1, <2>2, BracketsGrow
  <2>4. OpenAfter(Append(t, b), Len(t) + 1, a.step)
    BY <1>4, <2>1, OpenStays DEF Brackets
  <2>5. Len(Append(t, b)) = Len(t) + 1
    BY <2>1, Grown
  <2>6. q \o <<a, b>> = Append(t, b)
    BY TwoAppended DEF t
  <2>7. QED BY <2>3, <2>4, <2>5, <2>6 DEF InStep
<1>5. q \o <<a>> = Append(q, a)
  BY TwoAppended
<1>6. QED BY <1>2, <1>4, <1>5

(* ... goes on with activities, ... *)
LEMMA ActivityInStep ==
  ASSUME NEW S, NEW q \in Seq(S), NEW e \in S, e.type = "ACTIVITY_SNAPSHOT",
         NEW name, InStep(q, name)
  PROVE  InStep(Append(q, e), name)
<1>1. TypeAt(q, Len(q)) \in Preceding(e.type)
  BY DEF InStep, Preceding
<1>2. WellBracketed(Append(q, e)) /\ TypeAt(Append(q, e), Len(q) + 1) = "ACTIVITY_SNAPSHOT"
  BY <1>1, BracketsGrow DEF InStep
<1>3. OpenAfter(Append(q, e), Len(q) + 1, name)
  BY OpenStays DEF InStep, Brackets
<1>4. Len(Append(q, e)) = Len(q) + 1
  BY Grown
<1>5. QED BY <1>2, <1>3, <1>4 DEF InStep

(* An activity tells a client nothing about the state. *)
LEMMA ActivityInSync ==
  ASSUME NEW S, NEW q \in Seq(S), NEW e \in S, e.type = "ACTIVITY_SNAPSHOT",
         NEW view, InSync(q, view)
  PROVE  InSync(Append(q, e), view)
<1>1. DeltasApply(Append(q, e))
  BY DeltasGrow DEF InSync
<1>2. HoldsAfter(Append(q, e), Len(q) + 1, view)
  BY HoldsStays DEF InSync, Updates
<1>3. QED BY <1>1, <1>2, Grown DEF InSync

(* The same of any number of activities. *)
LEMMA ActivitiesInStep ==
  ASSUME NEW S, \A e \in S : e.type = "ACTIVITY_SNAPSHOT",
         NEW E, S \subseteq E, NEW q \in Seq(E), NEW p \in Seq(S)
  PROVE  /\ \A name : InStep(q, name) => InStep(q \o p, name)
         /\ \A view : InSync(q, view) => InSync(q \o p, view)
<1> DEFINE Goes(r) == /\ \A name : InStep(q, name) => InStep(q \o r, name)
                      /\ \A view : InSync(q, view) => InSync(q \o r, view)
           T == {r \in Seq(S) : Goes(r)}
<1>1. <<>> \in T
  BY EmptySeq, ConcatEmptySeq
<1>2. ASSUME NEW r \in Seq(S), NEW e \in S, r \in T
      PROVE  Append(r, e) \in T
  <2>1. r \in Seq(E) /\ e \in E
    BY SeqMonotonic
  <2>2. q \o Append(r, e) = Append(q \o r, e) /\ q \o r \in Seq(E)
    BY <2>1, ConcatAppend, ConcatProperties
  <2>3. \A name : InStep(q \o r, name) => InStep(Append(q \o r, e), name)
    BY <2>1, <2>2, ActivityInStep
  <2>4. \A view : InSync(q \o r, view) => InSync(Append(q \o r, e), view)
    BY <2>1, <2>2, ActivityInSync
  <2>5. Goes(r)
    BY <1>2
  <2>6. Goes(Append(r, e))
    BY <2>2, <2>3, <2>4, <2>5
  <2>7. Append(r, e) \in Seq(S)
    BY AppendProperties
  <2>8. QED BY <2>6, <2>7
<1> HIDE DEF T
<1>3. Seq(S) \subseteq T
  BY <1>1, <1>2, SeqInduct
<1>4. QED BY <1>3 DEF T

(* ... and ends, after the patch if there is one. *)
LEMMA StepCloses ==
  ASSUME NEW S, NEW q \in Seq(S), NEW e \in S, e.type = "STEP_FINISHED", InStep(q, e.step)
  PROVE  /\ WellBracketed(q \o <<e>>) /\ AllClosed(q \o <<e>>)
         /\ \A d \in S : d.type = "STATE_DELTA" =>
              WellBracketed(q \o <<d, e>>) /\ AllClosed(q \o <<d, e>>)
<1>1. WellBracketed(Append(q, e)) /\ TypeAt(Append(q, e), Len(q) + 1) = "STEP_FINISHED"
  <2>1. TypeAt(q, Len(q)) \in Preceding(e.type)
    BY DEF InStep, Preceding
  <2>2. QED BY <2>1, BracketsGrow DEF InStep
<1>2. Len(Append(q, e)) = Len(q) + 1 /\ q \o <<e>> = Append(q, e)
  BY Grown, TwoAppended
<1>3. ASSUME NEW d \in S, d.type = "STATE_DELTA"
      PROVE  WellBracketed(q \o <<d, e>>) /\ AllClosed(q \o <<d, e>>)
  <2> DEFINE t == Append(q, d)
  <2>1. TypeAt(q, Len(q)) \in Preceding(d.type)
    BY <1>3 DEF InStep, Preceding
  <2>2. /\ t \in Seq(S) /\ WellBracketed(t) /\ TypeAt(t, Len(t)) = "STATE_DELTA"
        /\ OpenAfter(t, Len(t), e.step)
    <3>1. WellBracketed(t) /\ TypeAt(t, Len(q) + 1) = "STATE_DELTA"
      BY <1>3, <2>1, BracketsGrow DEF InStep
    <3>2. OpenAfter(t, Len(q) + 1, e.step)
      BY <1>3, OpenStays DEF InStep, Brackets
    <3>3. QED BY <3>1, <3>2, Grown
  <2> HIDE DEF t
  <2>3. TypeAt(t, Len(t)) \in Preceding(e.type)
    BY <2>2 DEF Preceding
  <2>4. WellBracketed(Append(t, e)) /\ TypeAt(Append(t, e), Len(t) + 1) = "STEP_FINISHED"
    BY <2>2, <2>3, BracketsGrow
  <2>5. Len(Append(t, e)) = Len(t) + 1 /\ q \o <<d, e>> = Append(t, e)
    BY <2>2, Grown, TwoAppended DEF t
  <2>6. QED BY <2>4, <2>5 DEF AllClosed
<1>4. QED BY <1>1, <1>2, <1>3 DEF AllClosed

(* A snapshot puts a client in sync, whatever it held before. *)
LEMMA SnapshotSyncs ==
  ASSUME NEW S, NEW q \in Seq(S), NEW a \in S, DeltasApply(q), a.type = "STEP_STARTED"
  PROVE  /\ DeltasApply(q \o <<a>>)
         /\ \A b \in S : b.type = "STATE_SNAPSHOT" => InSync(q \o <<a, b>>, b.view)
<1>1. DeltasApply(Append(q, a)) /\ Append(q, a) \in Seq(S) /\ q \o <<a>> = Append(q, a)
  BY DeltasGrow, Grown, TwoAppended
<1>2. ASSUME NEW b \in S, b.type = "STATE_SNAPSHOT"
      PROVE  InSync(q \o <<a, b>>, b.view)
  <2> DEFINE t == Append(q, a)
  <2>1. t \in Seq(S) /\ DeltasApply(t)
    BY <1>1
  <2>2. q \o <<a, b>> = Append(t, b)
    BY TwoAppended
  <2> HIDE DEF t
  <2>3. DeltasApply(Append(t, b))
    BY <1>2, <2>1, DeltasGrow
  <2>4. HoldsAfter(Append(t, b), Len(t) + 1, b.view)
    <3>1. Held(b) = b.view
      BY <1>2 DEF Held
    <3>2. QED BY <1>2, <2>1, <3>1, HoldsNew DEF Updates
  <2>5. Len(Append(t, b)) = Len(t) + 1
    BY <2>1, Grown
  <2>6. QED BY <2>2, <2>3, <2>4, <2>5 DEF InSync
<1>3. QED BY <1>1, <1>2

(* So does a delta made against what it holds. *)
LEMMA PatchSyncs ==
  ASSUME NEW S, NEW q \in Seq(S), NEW e \in S, e.type = "STEP_FINISHED",
         NEW view, InSync(q, view)
  PROVE  /\ InSync(q \o <<e>>, view)
         /\ \A d \in S : d.type = "STATE_DELTA" /\ d.old = view => InSync(q \o <<d, e>>, d.new)
<1>1. \A t \in Seq(S) : \A v : InSync(t, v) => InSync(Append(t, e), v)
  <2> SUFFICES ASSUME NEW t \in Seq(S), NEW v, InSync(t, v) PROVE InSync(Append(t, e), v)
    OBVIOUS
  <2>1. DeltasApply(Append(t, e))
    BY DeltasGrow DEF InSync
  <2>2. HoldsAfter(Append(t, e), Len(t) + 1, v)
    BY HoldsStays DEF InSync, Updates
  <2>3. QED BY <2>1, <2>2, Grown DEF InSync
<1>2. ASSUME NEW d \in S, d.type = "STATE_DELTA", d.old = view
      PROVE  InSync(q \o <<d, e>>, d.new)
  <2>1. DeltasApply(Append(q, d))
    BY <1>2, DeltasGrow DEF InSync
  <2>2. HoldsAfter(Append(q, d), Len(q) + 1, d.new)
    <3>1. Held(d) = d.new
      BY <1>2 DEF Held
    <3>2. QED BY <1>2, <3>1, HoldsNew DEF Updates
  <2>3. InSync(Append(q, d), d.new) /\ Append(q, d) \in Seq(S)
    BY <2>1, <2>2, Grown DEF InSync
  <2>4. q \o <<d, e>> = Append(Append(q, d), e)
    BY TwoAppended
  <2>5. QED BY <1>1, <2>3, <2>4
<1>3. q \o <<e>> = Append(q, e)
  BY TwoAppended
<1>4. QED BY <1>1, <1>2, <1>3

(***************************************************************************)
(* The results of a round.                                                 *)
(***************************************************************************)
(* A row of nothing is always found. *)
LEMMA EndsEmpty ==
  ASSUME NEW S, NEW r \in Seq(S), NEW later
  PROVE  EndsWith(r, <<>>, later)
<1>1. Len(r) \in Nat
  BY LenProperties
<1>2. Len(r) \in 0 .. Len(r) - Len(<<>>) /\ Len(<<>>) = 0
  BY <1>1, EmptySeq
<1>3. QED BY <1>1, <1>2 DEF EndsWith

(* A row at the very end grows with the results, ... *)
LEMMA EndsGrowsPart ==
  ASSUME NEW S, NEW r \in Seq(S), NEW e \in S, NEW R, NEW part \in Seq(R), e \in R,
         EndsWith(r, part, {})
  PROVE  EndsWith(Append(r, e), Append(part, e), {})
<1> DEFINE t == Append(r, e)
           p == Append(part, e)
           m == Len(part)
           k == Len(r)
<1>1. /\ k \in Nat /\ Len(t) = k + 1 /\ t[k + 1] = e
      /\ \A i \in 1 .. k : t[i] = r[i]
  BY AppendProperties, LenProperties
<1>2. /\ m \in Nat /\ Len(p) = m + 1 /\ p[m + 1] = e
      /\ \A i \in 1 .. m : p[i] = part[i]
  BY AppendProperties, LenProperties
<1>3. PICK n \in 0 .. k - m : /\ \A i \in 1 .. m : r[n + i] = part[i]
                              /\ \A i \in n + m + 1 .. k : FALSE
  BY DEF EndsWith
<1>4. n + m = k
  BY <1>1, <1>2, <1>3
<1> HIDE DEF t, p, m, k
<1>5. \A i \in 1 .. m + 1 : t[n + i] = p[i]
  <2> SUFFICES ASSUME NEW i \in 1 .. m + 1 PROVE t[n + i] = p[i]
    OBVIOUS
  <2>1. CASE i = m + 1
    <3>1. n + i = k + 1
      BY <1>1, <1>2, <1>3, <1>4, <2>1
    <3>2. QED BY <1>1, <1>2, <2>1, <3>1
  <2>2. CASE i # m + 1
    <3>1. i \in 1 .. m /\ n + i \in 1 .. k
      BY <1>1, <1>2, <1>3, <1>4, <2>2
    <3>2. QED BY <1>1, <1>2, <1>3, <3>1
  <2>3. QED BY <2>1, <2>2
<1>6. n \in 0 .. Len(t) - Len(p) /\ \A i \in n + Len(p) + 1 .. Len(t) : FALSE
  BY <1>1, <1>2, <1>3, <1>4
<1>7. EndsWith(t, p, {})
  BY <1>2, <1>5, <1>6 DEF EndsWith
<1>8. QED BY <1>7 DEF t, p

(* ... and stays where it is when a result of the later kinds follows. *)
LEMMA EndsGrowsLater ==
  ASSUME NEW S, NEW r \in Seq(S), NEW e \in S, NEW R, NEW part \in Seq(R),
         NEW later, <<e.kind, e.source>> \in later, EndsWith(r, part, later)
  PROVE  EndsWith(Append(r, e), part, later)
<1> DEFINE t == Append(r, e)
           m == Len(part)
           k == Len(r)
<1>1. /\ k \in Nat /\ Len(t) = k + 1 /\ t[k + 1] = e
      /\ \A i \in 1 .. k : t[i] = r[i]
  BY AppendProperties, LenProperties
<1>2. m \in Nat
  BY LenProperties
<1>3. PICK n \in 0 .. k - m :
        /\ \A i \in 1 .. m : r[n + i] = part[i]
        /\ \A i \in n + m + 1 .. k : <<r[i].kind, r[i].source>> \in later
  BY DEF EndsWith
<1> HIDE DEF t, m, k
<1>4. n \in 0 .. Len(t) - m /\ \A i \in 1 .. m : t[n + i] = part[i]
  <2>1. \A i \in 1 .. m : n + i \in 1 .. k
    BY <1>1, <1>2, <1>3
  <2>2. QED BY <1>1, <1>2, <1>3, <2>1
<1>5. ASSUME NEW i \in n + m + 1 .. Len(t) PROVE <<t[i].kind, t[i].source>> \in later
  <2>1. CASE i = k + 1
    BY <1>1, <2>1
  <2>2. CASE i # k + 1
    <3>1. i \in n + m + 1 .. k /\ i \in 1 .. k
      BY <1>1, <1>2, <1>3, <2>2
    <3>2. QED BY <1>1, <1>3, <3>1
  <2>3. QED BY <2>1, <2>2
<1>6. EndsWith(t, part, later)
  BY <1>4, <1>5 DEF EndsWith, m
<1>7. QED BY <1>6 DEF t

(* More kinds of later results may be allowed. *)
LEMMA EndsWeaken ==
  ASSUME NEW r, NEW part, NEW less, NEW more, less \subseteq more, EndsWith(r, part, less)
  PROVE  EndsWith(r, part, more)
BY DEF EndsWith

(* A function on 1 .. n + 1 as a sequence that was appended to. *)
LEMMA FunctionGrows ==
  ASSUME NEW S, NEW n \in Nat, NEW f \in [1 .. n + 1 -> S]
  PROVE  /\ [i \in 1 .. n |-> f[i]] \in Seq(S)
         /\ f = Append([i \in 1 .. n |-> f[i]], f[n + 1])
<1> DEFINE p == [i \in 1 .. n |-> f[i]]
<1>1. f \in Seq(S) /\ Len(f) = n + 1 /\ f[n + 1] \in S
  BY FunctionIsSeq
<1>2. p \in Seq(S) /\ Len(p) = n
  <2>1. p \in [1 .. n -> S]
    OBVIOUS
  <2>2. QED BY <2>1, FunctionIsSeq
<1>3. \A i \in 1 .. n : p[i] = f[i]
  OBVIOUS
<1> HIDE DEF p
<1>4. /\ Append(p, f[n + 1]) \in Seq(S) /\ Len(Append(p, f[n + 1])) = n + 1
      /\ \A i \in 1 .. n : Append(p, f[n + 1])[i] = f[i]
      /\ Append(p, f[n + 1])[n + 1] = f[n + 1]
  BY <1>1, <1>2, <1>3, AppendProperties
<1>5. \A i \in 1 .. n + 1 : Append(p, f[n + 1])[i] = f[i]
  BY <1>4
<1>6. f = Append(p, f[n + 1])
  BY <1>1, <1>4, <1>5, SeqEqual
<1>7. QED BY <1>2, <1>6 DEF p

(* Refusing one more candidate appends one more result. *)
LEMMA RefusalsGrow ==
  ASSUME NEW list, NEW n \in Nat, NEW s, NEW source
  PROVE  /\ Refusals(list, 0, s, source) = <<>>
         /\ \E R : /\ Refusals(list, n, s, source) \in Seq(R)
                   /\ GuardResult(s, source, list[n + 1].guard, FALSE) \in R
                   /\ GuardResult(s, source, list[n + 1].guard, TRUE) \in R
         /\ Refusals(list, n + 1, s, source)
              = Append(Refusals(list, n, s, source),
                       GuardResult(s, source, list[n + 1].guard, FALSE))
<1> DEFINE No(i) == GuardResult(s, source, list[i].guard, FALSE)
           yes == GuardResult(s, source, list[n + 1].guard, TRUE)
           R == {No(i) : i \in 1 .. n + 1} \cup {yes}
           t == [i \in 1 .. n + 1 |-> No(i)]
<1> HIDE DEF No, yes
<1>1. t \in [1 .. n + 1 -> R] /\ t[n + 1] = No(n + 1) /\ No(n + 1) \in R /\ yes \in R
  <2>1. n + 1 \in 1 .. n + 1
    OBVIOUS
  <2>2. QED BY <2>1
<1>2. [i \in 1 .. n |-> t[i]] = [i \in 1 .. n |-> No(i)]
  BY \A i \in 1 .. n : i \in 1 .. n + 1
<1>3. [i \in 1 .. n |-> No(i)] \in Seq(R) /\ t = Append([i \in 1 .. n |-> No(i)], No(n + 1))
  <2> HIDE DEF t, R
  <2>1. QED BY <1>1, <1>2, FunctionGrows
<1>4. Refusals(list, 0, s, source) = <<>>
  BY DEF Refusals
<1>5. /\ Refusals(list, n, s, source) = [i \in 1 .. n |-> No(i)]
      /\ Refusals(list, n + 1, s, source) = t
      /\ No(n + 1) = GuardResult(s, source, list[n + 1].guard, FALSE)
  BY DEF Refusals, No
<1>6. yes = GuardResult(s, source, list[n + 1].guard, TRUE)
  BY DEF yes
<1> HIDE DEF t, R
<1>7. QED BY <1>1, <1>3, <1>4, <1>5, <1>6

(* The rounds of a call: one more refusal, ... *)
LEMMA OneMoreRefusal ==
  ASSUME NEW S, NEW r \in Seq(S), NEW list, NEW n \in Nat, NEW s, NEW source,
         NEW e \in S, e = GuardResult(s, source, list[n + 1].guard, FALSE),
         EndsWith(r, Refusals(list, n, s, source), {})
  PROVE  EndsWith(Append(r, e), Refusals(list, n + 1, s, source), {})
<1>1. PICK R : Refusals(list, n, s, source) \in Seq(R) /\ e \in R
  BY RefusalsGrow
<1>2. EndsWith(Append(r, e), Append(Refusals(list, n, s, source), e), {})
  BY <1>1, EndsGrowsPart
<1>3. QED BY <1>2, RefusalsGrow

(* ... or the acceptance of a guarded or an unguarded candidate. *)
LEMMA ThenAccepted ==
  ASSUME NEW S, NEW r \in Seq(S), NEW list, NEW n \in Nat, NEW s, NEW source,
         EndsWith(r, Refusals(list, n, s, source), {})
  PROVE  /\ list[n + 1].guard = None => EndsWith(r, Acceptance(list, n + 1, s, source), {})
         /\ \A e \in S :
              list[n + 1].guard # None /\ e = GuardResult(s, source, list[n + 1].guard, TRUE) =>
                EndsWith(Append(r, e), Acceptance(list, n + 1, s, source), {})
<1>0. (n + 1) - 1 = n
  OBVIOUS
<1>1. ASSUME list[n + 1].guard = None
      PROVE  EndsWith(r, Acceptance(list, n + 1, s, source), {})
  <2>1. PICK R : Refusals(list, n, s, source) \in Seq(R)
    BY RefusalsGrow
  <2>2. Acceptance(list, n + 1, s, source) = Refusals(list, n, s, source) \o <<>>
    BY <1>0, <1>1, Zenon DEF Acceptance
  <2>3. QED BY <2>1, <2>2, ConcatEmptySeq
<1>2. ASSUME NEW e \in S, list[n + 1].guard # None,
             e = GuardResult(s, source, list[n + 1].guard, TRUE)
      PROVE  EndsWith(Append(r, e), Acceptance(list, n + 1, s, source), {})
  <2>1. PICK R : Refusals(list, n, s, source) \in Seq(R) /\ e \in R
    BY <1>2, RefusalsGrow
  <2>2. Acceptance(list, n + 1, s, source) = Refusals(list, n, s, source) \o <<e>>
    BY <1>0, <1>2, Zenon DEF Acceptance
  <2>3. Acceptance(list, n + 1, s, source) = Append(Refusals(list, n, s, source), e)
    BY <2>1, <2>2, AppendIsConcat
  <2>4. QED BY <2>1, <2>3, EndsGrowsPart
<1>3. QED BY <1>1, <1>2

(* The rows the properties look for are sequences. *)
LEMMA PartTyped ==
  ASSUME NEW list, NEW n \in Nat, NEW s, NEW source
  PROVE  /\ \E R : Refusals(list, n, s, source) \in Seq(R)
         /\ n > 0 => \E R : Acceptance(list, n, s, source) \in Seq(R)
<1>1. \E R : Refusals(list, n, s, source) \in Seq(R)
  BY RefusalsGrow
<1>2. ASSUME n > 0 PROVE \E R : Acceptance(list, n, s, source) \in Seq(R)
  <2>1. n - 1 \in Nat /\ (n - 1) + 1 = n
    BY <1>2
  <2>2. PICK R : /\ Refusals(list, n - 1, s, source) \in Seq(R)
                 /\ GuardResult(s, source, list[n].guard, TRUE) \in R
    BY <2>1, RefusalsGrow
  <2>3. CASE list[n].guard = None
    <3>1. Acceptance(list, n, s, source) = Refusals(list, n - 1, s, source) \o <<>>
      BY <2>3, Zenon DEF Acceptance
    <3>2. QED BY <2>2, <3>1, ConcatEmptySeq
  <2>4. CASE list[n].guard # None
    <3> DEFINE yes == GuardResult(s, source, list[n].guard, TRUE)
    <3>1. Acceptance(list, n, s, source) = Refusals(list, n - 1, s, source) \o <<yes>>
      BY <2>4, Zenon DEF Acceptance
    <3>2. yes \in R
      BY <2>2
    <3> HIDE DEF yes
    <3>3. QED BY <2>2, <3>1, <3>2, ConcatProperties, Singleton
  <2>5. QED BY <2>3, <2>4
<1>3. QED BY <1>1, <1>2

(* What came of the candidates stays at the end while only later entries *)
(* are recorded.                                                         *)
LEMMA RefusalsStay ==
  ASSUME NEW S, NEW r \in Seq(S), NEW e \in S, NEW list, NEW n \in Nat, NEW s, NEW source,
         NEW later, <<e.kind, e.source>> \in later,
         EndsWith(r, Refusals(list, n, s, source), later)
  PROVE  EndsWith(Append(r, e), Refusals(list, n, s, source), later)
<1>1. PICK R : Refusals(list, n, s, source) \in Seq(R)
  BY PartTyped
<1>2. QED BY <1>1, EndsGrowsLater

(* ... accepted as well as refused. *)
LEMMA AcceptanceStays ==
  ASSUME NEW S, NEW r \in Seq(S), NEW e \in S, NEW list, NEW n \in Nat, n > 0,
         NEW s, NEW source, NEW later, <<e.kind, e.source>> \in later,
         EndsWith(r, Acceptance(list, n, s, source), later)
  PROVE  EndsWith(Append(r, e), Acceptance(list, n, s, source), later)
<1>1. PICK R : Acceptance(list, n, s, source) \in Seq(R)
  BY PartTyped
<1>2. QED BY <1>1, EndsGrowsLater

(***************************************************************************)
(* What activities report, and what the results say of a lifecycle.        *)
(***************************************************************************)
(* Map, then flatten: it goes on from the left. *)
LEMMA FlattenMap ==
  ASSUME NEW E, NEW R, NEW f, Maps(f, E, Seq(R)), NEW q \in Seq(E), NEW e \in E
  PROVE  /\ FlattenSeq(Mapped(f, q)) \in Seq(R)
         /\ FlattenSeq(Mapped(f, Append(q, e))) = FlattenSeq(Mapped(f, q)) \o f[e]
<1>1. Mapped(f, q) \in Seq(Seq(R)) /\ Mapped(f, Append(q, e)) = Append(Mapped(f, q), f[e])
  BY MapAppend
<1>2. f[e] \in Seq(R)
  BY DEF Maps
<1>3. QED BY <1>1, <1>2, FlattenType, FlattenAppend

(* Events in E report results in R, ... *)
Reporting(E, R) == \A e \in E : ReportedBy(e) \in Seq(R)

(* ... and a turns a result into the event that reports it. *)
Tells(a, R, E) == Maps(a, R, E) /\ \A x \in R : ReportedBy(a[x]) = <<x>>

(* What the activities report, event by event. *)
LEMMA ReportedGrows ==
  ASSUME NEW E, NEW R, Reporting(E, R), NEW q \in Seq(E), NEW e \in E
  PROVE  /\ Reported(q) \in Seq(R)
         /\ Reported(Append(q, e)) = Reported(q) \o ReportedBy(e)
<1> DEFINE f == [x \in E |-> ReportedBy(x)]
<1>1. Maps(f, E, Seq(R)) /\ \A x \in E : f[x] = ReportedBy(x)
  BY DEF Maps, Reporting
<1>2. /\ \A i \in DOMAIN q : q[i] \in E
      /\ \A i \in DOMAIN Append(q, e) : Append(q, e)[i] \in E
  BY Grown, ElementOfSeq, LenProperties
<1> HIDE DEF f
<1>3. Reported(q) = FlattenSeq(Mapped(f, q)) /\ Reported(Append(q, e)) = FlattenSeq(Mapped(f, Append(q, e)))
  BY <1>1, <1>2 DEF Reported, Mapped
<1>4. /\ FlattenSeq(Mapped(f, q)) \in Seq(R)
      /\ FlattenSeq(Mapped(f, Append(q, e))) = FlattenSeq(Mapped(f, q)) \o f[e]
  BY <1>1, FlattenMap
<1>5. QED BY <1>1, <1>3, <1>4

(* An empty queue reports nothing. *)
LEMMA NothingReported == Reported(<<>>) = <<>>
<1>1. [i \in DOMAIN <<>> |-> ReportedBy(<<>>[i])] = <<>>
  OBVIOUS
<1>2. QED BY <1>1, FlattenEmpty DEF Reported

(* One activity for each result of a list reports that list. *)
LEMMA ActivitiesReported ==
  ASSUME NEW E, NEW R, Reporting(E, R), NEW q \in Seq(E), NEW r \in Seq(R),
         NEW a, Tells(a, R, E)
  PROVE  Reported(q \o Mapped(a, r)) = Reported(q) \o r
<1> DEFINE Right(o) == Mapped(a, o) \in Seq(E) /\ Reported(q \o Mapped(a, o)) = Reported(q) \o o
           T == {o \in Seq(R) : Right(o)}
<1>0. Reported(q) \in Seq(R)
  <2>1. CASE E = {}
    <3>1. q = <<>>
      <4>1. q # <<>> => q[1] \in E
        BY EmptySeq, LenProperties, ElementOfSeq
      <4>2. QED BY <2>1, <4>1
    <3>2. QED BY <3>1, NothingReported, EmptySeq
  <2>2. CASE E # {}
    BY <2>2, ReportedGrows
  <2>3. QED BY <2>1, <2>2
<1>1. <<>> \in T
  <2>1. Mapped(a, <<>>) = <<>>
    BY DEF Mapped
  <2>2. QED BY <1>0, <2>1, EmptySeq, ConcatEmptySeq
<1>2. ASSUME NEW o \in Seq(R), NEW x \in R, o \in T
      PROVE  Append(o, x) \in T
  <2>0. Maps(a, R, E) /\ ReportedBy(a[x]) = <<x>>
    BY DEF Tells
  <2>1. Mapped(a, o) \in Seq(E) /\ Mapped(a, Append(o, x)) = Append(Mapped(a, o), a[x])
    BY <2>0, MapAppend
  <2>2. Right(o) /\ a[x] \in E /\ Append(o, x) \in Seq(R)
    BY <1>2, <2>0, Grown DEF Maps
  <2>3. /\ q \o Append(Mapped(a, o), a[x]) = Append(q \o Mapped(a, o), a[x])
        /\ q \o Mapped(a, o) \in Seq(E) /\ Append(Mapped(a, o), a[x]) \in Seq(E)
    BY <2>1, <2>2, ConcatAppend, ConcatProperties, Grown
  <2>4. Reported(Append(q \o Mapped(a, o), a[x])) = Reported(q \o Mapped(a, o)) \o ReportedBy(a[x])
    BY <2>2, <2>3, ReportedGrows
  <2>5. (Reported(q) \o o) \o <<x>> = Reported(q) \o Append(o, x)
    <3>1. (Reported(q) \o o) \o <<x>> = Append(Reported(q) \o o, x)
      BY <1>0, ConcatProperties, AppendIsConcat
    <3>2. Reported(q) \o Append(o, x) = Append(Reported(q) \o o, x)
      BY <1>0, ConcatAppend
    <3>3. QED BY <3>1, <3>2
  <2>6. Right(Append(o, x))
    BY <2>0, <2>1, <2>2, <2>3, <2>4, <2>5
  <2>7. QED BY <2>2, <2>6
<1> HIDE DEF T
<1>3. Seq(R) \subseteq T
  BY <1>1, <1>2, SeqInduct
<1>4. QED BY <1>3 DEF T

(* The events that open or close a step report no result. *)
LEMMA OthersReportNothing ==
  ASSUME NEW E, NEW R, Reporting(E, R), NEW q \in Seq(E),
         NEW a \in E, a.type # "ACTIVITY_SNAPSHOT"
  PROVE  /\ Reported(q) \in Seq(R)
         /\ Reported(q \o <<a>>) = Reported(q)
         /\ \A b \in E : b.type # "ACTIVITY_SNAPSHOT" => Reported(q \o <<a, b>>) = Reported(q)
<1>1. \A p \in Seq(E), x \in E :
        x.type # "ACTIVITY_SNAPSHOT" =>
          Reported(p) \in Seq(R) /\ Reported(Append(p, x)) = Reported(p)
  <2> SUFFICES ASSUME NEW p \in Seq(E), NEW x \in E, x.type # "ACTIVITY_SNAPSHOT"
               PROVE  Reported(p) \in Seq(R) /\ Reported(Append(p, x)) = Reported(p)
    OBVIOUS
  <2>1. Reported(p) \in Seq(R) /\ Reported(Append(p, x)) = Reported(p) \o ReportedBy(x)
    BY ReportedGrows
  <2>2. ReportedBy(x) = <<>>
    BY DEF ReportedBy
  <2>3. QED BY <2>1, <2>2, ConcatEmptySeq
<1>2. q \o <<a>> = Append(q, a) /\ Append(q, a) \in Seq(E)
  BY TwoAppended, Grown
<1>3. \A b \in E : q \o <<a, b>> = Append(Append(q, a), b)
  BY TwoAppended
<1>4. QED BY <1>1, <1>2, <1>3

(* Reporting what a list holds from n on completes the report. *)
LEMMA RestReported ==
  ASSUME NEW E, NEW R, Reporting(E, R), NEW q \in Seq(E), NEW r \in Seq(R),
         NEW n \in 0 .. Len(r), NEW a, Tells(a, R, E)
  PROVE  Reported(q) = SubSeq(r, 1, n) =>
           Reported(q \o [i \in 1 .. Len(r) - n |-> a[r[n + i]]]) = r
<1> DEFINE rest == SubSeq(r, n + 1, Len(r))
<1>1. /\ rest \in Seq(R) /\ Len(rest) = Len(r) - n
      /\ \A i \in 1 .. Len(r) - n : rest[i] = r[n + i]
      /\ SubSeq(r, 1, n) \o rest = r
  BY Halves
<1>2. rest \in Seq(R)
  BY <1>1
<1> HIDE DEF rest
<1>3. DOMAIN rest = 1 .. Len(r) - n
  BY <1>1, LenProperties
<1>4. Mapped(a, rest) = [i \in 1 .. Len(r) - n |-> a[r[n + i]]]
  BY <1>1, <1>3 DEF Mapped
<1>5. Reported(q \o Mapped(a, rest)) = Reported(q) \o rest
  BY <1>2, ActivitiesReported
<1>6. QED BY <1>1, <1>4, <1>5

(* An action that ran, with its state and its batch. *)
Mark == STRING \X {"exit", "entry"} \X STRING

(* The marks of a batch of actions, and of its first one. *)
LEMMA RanType ==
  ASSUME NEW s \in STRING, NEW b \in {"exit", "entry"}, NEW names \in Seq(STRING)
  PROVE  /\ Ran(s, b, names) \in Seq(Mark)
         /\ Ran(s, b, <<>>) = <<>>
         /\ names # <<>> =>
              Ran(s, b, names) = <<<<s, b, Head(names)>>>> \o Ran(s, b, Tail(names))
<1>0. \A q \in Seq(STRING) : Ran(s, b, q) \in Seq(Mark) /\ Len(Ran(s, b, q)) = Len(q)
                             /\ \A i \in 1 .. Len(q) : Ran(s, b, q)[i] = <<s, b, q[i]>>
  <2> SUFFICES ASSUME NEW q \in Seq(STRING)
               PROVE  Ran(s, b, q) \in Seq(Mark) /\ Len(Ran(s, b, q)) = Len(q)
                      /\ \A i \in 1 .. Len(q) : Ran(s, b, q)[i] = <<s, b, q[i]>>
    OBVIOUS
  <2>1. DOMAIN q = 1 .. Len(q) /\ Len(q) \in Nat /\ \A i \in 1 .. Len(q) : q[i] \in STRING
    BY LenProperties, ElementOfSeq
  <2>2. Ran(s, b, q) \in [1 .. Len(q) -> Mark]
    BY <2>1 DEF Ran, Mark
  <2>3. QED BY <2>1, <2>2, FunctionIsSeq DEF Ran
<1>1. Ran(s, b, <<>>) = <<>>
  BY DEF Ran
<1>2. ASSUME names # <<>>
      PROVE  Ran(s, b, names) = <<<<s, b, Head(names)>>>> \o Ran(s, b, Tail(names))
  <2> DEFINE all == Ran(s, b, names)
             rest == Ran(s, b, Tail(names))
             m == <<s, b, Head(names)>>
             n == Len(names)
  <2>1. /\ n \in Nat /\ n > 0 /\ Tail(names) \in Seq(STRING) /\ Len(Tail(names)) = n - 1
        /\ Head(names) = names[1] /\ names[1] \in STRING
        /\ \A i \in 1 .. n - 1 : Tail(names)[i] = names[i + 1]
    BY <1>2, HeadTailProperties, LenProperties, EmptySeq
  <2>2. m \in Mark
    BY <2>1 DEF Mark
  <2>a. /\ all \in Seq(Mark) /\ Len(all) = n
        /\ \A i \in 1 .. n : all[i] = <<s, b, names[i]>>
    BY <1>0
  <2>b. /\ rest \in Seq(Mark) /\ Len(rest) = n - 1
        /\ \A i \in 1 .. n - 1 : rest[i] = <<s, b, Tail(names)[i]>>
    BY <1>0, <2>1
  <2> HIDE DEF all, rest, n
  <2>c. all[1] = m
    <3>1. 1 \in 1 .. n
      BY <2>1
    <3>2. QED BY <2>1, <2>a, <3>1
  <2>d. ASSUME NEW i \in 1 .. n - 1 PROVE rest[i] = all[i + 1]
    <3>1. i + 1 \in 1 .. n
      BY <2>1
    <3>2. Tail(names)[i] = names[i + 1]
      BY <2>1
    <3>3. QED BY <2>a, <2>b, <3>1, <3>2
  <2> HIDE DEF m
  <2>3. /\ all \in Seq(Mark) /\ Len(all) = n /\ all[1] = m
        /\ rest \in Seq(Mark) /\ Len(rest) = n - 1
        /\ \A i \in 1 .. n - 1 : rest[i] = all[i + 1]
    BY <2>a, <2>b, <2>c, <2>d
  <2>4. <<m>> \in Seq(Mark) /\ Len(<<m>>) = 1 /\ <<m>>[1] = m
    BY <2>2
  <2>5. /\ <<m>> \o rest \in Seq(Mark) /\ Len(<<m>> \o rest) = n
        /\ \A i \in 1 .. n : (<<m>> \o rest)[i] = IF i <= 1 THEN <<m>>[i] ELSE rest[i - 1]
    BY <2>1, <2>3, <2>4, ConcatProperties
  <2>6. ASSUME NEW i \in 1 .. n PROVE (<<m>> \o rest)[i] = all[i]
    <3>1. CASE i = 1
      BY <2>3, <2>4, <2>5, <3>1
    <3>2. CASE i # 1
      <4>1. i - 1 \in 1 .. n - 1 /\ (i - 1) + 1 = i /\ ~(i <= 1)
        BY <2>1, <3>2
      <4>2. QED BY <2>3, <2>5, <4>1
    <3>3. QED BY <3>1, <3>2
  <2>7. all = <<m>> \o rest
    BY <2>3, <2>5, <2>6, SeqEqual
  <2>8. QED BY <2>7 DEF all, rest, m
<1>3. QED BY <1>0, <1>1, <1>2

(* What the results say of a lifecycle, result by result. *)
LEMMA ResultsLifecycleGrows ==
  ASSUME NEW E, \A e \in E : LifecycleOfResult(e) \in Seq(Mark), NEW q \in Seq(E), NEW e \in E
  PROVE  /\ LifecycleResults(q) \in Seq(Mark)
         /\ LifecycleResults(Append(q, e)) = LifecycleResults(q) \o LifecycleOfResult(e)
<1> DEFINE f == [x \in E |-> LifecycleOfResult(x)]
<1>1. Maps(f, E, Seq(Mark)) /\ \A x \in E : f[x] = LifecycleOfResult(x)
  BY DEF Maps
<1>2. /\ \A i \in DOMAIN q : q[i] \in E
      /\ \A i \in DOMAIN Append(q, e) : Append(q, e)[i] \in E
  BY Grown, ElementOfSeq, LenProperties
<1> HIDE DEF f
<1>3. LifecycleResults(q) = FlattenSeq(Mapped(f, q)) /\ LifecycleResults(Append(q, e)) = FlattenSeq(Mapped(f, Append(q, e)))
  BY <1>1, <1>2 DEF LifecycleResults, Mapped
<1>4. /\ FlattenSeq(Mapped(f, q)) \in Seq(Mark)
      /\ FlattenSeq(Mapped(f, Append(q, e))) = FlattenSeq(Mapped(f, q)) \o f[e]
  BY <1>1, FlattenMap
<1>5. QED BY <1>1, <1>3, <1>4

(* Every hop of a path joins two states of the graph. *)
Walk(c, path) == \A i \in 1 .. Len(path) - 1 : path[i] \in DOMAIN c /\ path[i + 1] \in DOMAIN c

(* The marks of a hop are marks. *)
LEMMA HopType ==
  ASSUME NEW c, IsConfig(c), NEW from \in DOMAIN c, NEW to \in DOMAIN c
  PROVE  LifecycleOf(c, from, to) \in Seq(Mark)
<1>1. Ran(from, "exit", c[from].exit) \in Seq(Mark) /\ Ran(to, "entry", c[to].entry) \in Seq(Mark)
  BY StateConfigType, RanType
<1>2. QED BY <1>1, ConcatProperties DEF LifecycleOf

(* The marks of a path, hop by hop. *)
LEMMA PathLifecycleGrows ==
  ASSUME NEW c, IsConfig(c), NEW path \in Seq(STRING), Len(path) > 0, Walk(c, path),
         NEW to \in DOMAIN c, path[Len(path)] \in DOMAIN c
  PROVE  /\ Walk(c, Append(path, to))
         /\ LifecycleOfPath(c, path) \in Seq(Mark)
         /\ LifecycleOfPath(c, Append(path, to))
              = LifecycleOfPath(c, path) \o LifecycleOf(c, path[Len(path)], to)
<1> DEFINE n == Len(path) - 1
           long == Append(path, to)
           f == [i \in 1 .. n + 1 |-> LifecycleOf(c, long[i], long[i + 1])]
<1>1. /\ n \in Nat /\ Len(path) = n + 1 /\ Len(long) = n + 2 /\ Len(long) - 1 = n + 1
      /\ \A i \in 1 .. n + 1 : long[i] = path[i]
      /\ long[n + 2] = to
  <2>1. to \in STRING
    BY StateConfigType
  <2>2. QED BY <2>1, Grown
<1>2. ASSUME NEW i \in 1 .. n + 1 PROVE long[i] \in DOMAIN c /\ long[i + 1] \in DOMAIN c
  <2> HIDE DEF f, long, n
  <2>1. CASE i = n + 1
    BY <1>1, <2>1
  <2>2. CASE i # n + 1
    <3>1. i \in 1 .. n /\ i + 1 \in 1 .. n + 1
      BY <1>1, <2>2
    <3>2. path[i] \in DOMAIN c /\ path[i + 1] \in DOMAIN c
      BY <1>1, <3>1 DEF Walk
    <3>3. QED BY <1>1, <3>1, <3>2
  <2>3. QED BY <2>1, <2>2
<1>3. Walk(c, long)
  BY <1>1, <1>2 DEF Walk
<1>4. f \in [1 .. n + 1 -> Seq(Mark)]
  BY <1>2, HopType
<1>5. [i \in 1 .. n |-> f[i]] = [i \in 1 .. n |-> LifecycleOf(c, path[i], path[i + 1])]
  <2>1. ASSUME NEW i \in 1 .. n PROVE f[i] = LifecycleOf(c, path[i], path[i + 1])
    <3>1. i \in 1 .. n + 1 /\ i + 1 \in 1 .. n + 1
      BY <1>1
    <3>2. QED BY <1>1, <3>1
  <2> HIDE DEF f
  <2>2. QED BY <2>1
<1>6. f[n + 1] = LifecycleOf(c, path[n + 1], to)
  <2>1. n + 1 \in 1 .. n + 1 /\ (n + 1) + 1 = n + 2
    BY <1>1
  <2>2. QED BY <1>1, <2>1
<1>7. /\ LifecycleOfPath(c, path) = FlattenSeq([i \in 1 .. n |-> f[i]])
      /\ LifecycleOfPath(c, long) = FlattenSeq(f)
  BY <1>1, <1>5 DEF LifecycleOfPath
<1> HIDE DEF f, long, n
<1>8. [i \in 1 .. n |-> f[i]] \in Seq(Seq(Mark)) /\ f = Append([i \in 1 .. n |-> f[i]], f[n + 1])
  BY <1>1, <1>4, FunctionGrows
<1>9. f[n + 1] \in Seq(Mark)
  BY <1>1, <1>4
<1>10. /\ FlattenSeq([i \in 1 .. n |-> f[i]]) \in Seq(Mark)
       /\ FlattenSeq(f) = FlattenSeq([i \in 1 .. n |-> f[i]]) \o f[n + 1]
  BY <1>8, <1>9, FlattenType, FlattenAppend
<1>11. QED BY <1>1, <1>3, <1>6, <1>7, <1>10 DEF long

(* A path of one state has none. *)
LEMMA NoHopNoLifecycle ==
  ASSUME NEW c, NEW s
  PROVE  LifecycleOfPath(c, <<s>>) = <<>> /\ Walk(c, <<s>>)
<1>1. Len(<<s>>) - 1 = 0 /\ 1 .. 0 = {}
  OBVIOUS
<1>2. [i \in 1 .. Len(<<s>>) - 1 |-> LifecycleOf(c, <<s>>[i], <<s>>[i + 1])] = <<>>
  BY <1>1
<1>3. QED BY <1>1, <1>2, FlattenEmpty DEF LifecycleOfPath, Walk
=============================================================================
