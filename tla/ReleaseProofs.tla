--------------------------- MODULE ReleaseProofs ---------------------------
(***************************************************************************)
(* Proofs about what the proxy releases, for any attribute map, frontends, *)
(* backends, requests, provider responses and response chains within the   *)
(* assumptions of Release.                                                 *)
(***************************************************************************)
EXTENDS Release, WellFoundedInduction, FiniteSetTheorems, TLAPS

----------------------------------------------------------------------------
(* Recursive functions over positions, by the least position that fails    *)

(* Every non-empty set of positions has a least one.                       *)
LEMMA LeastExists ==
  ASSUME NEW S, S \subseteq Nat, S # {}
  PROVE  \E x \in S : \A y \in S : x <= y
<1>1. PICK x \in S : \A y \in S : ~ (<<y, x>> \in OpToRel(<, Nat))
  BY NatLessThanWellFounded, WFMin, Zenon
<1>2. \A y \in S : ~ (y < x)
  BY <1>1 DEF OpToRel
<1> QED
  BY <1>2

LEMMA MinIn ==
  ASSUME NEW S, S \subseteq Nat, S # {}
  PROVE  Min(S) \in S
BY LeastExists DEF Min

(* Induction over the positions from .. to that a set contains.            *)
LEMMA Positions ==
  ASSUME NEW S, NEW from \in Nat, NEW to \in Nat, from \in S,
         \A i \in Nat : from < i /\ i <= to /\ i - 1 \in S => i \in S
  PROVE  from .. to \subseteq S
<1> DEFINE Bad == {i \in from .. to : i \notin S}
<1> SUFFICES ASSUME Bad # {} PROVE FALSE
  OBVIOUS
<1>1. PICK k \in Bad : \A j \in Bad : k <= j
  <2>1. Bad \subseteq Nat
    OBVIOUS
  <2> QED
    BY <2>1, LeastExists, Zenon
<1>2. from < k /\ k <= to /\ k \in Nat /\ k - 1 \in from .. to
  OBVIOUS
<1>3. k - 1 \notin Bad
  BY <1>1, <1>2
<1> QED
  BY <1>1, <1>2, <1>3

(* The flattening of a sequence of sequences is well defined.              *)
Flat(f, s, m) == f = [i \in 1 .. m |-> IF i = 1 THEN s[i] ELSE f[i - 1] \o s[i]]

LEMMA FlatNext ==
  ASSUME NEW s, NEW k \in Nat, k # 0, NEW g, Flat(g, s, k - 1)
  PROVE  \E f : Flat(f, s, k)
<1> DEFINE f == [i \in 1 .. k |-> IF i = 1 THEN s[i] ELSE g[i - 1] \o s[i]]
<1>1. ASSUME NEW i \in 1 .. k - 1
      PROVE  f[i] = g[i]
  <2>1. i \in 1 .. k
    OBVIOUS
  <2>2. g[i] = IF i = 1 THEN s[i] ELSE g[i - 1] \o s[i]
    BY Zenon DEF Flat
  <2> QED
    BY <2>1, <2>2, Zenon
<1>2. f = [i \in 1 .. k |-> IF i = 1 THEN s[i] ELSE f[i - 1] \o s[i]]
  <2>1. ASSUME NEW i \in 1 .. k, i # 1
        PROVE  f[i - 1] = g[i - 1]
    <3>1. i - 1 \in 1 .. k - 1
      BY <2>1
    <3> QED
      BY <1>1, <3>1, Zenon
  <2> QED
    BY <2>1, Zenon
<1> QED
  BY <1>2 DEF Flat

LEMMA FlatExists ==
  ASSUME NEW s, NEW m \in Nat
  PROVE  \E f : Flat(f, s, m)
<1> DEFINE S == {k \in Nat : \E f : Flat(f, s, k)}
<1>1. 0 \in S
  <2>1. Flat([i \in 1 .. 0 |-> <<>>], s, 0)
    BY DEF Flat
  <2> QED
    BY <2>1
<1>2. \A k \in Nat : 0 < k /\ k <= m /\ k - 1 \in S => k \in S
  BY FlatNext
<1>3. 0 .. m \subseteq S
  <2> HIDE DEF S
  <2> QED
    BY <1>1, <1>2, Positions
<1> QED
  BY <1>3

(* It is a sequence of elements of the flattened sequences.                *)
LEMMA FlattenFact ==
  ASSUME NEW T, NEW s, s \in Seq(Seq(T))
  PROVE  FlattenSeq(s) \in Seq(T)
<1>1. CASE s = <<>>
  BY <1>1 DEF FlattenSeq
<1>2. CASE s # <<>>
  <2> DEFINE f == CHOOSE g : Flat(g, s, Len(s))
             S == {i \in Nat : f[i] \in Seq(T)}
  <2>0. Len(s) \in Nat \ {0} /\ \A i \in 1 .. Len(s) : s[i] \in Seq(T)
    BY <1>2
  <2>1. Flat(f, s, Len(s))
    BY <2>0, FlatExists
  <2>2. FlattenSeq(s) = f[Len(s)]
    BY <1>2 DEF FlattenSeq, Flat
  <2> HIDE DEF f
  <2>3. 1 \in S
    BY <2>1, <1>2 DEF Flat
  <2>4. ASSUME NEW i \in Nat, 1 < i, i <= Len(s), i - 1 \in S
        PROVE  i \in S
    <3>1. i \in 1 .. Len(s) /\ i # 1
      BY <2>0, <2>4
    <3>2. f[i] = f[i - 1] \o s[i]
      BY <2>1, <3>1 DEF Flat
    <3>3. s[i] \in Seq(T) /\ f[i - 1] \in Seq(T)
      BY <2>0, <2>4, <3>1
    <3>4. f[i] \in Seq(T)
      BY <3>2, <3>3
    <3> QED
      BY <3>4
  <2>5. Len(s) \in S
    <3>1. 1 .. Len(s) \subseteq S
      <4> HIDE DEF S
      <4> QED
        BY <2>0, <2>3, <2>4, Positions
    <3> QED
      BY <3>1, <2>0
  <2> QED
    BY <2>2, <2>5
<1> QED
  BY <1>1, <1>2

(* A sequence of one type is one of its own elements.                      *)
LEMMA SequenceOf ==
  ASSUME NEW T, NEW s \in Seq(T)
  PROVE  IsSequence(s) /\ Range(s) \subseteq T
BY DEF IsSequence, Range

(* And one of its own elements is of every type that has them.             *)
LEMMA SequenceBack ==
  ASSUME NEW T, NEW s, IsSequence(s), Range(s) \subseteq T
  PROVE  s \in Seq(T)
BY DEF IsSequence, Range

LEMMA FirstIn ==
  ASSUME NEW s, IsSequence(s), s # <<>>
  PROVE  s[1] \in Range(s)
BY DEF IsSequence, Range

LEMMA HeadOf ==
  ASSUME NEW x, NEW y
  PROVE  Head(<<x>>) = x /\ Head(Append(<<x>>, y)) = x
<1> DEFINE s == <<x>>
<1>1. s \in Seq({x, y}) /\ Len(s) = 1 /\ s[1] = x
  OBVIOUS
<1>2. Head(s) = x
  OBVIOUS
<1> HIDE DEF s
<1>3. Append(s, y) \in Seq({x, y}) /\ Append(s, y)[1] = x
  BY <1>1
<1>4. Append(s, y) # <<>>
  BY <1>1
<1>5. Head(Append(s, y)) = x
  BY <1>3, <1>4
<1> QED
  BY <1>2, <1>5 DEF s

(* A digest is one text, which is its head.                                *)
LEMMA DigestOne ==
  ASSUME NEW alg, NEW v, NEW salt
  PROVE  LET digest == Digest(alg, v, salt)
         IN digest = <<Head(digest)>> /\ \A y : Head(Append(digest, y)) = Head(digest)
<1> DEFINE text == alg \o "(" \o Text(v) \o salt \o ")"
<1>1. Digest(alg, v, salt) = <<text>>
  BY Zenon DEF Digest
<1> HIDE DEF text
<1> QED
  BY <1>1, HeadOf

----------------------------------------------------------------------------
(* What a service leaves alone                                             *)

DataFields == {"attributes", "subject_id", "subject_type", "issuer", "requester", "shaped_by"}

(* Nobody but the issuer's and the requester's own configuration is asked  *)
(* for after a service, and an attribute is there with the values it had.  *)
SameEnds(d, out) ==
  DOMAIN out = DataFields /\ out.issuer = d.issuer /\ out.requester = d.requester
SameSubject(d, out) == out.subject_id = d.subject_id /\ out.subject_type = d.subject_type
Untouched(d, out, n) ==
  n \in DOMAIN out.attributes =>
    n \in DOMAIN d.attributes /\ out.attributes[n] = d.attributes[n]

(* No entry names nothing, and a recipe is an entry or none.               *)
LEMMA NothingConfigured == DOMAIN <<>> = {}
OBVIOUS

LEMMA RecipeFrom ==
  ASSUME NEW map, NEW outer, NEW inner
  PROVE  \/ Recipe(map, outer, inner) = <<>>
         \/ \E o \in DOMAIN map : \E i \in DOMAIN map[o] :
              Recipe(map, outer, inner) = map[o][i]
<1>1. \A m, key : Level(m, key) = NoValue \/ \E k \in DOMAIN m : Level(m, key) = m[k]
  BY DEF Level
<1> DEFINE by == Level(map, outer)
<1>2. CASE by = NoValue
  BY <1>2 DEF Recipe
<1>3. CASE by # NoValue
  <2>1. PICK o \in DOMAIN map : by = map[o]
    BY <1>1, <1>3
  <2>2. \/ Level(by, inner) = NoValue
        \/ \E i \in DOMAIN by : Level(by, inner) = by[i]
    BY <1>1
  <2> QED
    BY <1>3, <2>1, <2>2 DEF Recipe
<1> QED
  BY <1>2, <1>3

(* Each service that does not write an attribute leaves it untouched.      *)
LEMMA StaticUntouched ==
  ASSUME NEW s, NEW d, NEW n, DOMAIN d = DataFields,
         s.kind = "static_attributes", ~Writes(s, n)
  PROVE  Untouched(d, StaticAttributes(s, d), n)
BY DEF StaticAttributes, Untouched, Writes, Override, DataFields

LEMMA VirtualUntouched ==
  ASSUME NEW s, NEW d, NEW n, NEW frontend, DOMAIN d = DataFields,
         s.kind = "static_attributes_for_virtual_idp", ~Writes(s, n)
  PROVE  Untouched(d, StaticForVirtualIdp(s, d, frontend), n)
<1> DEFINE append == Recipe(s.append, d.requester, frontend)
           replace == Recipe(s.replace, d.requester, frontend)
           replaced == Override(replace, d.attributes)
           out == StaticForVirtualIdp(s, d, frontend)
<1>1. \A map \in {s.replace, s.append} : \A o \in DOMAIN map : \A i \in DOMAIN map[o] :
        n \notin DOMAIN map[o][i]
  BY DEF Writes
<1>2. n \notin DOMAIN append
  BY <1>1, RecipeFrom
<1>3. n \notin DOMAIN replace
  BY <1>1, RecipeFrom
<1>4. out = [d EXCEPT !.attributes =
               Override([m \in DOMAIN append |-> Merged(append[m], replaced, m)], replaced)]
  BY DEF StaticForVirtualIdp
<1> HIDE DEF append, replace, out
<1>5. Untouched(d, out, n)
  BY <1>2, <1>3, <1>4 DEF Untouched, Override, DataFields
<1> QED
  BY <1>5 DEF out

LEMMA FilterUntouched ==
  ASSUME NEW s, NEW d, NEW n, DOMAIN d = DataFields
  PROVE  Untouched(d, FilterAttributes(s, d), n)
BY DEF FilterAttributes, Untouched, Restrict, DataFields

LEMMA GenerationUntouched ==
  ASSUME NEW s, NEW d, NEW n, DOMAIN d = DataFields,
         s.kind = "attribute_generation", ~Writes(s, n), AttributeGeneration(s, d) # Failed
  PROVE  Untouched(d, AttributeGeneration(s, d), n)
<1> DEFINE recipe == Recipe(s.synthetic_attributes, d.requester, d.issuer)
           out == AttributeGeneration(s, d)
<1>1. n \notin DOMAIN recipe
  BY RecipeFrom DEF Writes
<1>2. out = [d EXCEPT !.attributes =
               Override([m \in DOMAIN recipe |-> Printed(d.attributes, recipe[m])], @)]
  BY DEF AttributeGeneration
<1> HIDE DEF recipe, out
<1> QED
  BY <1>1, <1>2 DEF Untouched, Override, DataFields, out

LEMMA AuthorizationUntouched ==
  ASSUME NEW s, NEW d, NEW n, DOMAIN d = DataFields, AttributeAuthorization(s, d) # Failed
  PROVE  Untouched(d, AttributeAuthorization(s, d), n)
BY DEF AttributeAuthorization, Untouched

LEMMA HasherUntouched ==
  ASSUME NEW s, NEW d, NEW n, DOMAIN d = DataFields,
         s.kind = "hasher", HasherBuilt(s), ~Writes(s, n)
  PROVE  Untouched(d, Hasher(s, d), n)
<1> DEFINE entry == HasherEntry(s, d.requester)
           own == IF d.requester \in DOMAIN s.entries THEN s.entries[d.requester] ELSE <<>>
           all == s.entries[""]
<1>1. n \notin entry.attributes
  <2>1. entry.attributes = IF "attributes" \in DOMAIN own THEN own.attributes
                           ELSE IF "attributes" \in DOMAIN all THEN all.attributes ELSE {}
    <3> HIDE DEF own
    <3> QED
      BY DEF HasherEntry, Override, own
  <2>2. "" \in DOMAIN s.entries
    BY Zenon DEF HasherBuilt
  <2>3. \A r \in DOMAIN s.entries :
          "attributes" \in DOMAIN s.entries[r] => n \notin s.entries[r].attributes
    BY DEF Writes
  <2>4. "attributes" \in DOMAIN own => n \notin own.attributes
    BY <2>3, NothingConfigured
  <2> HIDE DEF own, entry
  <2> QED
    BY <2>1, <2>2, <2>3, <2>4
<1> HIDE DEF entry
<1> QED
  BY <1>1 DEF Hasher, Untouched, DataFields, entry

LEMMA PairwiseUntouched ==
  ASSUME NEW s, NEW d, NEW n, DOMAIN d = DataFields,
         s.kind = "pairwiseid", ~Writes(s, n), PairwiseId(s, d) # Failed
  PROVE  Untouched(d, PairwiseId(s, d), n)
BY DEF PairwiseId, Untouched, Writes, Set, DataFields

LEMMA NameIdUntouched ==
  ASSUME NEW d, NEW n, NEW ctx, DOMAIN d = DataFields, NameId(d, ctx) # Failed
  PROVE  Untouched(d, NameId(d, ctx), n)
BY DEF NameId, Untouched, DataFields

LEMMA PrimaryUntouched ==
  ASSUME NEW s, NEW d, NEW n, DOMAIN d = DataFields,
         s.kind = "primary_identifier", Configured(s), ~Writes(s, n),
         PrimaryIdentifier(s, d) # Redirected
  PROVE  Untouched(d, PrimaryIdentifier(s, d), n)
<1> DEFINE eff == Effective(s, d)
           identifier == Constructed(eff.ordered_identifier_candidates, d)
           attrs == IF eff.clear_input_attributes THEN <<>> ELSE d.attributes
           out == PrimaryIdentifier(s, d)
           own == IF d.requester # "" /\ d.requester \in DOMAIN s.overrides
                  THEN s.overrides[d.requester] ELSE <<>>
           its == IF d.issuer # "" /\ d.issuer \in DOMAIN s.overrides
                  THEN s.overrides[d.issuer] ELSE <<>>
<1>1. n # eff.primary_identifier
  <2>1. PICK ignored : eff = Override([ignore |-> ignored], Override(own, Override(its, s)))
    BY Zenon DEF Effective
  <2>5. \A key \in DOMAIN s.overrides :
          "primary_identifier" \in DOMAIN s.overrides[key] =>
            n # s.overrides[key].primary_identifier
    BY DEF Writes
  <2> HIDE DEF eff, own, its
  <2>2. "primary_identifier" \in DOMAIN s /\ n # s.primary_identifier
    BY DEF Configured, Writes
  <2>3. "primary_identifier" \in DOMAIN own => n # own.primary_identifier
    BY <2>5, NothingConfigured DEF own
  <2>4. "primary_identifier" \in DOMAIN its => n # its.primary_identifier
    BY <2>5, NothingConfigured DEF its
  <2> QED
    BY <2>1, <2>2, <2>3, <2>4 DEF Override
<1>2. \/ out = d
      \/ out = [d EXCEPT !.attributes = Set(attrs, eff.primary_identifier, <<identifier>>),
                         !.subject_id = IF eff.replace_subject_id THEN identifier ELSE @]
  BY Zenon DEF PrimaryIdentifier
<1> HIDE DEF eff, identifier, attrs, out
<1>3. Untouched(d, out, n)
  <2>1. n \in DOMAIN attrs => n \in DOMAIN d.attributes /\ attrs[n] = d.attributes[n]
    BY NothingConfigured DEF attrs
  <2>2. CASE out = d
    BY <2>2 DEF Untouched
  <2>3. CASE out # d
    <3>1. out.attributes = Set(attrs, eff.primary_identifier, <<identifier>>)
      BY <1>2, <2>3 DEF DataFields
    <3> QED
      BY <1>1, <2>1, <3>1 DEF Untouched, Set
  <2> QED
    BY <2>2, <2>3
<1> QED
  BY <1>3 DEF out

LEMMA EptidUntouched ==
  ASSUME NEW s, NEW d, NEW n, DOMAIN d = DataFields,
         s.kind = "legacy_eptid", ~Writes(s, n), LegacyEptid(s, d) # Failed
  PROVE  Untouched(d, LegacyEptid(s, d), n)
BY DEF LegacyEptid, Untouched, Set, Writes, DataFields

(* The filter keeps values, in their order, that are not withheld.         *)
LEMMA KeptFact ==
  ASSUME NEW filters, NEW d, NEW n, NEW values, IsSequence(values)
  PROVE  /\ IsSequence(KeptValues(filters, d, n, values))
         /\ \A v \in Range(KeptValues(filters, d, n, values)) :
              v \in Range(values) /\ Kept(filters, d, n, v)
<1> DEFINE T == {v \in Range(values) : Kept(filters, d, n, v)}
           each == [i \in DOMAIN values |->
                      IF Kept(filters, d, n, values[i]) THEN <<values[i]>> ELSE <<>>]
<1>1. ASSUME NEW i \in DOMAIN values
      PROVE  each[i] \in Seq(T)
  <2>1. Kept(filters, d, n, values[i]) => values[i] \in T
    BY DEF Range
  <2> HIDE DEF T
  <2> QED
    BY <2>1
<1>2. each \in Seq(Seq(T))
  <2> HIDE DEF T
  <2>1. Len(values) \in Nat /\ DOMAIN values = 1 .. Len(values)
    BY DEF IsSequence
  <2> QED
    BY <1>1, <2>1
<1>3. KeptValues(filters, d, n, values) \in Seq(T)
  <2> HIDE DEF T
  <2> QED
    BY <1>2, FlattenFact DEF KeptValues
<1> QED
  BY <1>3, SequenceOf

(* The renames of the first positions, one after the other.                *)
Renaming(f, s, d, m) ==
  f = [i \in 0 .. m |-> IF i = 0 THEN d.attributes ELSE RenameOne(f[i - 1], s.rename[i])]

LEMMA RenamingNext ==
  ASSUME NEW s, NEW d, NEW k \in Nat, k # 0, NEW g, Renaming(g, s, d, k - 1)
  PROVE  \E f : Renaming(f, s, d, k)
<1> DEFINE f == [i \in 0 .. k |->
                   IF i = 0 THEN d.attributes ELSE RenameOne(g[i - 1], s.rename[i])]
<1>1. ASSUME NEW i \in 0 .. k - 1
      PROVE  f[i] = g[i]
  <2>1. i \in 0 .. k
    OBVIOUS
  <2>2. g[i] = IF i = 0 THEN d.attributes ELSE RenameOne(g[i - 1], s.rename[i])
    BY Zenon DEF Renaming
  <2> QED
    BY <2>1, <2>2, Zenon
<1>2. f = [i \in 0 .. k |->
             IF i = 0 THEN d.attributes ELSE RenameOne(f[i - 1], s.rename[i])]
  <2>1. ASSUME NEW i \in 0 .. k, i # 0
        PROVE  f[i - 1] = g[i - 1]
    <3>1. i - 1 \in 0 .. k - 1
      BY <2>1
    <3> QED
      BY <1>1, <3>1, Zenon
  <2> QED
    BY <2>1, Zenon
<1> QED
  BY <1>2 DEF Renaming

LEMMA RenamingExists ==
  ASSUME NEW s, NEW d, NEW m \in Nat
  PROVE  \E f : Renaming(f, s, d, m)
<1> DEFINE S == {k \in Nat : \E f : Renaming(f, s, d, k)}
<1>1. 0 \in S
  <2>1. Renaming([i \in 0 .. 0 |-> d.attributes], s, d, 0)
    BY DEF Renaming
  <2> QED
    BY <2>1
<1>2. \A k \in Nat : 0 < k /\ k <= m /\ k - 1 \in S => k \in S
  BY RenamingNext
<1>3. 0 .. m \subseteq S
  <2> HIDE DEF S
  <2> QED
    BY <1>1, <1>2, Positions
<1> QED
  BY <1>3

(* One rename changes only the attribute it writes: the one it removes is   *)
(* no longer there to be compared.                                          *)
LEMMA RenameOneUntouched ==
  ASSUME NEW attrs, NEW r, NEW n, r.new # n, n \in DOMAIN RenameOne(attrs, r)
  PROVE  n \in DOMAIN attrs /\ RenameOne(attrs, r)[n] = attrs[n]
<1>1. CASE RenameOne(attrs, r) = attrs
  BY <1>1
<1>2. CASE RenameOne(attrs, r) # attrs
  BY <1>2 DEF RenameOne, Set, Restrict
<1> QED
  BY <1>1, <1>2

LEMMA RenameUntouched ==
  ASSUME NEW s, NEW d, NEW n, DOMAIN d = DataFields,
         s.kind = "rename_attributes", Configured(s), ~Writes(s, n)
  PROVE  Untouched(d, RenameAttributes(s, d), n)
<1> DEFINE m == Len(s.rename)
           f == CHOOSE g : Renaming(g, s, d, m)
           Same(a) == n \in DOMAIN a => n \in DOMAIN d.attributes /\ a[n] = d.attributes[n]
           S == {i \in Nat : Same(f[i])}
<1>1. m \in Nat /\ \A i \in 1 .. m : s.rename[i].new # n
  BY DEF Configured, IsSequence, Writes
<1>2. Renaming(f, s, d, m)
  BY <1>1, RenamingExists
<1>3. RenameAttributes(s, d) = [d EXCEPT !.attributes = f[m]]
  BY Zenon DEF RenameAttributes, Renaming
<1> HIDE DEF f, m
<1>4. 0 \in S
  BY <1>1, <1>2 DEF Renaming
<1>5. ASSUME NEW i \in Nat, 0 < i, i <= m, i - 1 \in S
      PROVE  i \in S
  <2>1. i \in 0 .. m /\ i \in 1 .. m /\ i # 0
    BY <1>1, <1>5
  <2>2. f[i] = RenameOne(f[i - 1], s.rename[i])
    BY <1>2, <2>1, Zenon DEF Renaming
  <2>3. Same(f[i - 1]) /\ s.rename[i].new # n
    BY <1>1, <1>5, <2>1
  <2>4. Same(f[i])
    BY <2>2, <2>3, RenameOneUntouched
  <2> QED
    BY <2>4
<1>6. m \in S
  <2>1. 0 .. m \subseteq S
    <3> HIDE DEF S
    <3> QED
      BY <1>1, <1>4, <1>5, Positions
  <2> QED
    BY <1>1, <2>1
<1> QED
  BY <1>3, <1>6 DEF Untouched, DataFields

(* A processor changes its own attribute, or the one it extracts to.       *)
LEMMA ProcessUntouched ==
  ASSUME NEW attrs, NEW m, NEW p, NEW n, ProcessorBuilt(p), n # m,
         p.name = "scope_extractor" => p.mapped_attribute # n,
         n \in DOMAIN Process(attrs, m, p)
  PROVE  n \in DOMAIN attrs /\ Process(attrs, m, p)[n] = attrs[n]
BY DEF ProcessorBuilt, Process, Each, Set

(* The steps of a service are its rules' processors.                       *)
StepSet(process) ==
  UNION {{[attribute |-> process[i].attribute, processor |-> process[i].processors[j]] :
            j \in DOMAIN process[i].processors} : i \in DOMAIN process}

LEMMA StepsFact ==
  ASSUME NEW process, IsSequence(process),
         \A i \in DOMAIN process : IsSequence(process[i].processors)
  PROVE  Steps(process) \in Seq(StepSet(process))
<1> DEFINE each == [i \in DOMAIN process |-> [j \in DOMAIN process[i].processors |->
             [attribute |-> process[i].attribute, processor |-> process[i].processors[j]]]]
<1>1. ASSUME NEW i \in DOMAIN process
      PROVE  each[i] \in Seq(StepSet(process))
  <2>1. Len(process[i].processors) \in Nat
        /\ DOMAIN process[i].processors = 1 .. Len(process[i].processors)
    BY DEF IsSequence
  <2>2. \A j \in DOMAIN process[i].processors : each[i][j] \in StepSet(process)
    BY DEF StepSet
  <2>3. DOMAIN each[i] = DOMAIN process[i].processors
    OBVIOUS
  <2>4. each[i] = [j \in DOMAIN each[i] |-> each[i][j]]
    OBVIOUS
  <2> HIDE DEF each
  <2> QED
    BY <2>1, <2>2, <2>3, <2>4
<1>2. each \in Seq(Seq(StepSet(process)))
  <2>1. Len(process) \in Nat /\ DOMAIN process = 1 .. Len(process)
    BY DEF IsSequence
  <2> QED
    BY <1>1, <2>1
<1> QED
  BY <1>2, FlattenFact DEF Steps

(* The first steps, one after the other.                                   *)
Stepping(f, s, d, m) ==
  f = [i \in 0 .. m |->
         IF i = 0 THEN d.attributes
         ELSE Process(f[i - 1], Steps(s.process)[i].attribute, Steps(s.process)[i].processor)]

LEMMA SteppingNext ==
  ASSUME NEW s, NEW d, NEW k \in Nat, k # 0, NEW g, Stepping(g, s, d, k - 1)
  PROVE  \E f : Stepping(f, s, d, k)
<1> DEFINE steps == Steps(s.process)
           f == [i \in 0 .. k |->
                   IF i = 0 THEN d.attributes
                   ELSE Process(g[i - 1], steps[i].attribute, steps[i].processor)]
<1>1. ASSUME NEW i \in 0 .. k - 1
      PROVE  f[i] = g[i]
  <2>1. i \in 0 .. k
    OBVIOUS
  <2>2. g[i] = IF i = 0 THEN d.attributes
               ELSE Process(g[i - 1], steps[i].attribute, steps[i].processor)
    BY Zenon DEF Stepping
  <2> QED
    BY <2>1, <2>2, Zenon
<1>2. f = [i \in 0 .. k |->
             IF i = 0 THEN d.attributes
             ELSE Process(f[i - 1], steps[i].attribute, steps[i].processor)]
  <2>1. ASSUME NEW i \in 0 .. k, i # 0
        PROVE  f[i - 1] = g[i - 1]
    <3>1. i - 1 \in 0 .. k - 1
      BY <2>1
    <3> QED
      BY <1>1, <3>1, Zenon
  <2> QED
    BY <2>1, Zenon
<1> QED
  BY <1>2 DEF Stepping

LEMMA SteppingExists ==
  ASSUME NEW s, NEW d, NEW m \in Nat
  PROVE  \E f : Stepping(f, s, d, m)
<1> DEFINE S == {k \in Nat : \E f : Stepping(f, s, d, k)}
<1>1. 0 \in S
  <2>1. Stepping([i \in 0 .. 0 |-> d.attributes], s, d, 0)
    BY DEF Stepping
  <2> QED
    BY <2>1
<1>2. \A k \in Nat : 0 < k /\ k <= m /\ k - 1 \in S => k \in S
  BY SteppingNext
<1>3. 0 .. m \subseteq S
  <2> HIDE DEF S
  <2> QED
    BY <1>1, <1>2, Positions
<1> QED
  BY <1>3

LEMMA ProcessorUntouched ==
  ASSUME NEW s, NEW d, NEW n, DOMAIN d = DataFields,
         s.kind = "attribute_processor", Configured(s), Built(s), ~Writes(s, n)
  PROVE  Untouched(d, AttributeProcessor(s, d), n)
<1> DEFINE steps == Steps(s.process)
           m == Len(steps)
           f == CHOOSE g : Stepping(g, s, d, m)
           Same(a) == n \in DOMAIN a => n \in DOMAIN d.attributes /\ a[n] = d.attributes[n]
           S == {i \in Nat : Same(f[i])}
<1>1. m \in Nat /\ \A i \in 1 .. m : steps[i] \in StepSet(s.process)
  BY StepsFact DEF Configured
<1>2. Stepping(f, s, d, m)
  BY <1>1, SteppingExists
<1>3. AttributeProcessor(s, d) = [d EXCEPT !.attributes = f[m]]
  BY Zenon DEF AttributeProcessor, Stepping
<1> HIDE DEF f, m
<1>4. 0 \in S
  BY <1>1, <1>2 DEF Stepping
<1>5. ASSUME NEW i \in Nat, 0 < i, i <= m, i - 1 \in S
      PROVE  i \in S
  <2>1. i \in 0 .. m /\ i \in 1 .. m /\ i # 0
    BY <1>1, <1>5
  <2>2. f[i] = Process(f[i - 1], steps[i].attribute, steps[i].processor)
    BY <1>2, <2>1, Zenon DEF Stepping
  <2>3. Same(f[i - 1])
    BY <1>5
  <2>4. PICK r \in DOMAIN s.process : \E j \in DOMAIN s.process[r].processors :
          /\ steps[i].attribute = s.process[r].attribute
          /\ steps[i].processor = s.process[r].processors[j]
    <3> HIDE DEF steps
    <3>1. steps[i] \in StepSet(s.process)
      BY <1>1, <2>1
    <3> QED
      BY <3>1 DEF StepSet
  <2>5. ProcessorBuilt(steps[i].processor)
    BY <2>4 DEF Built
  <2>6. /\ n # steps[i].attribute
        /\ steps[i].processor.name = "scope_extractor" =>
             steps[i].processor.mapped_attribute # n
    BY <2>4 DEF Writes
  <2>7. n \in DOMAIN f[i] => n \in DOMAIN f[i - 1] /\ f[i][n] = f[i - 1][n]
    BY <2>2, <2>5, <2>6, ProcessUntouched
  <2> QED
    BY <2>3, <2>7
<1>6. m \in S
  <2>1. 0 .. m \subseteq S
    <3> HIDE DEF S
    <3> QED
      BY <1>1, <1>4, <1>5, Positions
  <2> QED
    BY <1>1, <2>1
<1> QED
  BY <1>3, <1>6 DEF Untouched, DataFields

----------------------------------------------------------------------------
(* One service of a chain                                                  *)

(* A service that does not write an attribute leaves it as it is, or drops *)
(* it or some of its values; a filter of values drops those it withholds.  *)
Remains(s, d, out, n) ==
  IF s.kind = "filter_attribute_values"
  THEN n \in DOMAIN out.attributes =>
         /\ n \in DOMAIN d.attributes
         /\ out.attributes[n] = KeptValues(s.filters, d, n, d.attributes[n])
  ELSE Untouched(d, out, n)

ServiceKinds == AlwaysBuilt \cup
  {"attribute_processor", "hasher", "pairwiseid", "primary_identifier", "legacy_eptid"}

LEMMA BuiltKind ==
  ASSUME NEW s, Built(s)
  PROVE  s.kind \in ServiceKinds
BY DEF Built, ServiceKinds

(* Any service keeps issuer and requester; only nameid marks a shape, and  *)
(* few replace the subject.                                                *)
LEMMA ServiceEnds ==
  ASSUME NEW s, NEW d, NEW ctx, DOMAIN d = DataFields, Built(s), ~Ended(Processed(s, d, ctx))
  PROVE  /\ SameEnds(d, Processed(s, d, ctx))
         /\ s.kind # "nameid" => Processed(s, d, ctx).shaped_by = d.shaped_by
         /\ s.kind \notin SubjectServices => SameSubject(d, Processed(s, d, ctx))
<1> DEFINE out == Processed(s, d, ctx)
<1>0. out \notin {Failed, Redirected}
  BY DEF Ended
<1>1. CASE s.kind = "static_attributes"
  BY <1>1 DEF Processed, StaticAttributes, SameEnds, SameSubject, SubjectServices, DataFields
<1>2. CASE s.kind = "static_attributes_for_virtual_idp"
  BY <1>2 DEF Processed, StaticForVirtualIdp, SameEnds, SameSubject, SubjectServices, DataFields
<1>3. CASE s.kind = "filter_attributes"
  BY <1>3 DEF Processed, FilterAttributes, SameEnds, SameSubject, SubjectServices, DataFields
<1>4. CASE s.kind = "filter_attribute_values"
  BY <1>4 DEF Processed, FilterAttributeValues, SameEnds, SameSubject, SubjectServices, DataFields
<1>5. CASE s.kind = "rename_attributes"
  BY <1>5 DEF Processed, RenameAttributes, SameEnds, SameSubject, SubjectServices, DataFields
<1>6. CASE s.kind = "attribute_processor"
  BY <1>6 DEF Processed, AttributeProcessor, SameEnds, SameSubject, SubjectServices, DataFields
<1>7. CASE s.kind = "hasher"
  BY <1>7 DEF Processed, Hasher, SameEnds, SameSubject, SubjectServices, DataFields
<1>8. CASE s.kind = "attribute_generation"
  BY <1>0, <1>8 DEF Processed, AttributeGeneration, SameEnds, SameSubject, SubjectServices, DataFields
<1>9. CASE s.kind = "attribute_authorization"
  BY <1>0, <1>9 DEF Processed, AttributeAuthorization, SameEnds, SameSubject, SubjectServices, DataFields
<1>10. CASE s.kind = "pairwiseid"
  BY <1>0, <1>10 DEF Processed, PairwiseId, SameEnds, SameSubject, SubjectServices, DataFields
<1>11. CASE s.kind = "nameid"
  BY <1>0, <1>11 DEF Processed, NameId, SameEnds, SameSubject, SubjectServices, DataFields
<1>12. CASE s.kind = "primary_identifier"
  BY <1>0, <1>12 DEF Processed, PrimaryIdentifier, SameEnds, SameSubject, SubjectServices, DataFields
<1>13. CASE s.kind = "legacy_eptid"
  BY <1>0, <1>13 DEF Processed, LegacyEptid, SameEnds, SameSubject, SubjectServices, DataFields
<1>14. CASE s.kind \in Unchanging
  BY <1>14 DEF Processed, Unchanging, SameEnds, SameSubject, SubjectServices
<1> QED
  BY <1>1, <1>2, <1>3, <1>4, <1>5, <1>6, <1>7, <1>8, <1>9, <1>10, <1>11, <1>12, <1>13,
     <1>14, BuiltKind DEF ServiceKinds, AlwaysBuilt

LEMMA ServiceRemains ==
  ASSUME NEW s, NEW d, NEW ctx, NEW n, DOMAIN d = DataFields, Built(s), Configured(s),
         ~Ended(Processed(s, d, ctx)), ~Writes(s, n)
  PROVE  Remains(s, d, Processed(s, d, ctx), n)
<1> DEFINE out == Processed(s, d, ctx)
<1>0. out \notin {Failed, Redirected}
  BY DEF Ended
<1>1. CASE s.kind = "static_attributes"
  <2>1. out = StaticAttributes(s, d)
    BY <1>1 DEF Processed, Unchanging
  <2>2. Untouched(d, StaticAttributes(s, d), n)
    BY <1>0, <1>1, <2>1, StaticUntouched
  <2> QED
    BY <1>1, <2>1, <2>2 DEF Remains
<1>2. CASE s.kind = "static_attributes_for_virtual_idp"
  <2>1. out = StaticForVirtualIdp(s, d, ctx.frontend)
    BY <1>2 DEF Processed, Unchanging
  <2>2. Untouched(d, StaticForVirtualIdp(s, d, ctx.frontend), n)
    BY <1>0, <1>2, <2>1, VirtualUntouched
  <2> QED
    BY <1>2, <2>1, <2>2 DEF Remains
<1>3. CASE s.kind = "filter_attributes"
  <2>1. out = FilterAttributes(s, d)
    BY <1>3 DEF Processed, Unchanging
  <2>2. Untouched(d, FilterAttributes(s, d), n)
    BY <1>0, <1>3, <2>1, FilterUntouched
  <2> QED
    BY <1>3, <2>1, <2>2 DEF Remains
<1>4. CASE s.kind = "filter_attribute_values"
  BY <1>4 DEF Processed, Unchanging, FilterAttributeValues, Remains, DataFields
<1>5. CASE s.kind = "rename_attributes"
  <2>1. out = RenameAttributes(s, d)
    BY <1>5 DEF Processed, Unchanging
  <2>2. Untouched(d, RenameAttributes(s, d), n)
    BY <1>0, <1>5, <2>1, RenameUntouched
  <2> QED
    BY <1>5, <2>1, <2>2 DEF Remains
<1>6. CASE s.kind = "attribute_processor"
  <2>1. out = AttributeProcessor(s, d)
    BY <1>6 DEF Processed, Unchanging
  <2>2. Untouched(d, AttributeProcessor(s, d), n)
    BY <1>0, <1>6, <2>1, ProcessorUntouched
  <2> QED
    BY <1>6, <2>1, <2>2 DEF Remains
<1>7. CASE s.kind = "hasher"
  <2>1. out = Hasher(s, d)
    BY <1>7 DEF Processed, Unchanging
  <2>3. HasherBuilt(s)
    BY <1>7 DEF Built
  <2>2. Untouched(d, Hasher(s, d), n)
    BY <1>0, <1>7, <2>1, <2>3, HasherUntouched
  <2> QED
    BY <1>7, <2>1, <2>2 DEF Remains
<1>8. CASE s.kind = "attribute_generation"
  <2>1. out = AttributeGeneration(s, d)
    BY <1>8 DEF Processed, Unchanging
  <2>2. Untouched(d, AttributeGeneration(s, d), n)
    BY <1>0, <1>8, <2>1, GenerationUntouched
  <2> QED
    BY <1>8, <2>1, <2>2 DEF Remains
<1>9. CASE s.kind = "attribute_authorization"
  <2>1. out = AttributeAuthorization(s, d)
    BY <1>9 DEF Processed, Unchanging
  <2>2. Untouched(d, AttributeAuthorization(s, d), n)
    BY <1>0, <1>9, <2>1, AuthorizationUntouched
  <2> QED
    BY <1>9, <2>1, <2>2 DEF Remains
<1>10. CASE s.kind = "pairwiseid"
  <2>1. out = PairwiseId(s, d)
    BY <1>10 DEF Processed, Unchanging
  <2>2. Untouched(d, PairwiseId(s, d), n)
    BY <1>0, <1>10, <2>1, PairwiseUntouched
  <2> QED
    BY <1>10, <2>1, <2>2 DEF Remains
<1>11. CASE s.kind = "nameid"
  <2>1. out = NameId(d, ctx)
    BY <1>11 DEF Processed, Unchanging
  <2>2. Untouched(d, NameId(d, ctx), n)
    BY <1>0, <1>11, <2>1, NameIdUntouched
  <2> QED
    BY <1>11, <2>1, <2>2 DEF Remains
<1>12. CASE s.kind = "primary_identifier"
  <2>1. out = PrimaryIdentifier(s, d)
    BY <1>12 DEF Processed, Unchanging
  <2>2. Untouched(d, PrimaryIdentifier(s, d), n)
    BY <1>0, <1>12, <2>1, PrimaryUntouched
  <2> QED
    BY <1>12, <2>1, <2>2 DEF Remains
<1>13. CASE s.kind = "legacy_eptid"
  <2>1. out = LegacyEptid(s, d)
    BY <1>13 DEF Processed, Unchanging
  <2>2. Untouched(d, LegacyEptid(s, d), n)
    BY <1>0, <1>13, <2>1, EptidUntouched
  <2> QED
    BY <1>13, <2>1, <2>2 DEF Remains
<1>14. CASE s.kind \in Unchanging
  BY <1>14 DEF Processed, Unchanging, Remains, Untouched
<1> QED
  BY <1>1, <1>2, <1>3, <1>4, <1>5, <1>6, <1>7, <1>8, <1>9, <1>10, <1>11, <1>12, <1>13,
     <1>14, BuiltKind DEF ServiceKinds, AlwaysBuilt

----------------------------------------------------------------------------
(* One step of a response along its chain                                  *)

LEMMA KeptSame ==
  ASSUME NEW filters, NEW d, NEW out, NEW n, NEW v, SameEnds(d, out)
  PROVE  Kept(filters, d, n, v) <=> Kept(filters, out, n, v)
BY DEF Kept, SameEnds

LEMMA WithheldSame ==
  ASSUME NEW c, NEW k, NEW d, NEW out, NEW n, NEW v, SameEnds(d, out)
  PROVE  Withheld(c, k, d, n, v) <=> Withheld(c, k, out, n, v)
BY KeptSame DEF Withheld

LEMMA WithheldNext ==
  ASSUME NEW c, NEW k \in Nat, NEW d, NEW n, NEW v
  PROVE  Withheld(c, k + 1, d, n, v) <=>
           \/ Withheld(c, k, d, n, v)
           \/ c[k + 1].kind = "filter_attribute_values" /\ ~Kept(c[k + 1].filters, d, n, v)
<1>1. 1 .. k + 1 = (1 .. k) \cup {k + 1}
  OBVIOUS
<1> QED
  BY <1>1 DEF Withheld

LEMMA AccountedStep ==
  ASSUME NEW c, NEW k \in Nat, NEW who, NEW d, NEW out,
         SameEnds(d, out), Accounted(c, who, d, k),
         \A n : ~Writes(c[k + 1], n) => Remains(c[k + 1], d, out, n)
  PROVE  Accounted(c, who, out, k + 1)
<1> SUFFICES ASSUME NEW n \in DOMAIN Map \cap DOMAIN out.attributes,
                    \A j \in 1 .. k + 1 : ~Writes(c[j], n)
             PROVE  /\ IsSequence(out.attributes[n])
                    /\ \A v \in Range(out.attributes[n]) :
                         v \in AssertedBy(who, n) /\ ~Withheld(c, k + 1, out, n, v)
  BY DEF Accounted
<1>1. Remains(c[k + 1], d, out, n) /\ \A j \in 1 .. k : ~Writes(c[j], n)
  OBVIOUS
<1>2. n \in DOMAIN d.attributes
  BY <1>1 DEF Remains, Untouched
<1>3. /\ IsSequence(d.attributes[n])
      /\ \A v \in Range(d.attributes[n]) :
           v \in AssertedBy(who, n) /\ ~Withheld(c, k, d, n, v)
  BY <1>1, <1>2 DEF Accounted
<1>4. CASE c[k + 1].kind = "filter_attribute_values"
  <2>1. out.attributes[n] = KeptValues(c[k + 1].filters, d, n, d.attributes[n])
    BY <1>1, <1>4 DEF Remains
  <2>2. /\ IsSequence(out.attributes[n])
        /\ \A v \in Range(out.attributes[n]) :
             v \in Range(d.attributes[n]) /\ Kept(c[k + 1].filters, d, n, v)
    BY <1>3, <2>1, KeptFact
  <2> QED
    BY <1>3, <2>2, WithheldNext, WithheldSame
<1>5. CASE c[k + 1].kind # "filter_attribute_values"
  <2>1. out.attributes[n] = d.attributes[n]
    BY <1>1, <1>5 DEF Remains, Untouched
  <2> QED
    BY <1>3, <1>5, <2>1, WithheldNext, WithheldSame
<1> QED
  BY <1>4, <1>5

LEMMA AuthorizedSame ==
  ASSUME NEW c, NEW i, NEW who, NEW d, NEW out, SameEnds(d, out), AuthorizedBy(c, i, who, d)
  PROVE  AuthorizedBy(c, i, who, out)
BY WithheldSame DEF AuthorizedBy, SameEnds

LEMMA AuthorizedStep ==
  ASSUME RulesOfAsserted, NEW c \in Chains, NEW k \in Nat, k + 1 \in DOMAIN c,
         NEW who, NEW d, Accounted(c, who, d, k),
         c[k + 1].kind = "attribute_authorization" => Permitted(c[k + 1], d)
  PROVE  AuthorizedBy(c, k + 1, who, d)
<1> DEFINE s == c[k + 1]
           rule == Recipe(s.attribute_allow, d.requester, d.issuer)
<1> SUFFICES ASSUME s.kind = "attribute_authorization",
                    d.requester \in DOMAIN s.attribute_allow, NEW n \in DOMAIN rule
             PROVE  \E v \in AssertedBy(who, n) \cap rule[n] : ~Withheld(c, k, d, n, v)
  BY DEF AuthorizedBy
<1>1. /\ s.force_attributes_presence_on_allow
      /\ \A r \in DOMAIN s.attribute_allow : \A issuer \in DOMAIN s.attribute_allow[r] :
           \A m \in DOMAIN s.attribute_allow[r][issuer] :
             m \in DOMAIN Map /\ \A j \in 1 .. k : ~Writes(c[j], m)
  BY DEF RulesOfAsserted
<1>2. n \in DOMAIN Map /\ \A j \in 1 .. k : ~Writes(c[j], n)
  <2>1. PICK r \in DOMAIN s.attribute_allow : \E issuer \in DOMAIN s.attribute_allow[r] :
          rule = s.attribute_allow[r][issuer]
    BY RecipeFrom, NothingConfigured
  <2> HIDE DEF rule
  <2> QED
    BY <1>1, <2>1
<1>3. n \in DOMAIN d.attributes /\ Range(d.attributes[n]) \cap rule[n] # {}
  BY <1>1 DEF Permitted
<1>4. \A v \in Range(d.attributes[n]) : v \in AssertedBy(who, n) /\ ~Withheld(c, k, d, n, v)
  BY <1>2, <1>3 DEF Accounted
<1> QED
  BY <1>3, <1>4

(* What the services see of the request, besides the response.             *)
ContextGood(ctx) ==
  ctx.publisher = NoLogin \/ (ctx.publisher \in Logins /\ ctx.format = FormatOf(ctx.publisher))

(* nameid shapes the subject, and no service after it changes it or the    *)
(* pairwise identifier.                                                    *)
LEMMA ShapedStep ==
  ASSUME NameIdLast, NEW c \in Chains, NEW k \in Nat, k + 1 \in DOMAIN c,
         NEW f \in DOMAIN Frontends, NEW d, NEW ctx, ContextGood(ctx),
         DOMAIN d = DataFields, d.requester \in RequestersAt(f), Shaped(c, f, d, k),
         Built(c[k + 1]), ~Ended(Processed(c[k + 1], d, ctx))
  PROVE  Shaped(c, f, Processed(c[k + 1], d, ctx), k + 1)
<1> DEFINE s == c[k + 1]
           out == Processed(s, d, ctx)
<1> SUFFICES ASSUME Frontends[f].protocol = "saml", out.shaped_by \in Logins
             PROVE  /\ \E i \in 1 .. k + 1 : c[i].kind = "nameid"
                    /\ FormatOf(out.shaped_by) = "persistent" =>
                         /\ First(out.attributes, "pairwise-id") # NoValue
                         /\ out.subject_id = PairwiseSubject(out)
  BY DEF Shaped
<1>0. out \notin {Failed, Redirected}
  BY DEF Ended
<1>1. CASE s.kind = "nameid"
  <2>1. out = NameId(d, ctx)
    BY <1>1 DEF Processed, Unchanging
  <2>2. out.shaped_by = ctx.publisher /\ out.attributes = d.attributes
    BY <1>0, <2>1 DEF NameId, DataFields
  <2>3. ctx.format = FormatOf(out.shaped_by)
    BY <2>2, ReleaseAssumption DEF ContextGood
  <2>4. ctx.format = "persistent" => /\ First(d.attributes, "pairwise-id") # NoValue
                                     /\ out.subject_id = PairwiseSubject(d)
    BY <1>0, <2>1 DEF NameId, DataFields, PairwiseSubject
  <2> QED
    BY <1>1, <2>2, <2>3, <2>4 DEF PairwiseSubject
<1>2. CASE s.kind # "nameid"
  <2>1. out.shaped_by = d.shaped_by
    BY <1>2, ServiceEnds
  <2>2. /\ \E i \in 1 .. k : c[i].kind = "nameid"
        /\ FormatOf(d.shaped_by) = "persistent" =>
             First(d.attributes, "pairwise-id") # NoValue /\ d.subject_id = PairwiseSubject(d)
    BY <2>1 DEF Shaped
  <2>3. HarmlessAfter(s)
    <3>1. PICK i \in 1 .. k : c[i].kind = "nameid"
      BY <2>2
    <3>2. i \in DOMAIN c /\ k + 1 \in i + 1 .. Len(c)
      BY <3>1, ReleaseAssumption DEF IsSequence
    <3> QED
      BY <3>1, <3>2 DEF NameIdLast
  <2>4. CASE s.kind \in {"custom_logging", "stepup"}
    BY <2>1, <2>2, <2>4 DEF Processed, Unchanging
  <2>5. CASE s.kind = "filter_attributes"
    <3>1. out = FilterAttributes(s, d)
      BY <2>5 DEF Processed, Unchanging
    <3>2. Passes(s, d.requester, "pairwise-id")
      BY <2>3, <2>5 DEF HarmlessAfter
    <3>3. out.subject_id = d.subject_id
      BY <3>1 DEF FilterAttributes, DataFields
    <3>4. First(out.attributes, "pairwise-id") = First(d.attributes, "pairwise-id")
      BY <3>1, <3>2 DEF FilterAttributes, DataFields, First, Values, Restrict
    <3> QED
      BY <2>1, <2>2, <3>3, <3>4 DEF PairwiseSubject
  <2> QED
    BY <1>2, <2>3, <2>4, <2>5 DEF HarmlessAfter
<1> QED
  BY <1>1, <1>2

(* pairwiseid makes the identifier of a subject-id that was asserted; the  *)
(* services behind it may drop it, and no more.                            *)
LEMMA PairwiseMade ==
  ASSUME PairwiseAlone, NEW c \in Chains, NEW k \in Nat, k + 1 \in DOMAIN c,
         c[k + 1].kind = "pairwiseid", NEW who, NEW d, Accounted(c, who, d, k),
         DOMAIN d = DataFields, PairwiseId(c[k + 1], d) # Failed
  PROVE  LET out == PairwiseId(c[k + 1], d)
         IN /\ IsSequence(out.attributes["pairwise-id"])
            /\ \A v \in Range(out.attributes["pairwise-id"]) :
                 \E subject \in AssertedBy(who, "subject-id") :
                   Head(v) = Head(PairwiseDigest(c[k + 1], d.requester, subject))
<1> DEFINE s == c[k + 1]
           subject == First(d.attributes, "subject-id")
           value == Append(PairwiseDigest(s, d.requester, subject), Last(subject))
           out == PairwiseId(s, d)
<1>1. subject # NoValue /\ out = [d EXCEPT !.attributes = Set(@, "pairwise-id", <<value>>)]
  BY DEF PairwiseId
<1>2. out.attributes["pairwise-id"] = <<value>>
  BY <1>1 DEF Set, DataFields
<1>3. subject \in AssertedBy(who, "subject-id")
  <2>1. "subject-id" \in DOMAIN Map /\ \A j \in 1 .. k : ~Writes(c[j], "subject-id")
    BY DEF PairwiseAlone
  <2>2. /\ "subject-id" \in DOMAIN d.attributes /\ d.attributes["subject-id"] # <<>>
        /\ subject = d.attributes["subject-id"][1]
    BY <1>1 DEF First, Values
  <2>3. /\ IsSequence(d.attributes["subject-id"])
        /\ \A v \in Range(d.attributes["subject-id"]) : v \in AssertedBy(who, "subject-id")
    BY <2>1, <2>2 DEF Accounted
  <2> QED
    BY <2>2, <2>3, FirstIn
<1>4. Head(value) = Head(PairwiseDigest(s, d.requester, subject))
  BY DigestOne DEF PairwiseDigest
<1>5. IsSequence(<<value>>) /\ Range(<<value>>) = {value}
  <2> HIDE DEF value
  <2> QED
    BY DEF IsSequence, Range
<1> HIDE DEF value, subject
<1> QED
  BY <1>2, <1>3, <1>4, <1>5

LEMMA PairedStep ==
  ASSUME PairwiseAlone, NEW c \in Chains, NEW k \in Nat, k + 1 \in DOMAIN c, NEW who,
         NEW d, NEW out, DOMAIN d = DataFields, SameEnds(d, out),
         Accounted(c, who, d, k), Paired(c, who, d, k),
         c[k + 1].kind = "pairwiseid" =>
           out = PairwiseId(c[k + 1], d) /\ out # Failed,
         ~Writes(c[k + 1], "pairwise-id") => Remains(c[k + 1], d, out, "pairwise-id")
  PROVE  Paired(c, who, out, k + 1)
<1> SUFFICES ASSUME NEW i \in 1 .. k + 1, c[i].kind = "pairwiseid",
                    "pairwise-id" \in DOMAIN out.attributes
             PROVE  /\ IsSequence(out.attributes["pairwise-id"])
                    /\ \A v \in Range(out.attributes["pairwise-id"]) :
                         \E subject \in AssertedBy(who, "subject-id") :
                           Head(v) = Head(PairwiseDigest(c[i], d.requester, subject))
  BY DEF Paired, SameEnds
<1>1. CASE i = k + 1
  BY <1>1, PairwiseMade
<1>2. CASE i # k + 1
  <2>1. i \in 1 .. k /\ i \in DOMAIN c /\ k + 1 \in i + 1 .. Len(c)
    BY <1>2, ReleaseAssumption DEF IsSequence
  <2>2. Remains(c[k + 1], d, out, "pairwise-id")
    BY <2>1 DEF PairwiseAlone
  <2>3. "pairwise-id" \in DOMAIN d.attributes
    BY <2>2 DEF Remains, Untouched
  <2> DEFINE values == d.attributes["pairwise-id"]
  <2>4. /\ IsSequence(values)
        /\ \A v \in Range(values) : \E subject \in AssertedBy(who, "subject-id") :
             Head(v) = Head(PairwiseDigest(c[i], d.requester, subject))
    BY <2>1, <2>3 DEF Paired
  <2>5. \/ out.attributes["pairwise-id"] = values
        \/ out.attributes["pairwise-id"] = KeptValues(c[k + 1].filters, d, "pairwise-id", values)
    BY <2>2 DEF Remains, Untouched
  <2> HIDE DEF values
  <2>6. /\ IsSequence(out.attributes["pairwise-id"])
        /\ Range(out.attributes["pairwise-id"]) \subseteq Range(values)
    BY <2>4, <2>5, KeptFact
  <2> QED
    BY <2>4, <2>6
<1> QED
  BY <1>1, <1>2

(* Where a response comes from, over one service.                          *)
LEMMA OriginatesStep ==
  ASSUME NEW c, NEW k \in Nat, NEW who, NEW d, NEW out, SameEnds(d, out),
         Originates(c, who, d, k),
         c[k + 1].kind \notin SubjectServices => SameSubject(d, out),
         \A n : ~Writes(c[k + 1], n) => Remains(c[k + 1], d, out, n)
  PROVE  Originates(c, who, out, k + 1)
<1> DEFINE r == Received(who)
<1>1. /\ who \in Accepted /\ d.issuer = r.issuer
      /\ (\A j \in 1 .. k : c[j].kind \notin SubjectServices) =>
           d.subject_id = r.subject_id /\ d.subject_type = r.subject_type
      /\ \A n \in DOMAIN d.attributes \ DOMAIN r.attributes : \E j \in 1 .. k : Writes(c[j], n)
  BY DEF Originates
<1>2. out.issuer = r.issuer
  BY <1>1 DEF SameEnds
<1>3. ASSUME \A j \in 1 .. k + 1 : c[j].kind \notin SubjectServices
      PROVE  out.subject_id = r.subject_id /\ out.subject_type = r.subject_type
  BY <1>1, <1>3 DEF SameSubject
<1>4. ASSUME NEW n \in DOMAIN out.attributes \ DOMAIN r.attributes
      PROVE  \E j \in 1 .. k + 1 : Writes(c[j], n)
  <2>1. CASE Writes(c[k + 1], n)
    BY <2>1
  <2>2. CASE ~Writes(c[k + 1], n)
    <3>1. n \in DOMAIN d.attributes
      BY <2>2 DEF Remains, Untouched
    <3> QED
      BY <1>1, <3>1
  <2> QED
    BY <2>1, <2>2
<1> HIDE DEF r
<1> QED
  BY <1>1, <1>2, <1>3, <1>4 DEF Originates, r

(* What a backend makes of a response depends on the requester in nothing  *)
(* but the requester.                                                      *)
LEMMA ReceivedSame ==
  ASSUME NEW b, NEW response, NEW requester, Response(b, response, requester) # Failed
  PROVE  LET d == Response(b, response, requester)
             r == Response(b, response, NoValue)
         IN /\ DOMAIN r = DataFields /\ r.attributes = d.attributes
            /\ r.issuer = d.issuer /\ SameSubject(d, r)
<1> DEFINE d == Response(b, response, requester)
           r == Response(b, response, NoValue)
<1>1. CASE Backends[b].protocol = "saml"
  <2> DEFINE a == Authenticated(response)
             attrs == SamlAttributes(Backends[b], ConsumedAttributes(Backends[b], response))
             Accept(q) == [attributes |-> attrs, subject_id |-> SelectedSubject(Backends[b], a, attrs),
                           subject_type |-> SubjectType(a.format), issuer |-> a.issuer,
                           requester |-> q, shaped_by |-> NoValue]
  <2>1. \A q : Response(b, response, q) =
               IF a = NoValue \/ (a # NoValue /\ a.name_id = NoValue) THEN Failed ELSE Accept(q)
    BY <1>1 DEF Response, SamlResponse
  <2>2. d = Accept(requester) /\ r = Accept(NoValue)
    <3> HIDE DEF Accept, a
    <3> QED
      BY <2>1
  <2> HIDE DEF a, attrs, d, r
  <2>3. /\ DOMAIN r = DataFields /\ r.attributes = d.attributes
        /\ r.issuer = d.issuer /\ SameSubject(d, r)
    BY <2>2 DEF DataFields, SameSubject
  <2> QED
    BY <2>3 DEF d, r
<1>2. CASE Backends[b].protocol # "saml"
  BY <1>2 DEF Response, OidcResponse, DataFields, SameSubject
<1> QED
  BY <1>1, <1>2

(* A candidate's components depend on the first values of its attributes,  *)
(* on the subject if it names it, and on the provider.                     *)
LEMMA ComponentsSame ==
  ASSUME NEW p, NEW d, NEW e, IsSequence(p.attribute_names), e.issuer = d.issuer,
         \A n \in Range(p.attribute_names) :
           IF n = "name_id" THEN SameSubject(d, e)
           ELSE First(e.attributes, n) = First(d.attributes, n)
  PROVE  Components(p, e) = Components(p, d)
<1> DEFINE names == p.attribute_names
           Extended(x, f) == [i \in 0 .. Len(names) |->
             IF i = 0 THEN <<>> ELSE Component(p, x, f[i - 1], names[i])]
           After(x) == CHOOSE f : f = Extended(x, f)
<1>1. ASSUME NEW i \in 0 .. Len(names), i # 0
      PROVE  names[i] \in Range(names)
  BY <1>1 DEF IsSequence, Range
<1>2. ASSUME NEW n \in Range(names), NEW vs
      PROVE  Component(p, e, vs, n) = Component(p, d, vs, n)
  BY DEF Component, SameSubject
<1>3. ASSUME NEW f
      PROVE  Extended(e, f) = Extended(d, f)
  BY <1>1, <1>2, Zenon
<1>4. After(e) = After(d)
  <2> HIDE DEF Extended
  <2> QED
    BY <1>3
<1>5. \A x : Components(p, x) =
        LET values == After(x)[Len(names)]
        IN IF values = NoValue \/ p.add_scope = NoValue THEN values
           ELSE Append(values, <<IF p.add_scope = "issuer_entityid" THEN x.issuer
                                 ELSE p.add_scope>>)
  BY Zenon DEF Components
<1> HIDE DEF After
<1> QED
  BY <1>4, <1>5

(* So they are the components of what it may read of the source.           *)
LEMMA ComponentsComposed ==
  ASSUME IdentifierAlone, NEW c \in Chains, NEW k \in Nat, k + 1 \in DOMAIN c,
         c[k + 1].kind = "primary_identifier", NEW p \in Candidates(c[k + 1]),
         IsSequence(p.attribute_names), NEW who, NEW d, DOMAIN d = DataFields,
         Accounted(c, who, d, k), Originates(c, who, d, k),
         Components(p, d) \notin {NoValue, <<>>}
  PROVE  Components(p, d) \in Composed(p, who)
<1> DEFINE names == Range(p.attribute_names)
           r == Received(who)
           a == [n \in names |-> IF n = "name_id" \/ Values(d.attributes, n) = <<>> THEN <<>>
                                 ELSE <<d.attributes[n][1]>>]
           e == [r EXCEPT !.attributes = a]
           values == UNION {AssertedBy(who, n) : n \in names}
<1>1. \A n \in names :
        IF n = "name_id" THEN \A j \in 1 .. k : c[j].kind \notin SubjectServices
        ELSE n \in DOMAIN Map /\ \A j \in 1 .. k : ~Writes(c[j], n)
  BY DEF IdentifierAlone
<1>2. ASSUME NEW n \in names, n # "name_id", Values(d.attributes, n) # <<>>
      PROVE  d.attributes[n][1] \in AssertedBy(who, n)
  <2>1. n \in DOMAIN d.attributes /\ d.attributes[n] # <<>>
    BY <1>2 DEF Values
  <2>2. /\ IsSequence(d.attributes[n])
        /\ \A v \in Range(d.attributes[n]) : v \in AssertedBy(who, n)
    BY <1>1, <1>2, <2>1 DEF Accounted
  <2> QED
    BY <2>1, <2>2, FirstIn
<1>3. ASSUME NEW n \in names
      PROVE  /\ a[n] \in {<<>>} \cup {<<v>> : v \in values}
             /\ Range(a[n]) \subseteq AssertedBy(who, n)
  <2>1. CASE a[n] = <<>>
    BY <2>1, NothingConfigured DEF Range
  <2>2. CASE a[n] # <<>>
    <3>1. n # "name_id" /\ Values(d.attributes, n) # <<>>
      BY <2>2
    <3> DEFINE v == d.attributes[n][1]
    <3>2. v \in AssertedBy(who, n) /\ v \in values
      BY <1>2, <3>1
    <3>3. a[n] = <<v>>
      BY <3>1
    <3> HIDE DEF v, a
    <3>4. Range(a[n]) = {v}
      BY <3>3 DEF Range
    <3> HIDE DEF values
    <3> QED
      BY <3>2, <3>3, <3>4
  <2> QED
    BY <2>1, <2>2
<1>4. e \in Excerpts(p, who)
  <2>1. a \in [names -> {<<>>} \cup {<<v>> : v \in values}]
    <3> HIDE DEF values
    <3> QED
      BY <1>3
  <2> HIDE DEF a
  <2> QED
    BY <1>3, <2>1 DEF Excerpts
<1>5. Components(p, e) = Components(p, d)
  <2>0. DOMAIN r = DataFields
    <3>1. who \in Accepted
      BY DEF Originates
    <3>2. PICK q : Response(who.backend, who.response, q) # Failed
      BY <3>1 DEF Accepted
    <3> QED
      BY <3>2, ReceivedSame DEF Received
  <2>1. e.issuer = d.issuer
    BY DEF Originates
  <2>2. ASSUME NEW n \in names, n = "name_id"
        PROVE  SameSubject(d, e)
    BY <1>1, <2>2 DEF Originates, SameSubject
  <2>3. ASSUME NEW n \in names, n # "name_id"
        PROVE  First(e.attributes, n) = First(d.attributes, n)
    BY <2>0, <2>3 DEF First, Values, DataFields
  <2> HIDE DEF e
  <2> QED
    BY <2>1, <2>2, <2>3, ComponentsSame
<1> QED
  BY <1>4, <1>5 DEF Composed

(* The candidates in effect are a configured list.                         *)
LEMMA EffectiveCandidates ==
  ASSUME NEW s, NEW d, s.kind = "primary_identifier", Configured(s)
  PROVE  Effective(s, d).ordered_identifier_candidates \in CandidateLists(s)
<1> DEFINE own == IF d.requester # "" /\ d.requester \in DOMAIN s.overrides
                  THEN s.overrides[d.requester] ELSE <<>>
           its == IF d.issuer # "" /\ d.issuer \in DOMAIN s.overrides
                  THEN s.overrides[d.issuer] ELSE <<>>
           eff == Effective(s, d)
           field == "ordered_identifier_candidates"
<1>1. PICK ignored : eff = Override([ignore |-> ignored], Override(own, Override(its, s)))
  BY Zenon DEF Effective
<1>2. field \in DOMAIN s
  BY DEF Configured
<1>3. \A x \in {own, its} : field \in DOMAIN x =>
        \E key \in DOMAIN s.overrides :
          x = s.overrides[key] /\ field \in DOMAIN s.overrides[key]
  <2>1. DOMAIN <<>> = {}
    OBVIOUS
  <2> QED
    BY <2>1, Zenon
<1> HIDE DEF own, its, eff
<1>4. eff[field] = IF field \in DOMAIN own THEN own[field]
                   ELSE IF field \in DOMAIN its THEN its[field] ELSE s[field]
  BY <1>1, <1>2 DEF Override
<1>5. eff[field] \in CandidateLists(s)
  BY <1>3, <1>4 DEF CandidateLists
<1> QED
  BY <1>5 DEF eff

(* primary_identifier frames the components of one of its candidates; the  *)
(* services behind it may drop the identifier, and no more.                *)
LEMMA IdentifierMade ==
  ASSUME IdentifierAlone, NEW c \in Chains, NEW k \in Nat, k + 1 \in DOMAIN c,
         c[k + 1].kind = "primary_identifier", Configured(c[k + 1]), NEW who,
         NEW d, DOMAIN d = DataFields, Accounted(c, who, d, k), Originates(c, who, d, k),
         NEW out, out = PrimaryIdentifier(c[k + 1], d), out # Redirected,
         c[k + 1].primary_identifier \in DOMAIN out.attributes
  PROVE  LET identifiers == out.attributes[c[k + 1].primary_identifier]
         IN /\ IsSequence(identifiers)
            /\ \A v \in Range(identifiers) :
                 \E p \in Candidates(c[k + 1]) : \E vs \in Composed(p, who) : v = Framed(vs)
<1> DEFINE s == c[k + 1]
           n == s.primary_identifier
           eff == Effective(s, d)
           list == eff.ordered_identifier_candidates
           identifier == Constructed(list, d)
           attrs == IF eff.clear_input_attributes THEN <<>> ELSE d.attributes
           usable == Usable(list, d)
           first == list[Min(usable)]
<1>1. n \notin DOMAIN d.attributes
  <2>1. who \in Accepted /\ n \notin DOMAIN Received(who).attributes
    BY DEF Originates, IdentifierAlone
  <2>2. \A j \in 1 .. k : ~Writes(c[j], n)
    <3>1. \A j \in 1 .. k : j \in DOMAIN c \ {k + 1}
      BY ReleaseAssumption DEF IsSequence
    <3> QED
      BY <3>1 DEF IdentifierAlone
  <2> QED
    BY <2>1, <2>2 DEF Originates
<1>2. /\ identifier # NoValue
      /\ out.attributes = Set(attrs, eff.primary_identifier, <<identifier>>)
  <2>1. \/ out = d
        \/ /\ identifier # NoValue
           /\ out = [d EXCEPT !.attributes = Set(attrs, eff.primary_identifier, <<identifier>>),
                              !.subject_id = IF eff.replace_subject_id THEN identifier ELSE @]
    BY Zenon DEF PrimaryIdentifier
  <2> HIDE DEF eff, identifier, attrs
  <2> QED
    BY <1>1, <2>1 DEF DataFields
<1>3. out.attributes[n] = <<identifier>>
  <2>1. DOMAIN attrs \subseteq DOMAIN d.attributes
    BY NothingConfigured
  <2> HIDE DEF attrs, eff, identifier
  <2> QED
    BY <1>1, <1>2, <2>1 DEF Set
<1>4. list \in CandidateLists(s)
  BY EffectiveCandidates
<1>5. /\ IsSequence(list) /\ \A i \in DOMAIN list : IsSequence(list[i].attribute_names)
      /\ Range(list) \subseteq Candidates(s)
  <2> HIDE DEF list
  <2> QED
    BY <1>4 DEF Configured, Candidates
<1>6. usable # {} /\ identifier = Framed(Components(first, d))
  <2> HIDE DEF list
  <2> QED
    BY <1>2 DEF Constructed
<1>7. /\ Min(usable) \in DOMAIN list
      /\ Components(first, d) \notin {NoValue, <<>>}
  <2> HIDE DEF list
  <2>1. usable \subseteq Nat
    BY <1>5 DEF IsSequence, Usable
  <2>2. Min(usable) \in usable
    <3> HIDE DEF usable
    <3> QED
      BY <1>6, <2>1, MinIn
  <2> QED
    BY <2>2 DEF Usable
<1>8. first \in Candidates(s) /\ IsSequence(first.attribute_names)
  <2> HIDE DEF list, usable
  <2> QED
    BY <1>5, <1>7 DEF Range
<1>9. Components(first, d) \in Composed(first, who)
  <2> HIDE DEF first
  <2> QED
    BY <1>7, <1>8, ComponentsComposed
<1>10. IsSequence(<<identifier>>) /\ Range(<<identifier>>) = {identifier}
  <2> HIDE DEF identifier
  <2> QED
    BY DEF IsSequence, Range
<1> HIDE DEF identifier, first
<1> QED
  BY <1>3, <1>6, <1>8, <1>9, <1>10

LEMMA IdentifiedStep ==
  ASSUME IdentifierAlone, NEW c \in Chains, NEW k \in Nat, k + 1 \in DOMAIN c,
         Configured(c[k + 1]), NEW who, NEW d, NEW out, DOMAIN d = DataFields,
         Accounted(c, who, d, k), Originates(c, who, d, k), Identified(c, who, d, k),
         c[k + 1].kind = "primary_identifier" =>
           out = PrimaryIdentifier(c[k + 1], d) /\ out # Redirected,
         \A n : ~Writes(c[k + 1], n) => Remains(c[k + 1], d, out, n)
  PROVE  Identified(c, who, out, k + 1)
<1> SUFFICES ASSUME NEW i \in 1 .. k + 1, c[i].kind = "primary_identifier",
                    c[i].primary_identifier \in DOMAIN out.attributes
             PROVE  LET identifiers == out.attributes[c[i].primary_identifier]
                    IN /\ IsSequence(identifiers)
                       /\ \A v \in Range(identifiers) : \E p \in Candidates(c[i]) :
                            \E vs \in Composed(p, who) : v = Framed(vs)
  BY DEF Identified
<1>1. CASE i = k + 1
  BY <1>1, IdentifierMade
<1>2. CASE i # k + 1
  <2> DEFINE n == c[i].primary_identifier
             values == d.attributes[n]
  <2>1. i \in 1 .. k /\ i \in DOMAIN c /\ k + 1 \in DOMAIN c \ {i}
    BY <1>2, ReleaseAssumption DEF IsSequence
  <2>2. Remains(c[k + 1], d, out, n)
    BY <2>1 DEF IdentifierAlone
  <2>3. n \in DOMAIN d.attributes
    BY <2>2 DEF Remains, Untouched
  <2>4. /\ IsSequence(values)
        /\ \A v \in Range(values) : \E p \in Candidates(c[i]) :
             \E vs \in Composed(p, who) : v = Framed(vs)
    BY <2>1, <2>3 DEF Identified
  <2>5. \/ out.attributes[n] = values
        \/ out.attributes[n] = KeptValues(c[k + 1].filters, d, n, values)
    BY <2>2 DEF Remains, Untouched
  <2> HIDE DEF values
  <2>6. IsSequence(out.attributes[n]) /\ Range(out.attributes[n]) \subseteq Range(values)
    BY <2>4, <2>5, KeptFact
  <2> QED
    BY <2>4, <2>6
<1> QED
  BY <1>1, <1>2

(* The response stays good over one service.                               *)
LEMMA DataStep ==
  ASSUME NEW c \in Chains, NEW k \in Nat, k + 1 \in DOMAIN c, Built(c[k + 1]),
         NEW f \in DOMAIN Frontends, NEW who, NEW d, DataGood(c, f, who, d, k),
         NEW ctx, ContextGood(ctx), ~Ended(Processed(c[k + 1], d, ctx))
  PROVE  DataGood(c, f, who, Processed(c[k + 1], d, ctx), k + 1)
<1> DEFINE s == c[k + 1]
           out == Processed(s, d, ctx)
<1>1. /\ DOMAIN d = DataFields /\ who \in Sources /\ d.requester \in RequestersAt(f)
      /\ Originates(c, who, d, k) /\ Accounted(c, who, d, k)
      /\ RulesOfAsserted => \A i \in 1 .. k : AuthorizedBy(c, i, who, d)
      /\ NameIdLast => Shaped(c, f, d, k)
      /\ PairwiseAlone => Paired(c, who, d, k)
      /\ IdentifierAlone => Identified(c, who, d, k)
  BY DEF DataGood, DataFields
<1>2. SameEnds(d, out)
  BY <1>1, ServiceEnds
<1>3. Configured(s)
  BY ReleaseAssumption
<1>4. Accounted(c, who, out, k + 1)
  <2>1. \A n : ~Writes(s, n) => Remains(s, d, out, n)
    BY <1>1, <1>3, ServiceRemains
  <2> QED
    BY <1>1, <1>2, <2>1, AccountedStep
<1>5. ASSUME RulesOfAsserted, NEW i \in 1 .. k + 1
      PROVE  AuthorizedBy(c, i, who, out)
  <2>1. CASE i \in 1 .. k
    BY <1>1, <1>2, <1>5, <2>1, AuthorizedSame
  <2>2. CASE i = k + 1
    <3>1. s.kind = "attribute_authorization" => Permitted(s, d)
      <4>1. s.kind = "attribute_authorization" => out = AttributeAuthorization(s, d)
        BY DEF Processed, Unchanging
      <4> QED
        BY <4>1 DEF AttributeAuthorization, Ended
    <3>2. AuthorizedBy(c, k + 1, who, d)
      BY <1>1, <1>5, <3>1, AuthorizedStep
    <3> QED
      BY <1>2, <2>2, <3>2, AuthorizedSame
  <2> QED
    BY <2>1, <2>2
<1>6. NameIdLast => Shaped(c, f, out, k + 1)
  BY <1>1, ShapedStep
<1>7. ASSUME PairwiseAlone
      PROVE  Paired(c, who, out, k + 1)
  <2>1. s.kind = "pairwiseid" => out = PairwiseId(s, d) /\ out # Failed
    BY DEF Processed, Unchanging, Ended
  <2>2. ~Writes(s, "pairwise-id") => Remains(s, d, out, "pairwise-id")
    BY <1>1, <1>3, ServiceRemains
  <2> QED
    BY <1>1, <1>2, <1>7, <2>1, <2>2, PairedStep
<1>8. \A n : ~Writes(s, n) => Remains(s, d, out, n)
  BY <1>1, <1>3, ServiceRemains
<1>9. Originates(c, who, out, k + 1)
  <2>1. s.kind \notin SubjectServices => SameSubject(d, out)
    BY <1>1, ServiceEnds
  <2> QED
    BY <1>1, <1>2, <1>8, <2>1, OriginatesStep
<1>10. ASSUME IdentifierAlone
       PROVE  Identified(c, who, out, k + 1)
  <2>1. s.kind = "primary_identifier" => out = PrimaryIdentifier(s, d) /\ out # Redirected
    BY DEF Processed, Unchanging, Ended
  <2> HIDE DEF out
  <2> QED
    BY <1>1, <1>3, <1>8, <1>10, <2>1, IdentifiedStep
<1> QED
  BY <1>1, <1>2, <1>4, <1>5, <1>6, <1>7, <1>9, <1>10 DEF DataGood, SameEnds, DataFields

----------------------------------------------------------------------------
(* A part of the chain                                                     *)

(* The response before the first of the services, and after each of them.  *)
Passing(g, c, from, d, ctx, m) ==
  g = [i \in from - 1 .. m |->
         IF i = from - 1 THEN d ELSE Onward(c[i], g[i - 1], ctx)]

LEMMA PassingNext ==
  ASSUME NEW c, NEW from \in Nat, NEW d, NEW ctx, NEW k \in Nat, from <= k,
         NEW g, Passing(g, c, from, d, ctx, k - 1)
  PROVE  \E h : Passing(h, c, from, d, ctx, k)
<1> DEFINE h == [i \in from - 1 .. k |->
                   IF i = from - 1 THEN d ELSE Onward(c[i], g[i - 1], ctx)]
<1>1. ASSUME NEW i \in from - 1 .. k - 1
      PROVE  h[i] = g[i]
  <2>1. i \in from - 1 .. k
    OBVIOUS
  <2>2. g[i] = IF i = from - 1 THEN d ELSE Onward(c[i], g[i - 1], ctx)
    BY Zenon DEF Passing
  <2> QED
    BY <2>1, <2>2, Zenon
<1>2. h = [i \in from - 1 .. k |->
             IF i = from - 1 THEN d ELSE Onward(c[i], h[i - 1], ctx)]
  <2>1. ASSUME NEW i \in from - 1 .. k, i # from - 1
        PROVE  h[i - 1] = g[i - 1]
    <3>1. i - 1 \in from - 1 .. k - 1
      BY <2>1
    <3> QED
      BY <1>1, <3>1, Zenon
  <2> QED
    BY <2>1, Zenon
<1> QED
  BY <1>2 DEF Passing

LEMMA PassingExists ==
  ASSUME NEW c, NEW from \in Nat \ {0}, NEW d, NEW ctx, NEW m \in Nat, from - 1 <= m
  PROVE  \E g : Passing(g, c, from, d, ctx, m)
<1> DEFINE S == {k \in Nat : \E g : Passing(g, c, from, d, ctx, k)}
<1>1. from - 1 \in Nat /\ from - 1 \in S
  <2>1. Passing([i \in from - 1 .. from - 1 |-> d], c, from, d, ctx, from - 1)
    BY DEF Passing
  <2> QED
    BY <2>1
<1>2. \A k \in Nat : from - 1 < k /\ k <= m /\ k - 1 \in S => k \in S
  BY PassingNext
<1>3. from - 1 .. m \subseteq S
  <2> HIDE DEF S
  <2> QED
    BY <1>1, <1>2, Positions
<1> QED
  BY <1>3

(* A response stays good along the chain, as long as no service fails.     *)
LEMMA ChainSteps ==
  ASSUME NEW c \in Chains, \A i \in DOMAIN c : Built(c[i]),
         NEW from \in Nat \ {0}, NEW to \in Nat, from - 1 <= to, to <= Len(c),
         NEW f \in DOMAIN Frontends, NEW who, NEW d, DataGood(c, f, who, d, from - 1),
         NEW ctx, ContextGood(ctx), ~Ended(ProcessedBy(c, from, to, d, ctx))
  PROVE  DataGood(c, f, who, ProcessedBy(c, from, to, d, ctx), to)
<1> DEFINE g == CHOOSE h : Passing(h, c, from, d, ctx, to)
           S == {i \in Nat : ~Ended(g[i]) => DataGood(c, f, who, g[i], i)}
<1>1. Passing(g, c, from, d, ctx, to)
  BY PassingExists
<1>2. ProcessedBy(c, from, to, d, ctx) = g[to]
  BY Zenon DEF ProcessedBy, Passing
<1>0. DOMAIN c = 1 .. Len(c)
  BY ReleaseAssumption DEF IsSequence
<1> HIDE DEF g
<1>3. from - 1 \in S
  <2>1. from - 1 \in from - 1 .. to /\ from - 1 \in Nat
    OBVIOUS
  <2>2. g[from - 1] = d
    BY <1>1, <2>1, Zenon DEF Passing
  <2> QED
    BY <2>1, <2>2
<1>4. ASSUME NEW i \in Nat, from - 1 < i, i <= to, i - 1 \in S
      PROVE  i \in S
  <2>1. i \in from - 1 .. to /\ i # from - 1 /\ i - 1 \in Nat /\ i - 1 + 1 = i
    BY <1>4
  <2>2. g[i] = Onward(c[i], g[i - 1], ctx)
    BY <1>1, <2>1, Zenon DEF Passing
  <2> SUFFICES ASSUME ~Ended(g[i]) PROVE DataGood(c, f, who, g[i], i)
    OBVIOUS
  <2>3. ~Ended(g[i - 1]) /\ g[i] = Processed(c[i], g[i - 1], ctx)
    BY <2>2 DEF Onward
  <2>4. DataGood(c, f, who, g[i - 1], i - 1)
    BY <1>4, <2>3
  <2>5. i \in DOMAIN c
    BY <1>0, <1>4
  <2> DEFINE k == i - 1
             e == g[i - 1]
  <2>6. k \in Nat /\ k + 1 = i
    BY <2>1
  <2>7. k + 1 \in DOMAIN c /\ Built(c[k + 1]) /\ DataGood(c, f, who, e, k)
        /\ ~Ended(Processed(c[k + 1], e, ctx))
    BY <2>3, <2>4, <2>5, <2>6
  <2>8. DataGood(c, f, who, Processed(c[k + 1], e, ctx), k + 1)
    <3> HIDE DEF k, e
    <3> QED
      BY <2>6, <2>7, DataStep
  <2> QED
    BY <2>3, <2>6, <2>8
<1>5. to \in S
  <2>1. from - 1 .. to \subseteq S
    <3>1. from - 1 \in Nat
      OBVIOUS
    <3> HIDE DEF S
    <3> QED
      BY <1>3, <1>4, <3>1, Positions
  <2> QED
    BY <2>1
<1> QED
  BY <1>2, <1>5

(* The second login adds its assurance, and nothing else.                  *)
LEMMA AssuredStep ==
  ASSUME NEW c \in Chains, NEW k \in Nat, k + 1 \in DOMAIN c, c[k + 1].kind = "stepup",
         NEW f \in DOMAIN Frontends, NEW who, NEW d, DataGood(c, f, who, d, k), NEW source
  PROVE  DataGood(c, f, who, Assured(c[k + 1], d, source), k + 1)
<1> DEFINE s == c[k + 1]
           out == Assured(s, d, source)
<1>1. /\ DOMAIN d = DataFields /\ who \in Sources /\ d.requester \in RequestersAt(f)
      /\ Originates(c, who, d, k) /\ Accounted(c, who, d, k)
      /\ RulesOfAsserted => \A i \in 1 .. k : AuthorizedBy(c, i, who, d)
      /\ NameIdLast => Shaped(c, f, d, k)
      /\ PairwiseAlone => Paired(c, who, d, k)
      /\ IdentifierAlone => Identified(c, who, d, k)
  BY DEF DataGood, DataFields
<1>2. /\ SameEnds(d, out) /\ out.shaped_by = d.shaped_by /\ out.subject_id = d.subject_id
      /\ \A n : n # s.assurance => /\ Untouched(d, out, n)
                                   /\ First(out.attributes, n) = First(d.attributes, n)
  BY <1>1 DEF Assured, SameEnds, Untouched, Set, First, Values, DataFields
<1>0. \A n : ~Writes(s, n) => Remains(s, d, out, n)
  BY <1>2 DEF Writes, Remains
<1>3. Accounted(c, who, out, k + 1)
  BY <1>0, <1>1, <1>2, AccountedStep
<1>4. RulesOfAsserted => \A i \in 1 .. k + 1 : AuthorizedBy(c, i, who, out)
  <2>1. AuthorizedBy(c, k + 1, who, out)
    BY DEF AuthorizedBy
  <2>2. \A i \in 1 .. k + 1 : i = k + 1 \/ i \in 1 .. k
    OBVIOUS
  <2> QED
    BY <1>1, <1>2, <2>1, <2>2, AuthorizedSame
<1>5. ASSUME NameIdLast
      PROVE  Shaped(c, f, out, k + 1)
  <2> SUFFICES ASSUME Frontends[f].protocol = "saml", out.shaped_by \in Logins
               PROVE  /\ \E i \in 1 .. k + 1 : c[i].kind = "nameid"
                      /\ FormatOf(out.shaped_by) = "persistent" =>
                           /\ First(out.attributes, "pairwise-id") # NoValue
                           /\ out.subject_id = PairwiseSubject(out)
    BY DEF Shaped
  <2>1. /\ \E i \in 1 .. k : c[i].kind = "nameid"
        /\ FormatOf(d.shaped_by) = "persistent" =>
             First(d.attributes, "pairwise-id") # NoValue /\ d.subject_id = PairwiseSubject(d)
    BY <1>1, <1>2, <1>5 DEF Shaped
  <2>2. HarmlessAfter(s)
    <3>1. PICK i \in 1 .. k : c[i].kind = "nameid"
      BY <2>1
    <3>2. i \in DOMAIN c /\ k + 1 \in i + 1 .. Len(c)
      BY <3>1, ReleaseAssumption DEF IsSequence
    <3> QED
      BY <1>5, <3>1, <3>2 DEF NameIdLast
  <2>3. s.assurance # "pairwise-id"
    BY <2>2 DEF HarmlessAfter
  <2> QED
    BY <1>2, <2>1, <2>3 DEF PairwiseSubject
<1>6. ASSUME PairwiseAlone
      PROVE  Paired(c, who, out, k + 1)
  BY <1>0, <1>1, <1>2, <1>6, PairedStep
<1>7. Originates(c, who, out, k + 1)
  <2>1. SameSubject(d, out)
    BY <1>1 DEF SameSubject, Assured, DataFields
  <2> QED
    BY <1>0, <1>1, <1>2, <2>1, OriginatesStep
<1>8. ASSUME IdentifierAlone
      PROVE  Identified(c, who, out, k + 1)
  <2>1. Configured(s)
    BY ReleaseAssumption
  <2> QED
    BY <1>0, <1>1, <1>8, <2>1, IdentifiedStep
<1> QED
  BY <1>1, <1>2, <1>3, <1>4, <1>5, <1>6, <1>7, <1>8 DEF DataGood, SameEnds, DataFields

----------------------------------------------------------------------------
(* What a backend makes of its provider's response                         *)

(* The greatest of some positions is among them.                           *)
LEMMA MaxIn ==
  ASSUME NEW m \in Nat, NEW S, S \subseteq 1 .. m, S # {}
  PROVE  Max(S) \in S
<1> DEFINE R == {m - x : x \in S}
<1>1. R \subseteq Nat /\ R # {}
  <2>1. \A x \in S : m - x \in Nat
    OBVIOUS
  <2>2. PICK x \in S : TRUE
    OBVIOUS
  <2>3. m - x \in R
    BY <2>2
  <2> QED
    BY <2>1, <2>3
<1>2. PICK z \in R : \A y \in R : z <= y
  <2> HIDE DEF R
  <2> QED
    BY <1>1, LeastExists
<1>3. PICK x \in S : z = m - x
  BY <1>2
<1>4. \A y \in S : x >= y
  <2> SUFFICES ASSUME NEW y \in S PROVE x >= y
    OBVIOUS
  <2>1. z <= m - y
    BY <1>2
  <2> QED
    BY <1>3, <2>1
<1> QED
  BY <1>4 DEF Max

(* Lower case is its own lower case.                                       *)
LEMMA LowerLower ==
  ASSUME NEW text
  PROVE  Lower(Lower(text)) = Lower(text)
BY LowerCaseAssumption DEF Lower

(* Attributes as a parser hands them over.                                 *)
Parsed(attributes) ==
  IsSequence(attributes) /\ \A j \in DOMAIN attributes : IsSequence(attributes[j].values)

LEMMA ConsumedParsed ==
  ASSUME NEW backend, NEW response, IsSequence(response),
         \A i \in DOMAIN response : Parsed(response[i].attributes),
         Authenticated(response) # NoValue
  PROVE  Parsed(ConsumedAttributes(backend, response))
<1> DEFINE with == {i \in DOMAIN response : response[i].authn}
<1>1. with \subseteq Nat /\ DOMAIN response = 1 .. Len(response) /\ Len(response) \in Nat
  BY DEF IsSequence
<1>2. CASE backend.request_subject
  <2>1. Authenticated(response) = response[Min(with)] /\ with # {}
    BY DEF Authenticated
  <2>2. Min(with) \in DOMAIN response
    BY <1>1, <2>1, MinIn
  <2> QED
    BY <1>2, <2>1, <2>2 DEF ConsumedAttributes
<1>3. CASE ~backend.request_subject
  <2> DEFINE T == {a \in UNION {Range(response[i].attributes) : i \in DOMAIN response} :
                     IsSequence(a.values)}
             each == [i \in DOMAIN response |-> response[i].attributes]
  <2>1. ASSUME NEW i \in DOMAIN response
        PROVE  each[i] \in Seq(T)
    <3>1. IsSequence(response[i].attributes)
          /\ \A a \in Range(response[i].attributes) : IsSequence(a.values)
      BY DEF Parsed, Range
    <3>2. Range(response[i].attributes) \subseteq T
      BY <3>1
    <3> HIDE DEF T
    <3> QED
      BY <3>1, <3>2, SequenceBack
  <2>2. each \in Seq(Seq(T))
    <3> HIDE DEF T
    <3> QED
      BY <1>1, <2>1
  <2>3. ConsumedAttributes(backend, response) \in Seq(T)
    <3> HIDE DEF T
    <3> QED
      BY <1>3, <2>2, FlattenFact DEF ConsumedAttributes
  <2>4. /\ IsSequence(ConsumedAttributes(backend, response))
        /\ Range(ConsumedAttributes(backend, response)) \subseteq T
    <3> HIDE DEF T
    <3> QED
      BY <2>3, SequenceOf
  <2> QED
    BY <2>4 DEF Parsed, Range
<1> QED
  BY <1>2, <1>3

LEMMA DistinctFact ==
  ASSUME NEW T, NEW values \in Seq(T)
  PROVE  Distinct(values) \in Seq(T)
<1> DEFINE each == [i \in DOMAIN values |->
             IF \E j \in 1 .. i - 1 : values[j] = values[i] THEN <<>> ELSE <<values[i]>>]
<1>1. ASSUME NEW i \in DOMAIN values
      PROVE  each[i] \in Seq(T)
  <2>1. values[i] \in T
    OBVIOUS
  <2> QED
    BY <2>1
<1>2. each \in Seq(Seq(T))
  <2>1. Len(values) \in Nat /\ DOMAIN values = 1 .. Len(values)
    OBVIOUS
  <2> HIDE DEF each
  <2>2. each = [i \in DOMAIN values |-> each[i]]
    BY DEF each
  <2> QED
    BY <1>1, <2>1, <2>2
<1> QED
  BY <1>2, FlattenFact DEF Distinct

LEMMA KeysSequence ==
  ASSUME NEW n \in DOMAIN Map, NEW profile \in DOMAIN Map[n]
  PROVE  IsSequence(Keys(Map[n][profile]))
<1> DEFINE mapping == Map[n][profile]
           T == Range(mapping.names) \cup {mapping.oid, mapping.friendly_name}
<1>1. mapping.names \in Seq(T)
  BY MapAssumption, SequenceBack
<1>2. Optional(mapping.oid) \in Seq(T) /\ Optional(mapping.friendly_name) \in Seq(T)
  <2>1. mapping.oid \in T /\ mapping.friendly_name \in T
    OBVIOUS
  <2> HIDE DEF T, mapping
  <2> QED
    BY <2>1 DEF Optional
<1>3. Keys(mapping) \in Seq(T)
  <2> HIDE DEF T
  <2> QED
    BY <1>1, <1>2 DEF Keys
<1> QED
  BY <1>3, SequenceOf

(* The values an internal name gets are those of its external names.       *)
LEMMA CollectedFact ==
  ASSUME NEW mapping, IsSequence(Keys(mapping)), NEW external, NEW T,
         \A k \in Range(Keys(mapping)) \cap DOMAIN external : external[k] \in Seq(T)
  PROVE  Collected(mapping, external) \in Seq(T)
<1> DEFINE keys == Keys(mapping)
           each == [i \in DOMAIN keys |-> Values(external, keys[i])]
<1>1. ASSUME NEW i \in DOMAIN keys
      PROVE  each[i] \in Seq(T)
  <2>1. keys[i] \in Range(keys)
    BY DEF Range
  <2>2. Values(external, keys[i]) \in Seq(T)
    BY <2>1 DEF Values
  <2> HIDE DEF keys
  <2> QED
    BY <2>2
<1>2. each \in Seq(Seq(T))
  <2>1. Len(keys) \in Nat /\ DOMAIN keys = 1 .. Len(keys)
    BY DEF IsSequence
  <2> HIDE DEF keys
  <2> QED
    BY <1>1, <2>1
<1>3. FlattenSeq(each) \in Seq(T)
  BY <1>2, FlattenFact
<1> QED
  BY <1>3, DistinctFact DEF Collected

(* Under an external name are the values of an attribute of that name.     *)
LEMMA ExternalFact ==
  ASSUME NEW attributes, Parsed(attributes), NEW k \in DOMAIN External(attributes)
  PROVE  \E i \in DOMAIN attributes :
           k \in NamesOf(attributes[i]) /\ External(attributes)[k] = attributes[i].values
<1> DEFINE with == {i \in DOMAIN attributes : attributes[i].values # <<>>}
           named == {i \in with : k \in NamesOf(attributes[i])}
<1>1. External(attributes)[k] = attributes[Max(named)].values /\ named # {}
  BY DEF External
<1>2. Len(attributes) \in Nat /\ named \subseteq 1 .. Len(attributes)
  BY DEF Parsed, IsSequence
<1>3. Max(named) \in named
  <2> HIDE DEF named
  <2> QED
    BY <1>1, <1>2, MaxIn
<1> QED
  BY <1>1, <1>3

(* What is passed through the map is never one of its attributes.          *)
LEMMA PassedApart ==
  ASSUME NEW internal, NEW attributes, NEW n \in DOMAIN Map
  PROVE  n \notin DOMAIN Passed(internal, attributes)
<1> SUFFICES ASSUME n \in DOMAIN Passed(internal, attributes) PROVE FALSE
  OBVIOUS
<1>1. PICK i \in DOMAIN attributes :
        n = PassedName(attributes[i]) /\ Passable(internal, attributes[i])
  BY DEF Passed
<1>2. n \notin LowerNames(DOMAIN Map)
  BY <1>1 DEF Passable
<1>3. Lower(n) = n
  BY <1>1, LowerLower DEF PassedName
<1> QED
  BY <1>2, <1>3 DEF LowerNames

(* So an attribute of the map has values that the provider asserted.       *)
LEMMA SamlAsserted ==
  ASSUME NEW b \in DOMAIN Backends, Backends[b].protocol = "saml",
         NEW response, WellFormed(b, response), Authenticated(response) # NoValue,
         NEW who, who.backend = b, who.response = response, NEW n \in DOMAIN Map,
         NEW attrs, attrs = SamlAttributes(Backends[b], ConsumedAttributes(Backends[b], response)),
         n \in DOMAIN attrs
  PROVE  attrs[n] \in Seq(AssertedBy(who, n))
<1> DEFINE attributes == ConsumedAttributes(Backends[b], response)
           external == External(attributes)
           mapped == ToInternal("saml", external)
           keys == Keys(Map[n]["saml"])
<1>1. Parsed(attributes)
  <2>1. IsSequence(response) /\ \A i \in DOMAIN response : Parsed(response[i].attributes)
    BY DEF WellFormed, Parsed
  <2> QED
    BY <2>1, ConsumedParsed
<1>2. n \in DOMAIN mapped /\ attrs[n] = mapped[n]
  <2>1. attrs \in {mapped, Override(mapped, Passed(mapped, attributes))}
    BY DEF SamlAttributes
  <2>2. n \notin DOMAIN Passed(mapped, attributes)
    BY PassedApart
  <2> HIDE DEF mapped, attributes
  <2> QED
    BY <2>1, <2>2 DEF Override
<1>3. n \in Mapped("saml") /\ mapped[n] = Collected(Map[n]["saml"], external)
  BY <1>2 DEF ToInternal
<1>4. ASSUME NEW k \in Range(keys) \cap DOMAIN external
      PROVE  external[k] \in Seq(AssertedBy(who, n))
  <2>1. PICK i \in DOMAIN attributes :
          k \in NamesOf(attributes[i]) /\ external[k] = attributes[i].values
    BY <1>1, ExternalFact
  <2>2. k \in {attributes[i].name, attributes[i].friendly_name}
    BY <2>1 DEF NamesOf
  <2>3. Range(attributes[i].values) \subseteq AssertedBy(who, n)
    <3>1. AssertedBy(who, n) =
            UNION {Range(attributes[j].values) : j \in {l \in DOMAIN attributes :
                     Range(keys) \cap {attributes[l].name, attributes[l].friendly_name} # {}}}
      BY <1>3 DEF AssertedBy
    <3> HIDE DEF attributes, keys
    <3> QED
      BY <1>4, <2>2, <3>1
  <2>4. IsSequence(attributes[i].values)
    BY <1>1 DEF Parsed
  <2> QED
    BY <2>1, <2>3, <2>4, SequenceBack
<1>5. IsSequence(keys)
  BY <1>3, KeysSequence DEF Mapped
<1>6. Collected(Map[n]["saml"], external) \in Seq(AssertedBy(who, n))
  <2> HIDE DEF external
  <2> QED
    BY <1>4, <1>5, CollectedFact
<1> QED
  BY <1>2, <1>3, <1>6

LEMMA OidcAsserted ==
  ASSUME NEW b \in DOMAIN Backends, Backends[b].protocol # "saml",
         NEW response, WellFormed(b, response),
         NEW who, who.backend = b, who.response = response,
         NEW n \in DOMAIN ToInternal("openid", response.extra)
  PROVE  ToInternal("openid", response.extra)[n] \in Seq(AssertedBy(who, n))
<1> DEFINE extra == response.extra
           keys == Keys(Map[n]["openid"])
<1>1. /\ n \in Mapped("openid")
      /\ ToInternal("openid", extra)[n] = Collected(Map[n]["openid"], extra)
  BY DEF ToInternal
<1>2. ASSUME NEW k \in Range(keys) \cap DOMAIN extra
      PROVE  extra[k] \in Seq(AssertedBy(who, n))
  <2>1. IsSequence(extra[k])
    BY DEF WellFormed
  <2>2. Range(extra[k]) \subseteq AssertedBy(who, n)
    <3>1. AssertedBy(who, n) = UNION {Range(Values(extra, l)) : l \in Range(keys)}
      BY <1>1 DEF AssertedBy
    <3> HIDE DEF extra, keys
    <3> QED
      BY <1>2, <3>1 DEF Values
  <2> QED
    BY <2>1, <2>2, SequenceBack
<1>3. IsSequence(keys)
  BY <1>1, KeysSequence DEF Mapped
<1>4. Collected(Map[n]["openid"], extra) \in Seq(AssertedBy(who, n))
  BY <1>2, <1>3, CollectedFact
<1> QED
  BY <1>1, <1>4

(* A response enters the chain with what its provider asserted.            *)
LEMMA ResponseGood ==
  ASSUME NEW c, NEW b \in DOMAIN Backends, NEW response, WellFormed(b, response),
         NEW f, NEW requester \in RequestersAt(f),
         NEW who \in Sources, who.backend = b, who.response = response,
         Response(b, response, requester) # Failed
  PROVE  DataGood(c, f, who, Response(b, response, requester), 0)
<1> DEFINE d == Response(b, response, requester)
<1>1. /\ DOMAIN d = DataFields /\ d.requester = requester /\ d.shaped_by = NoValue
      /\ \A n \in DOMAIN Map \cap DOMAIN d.attributes : d.attributes[n] \in Seq(AssertedBy(who, n))
  <2>1. CASE Backends[b].protocol = "saml"
    <3> DEFINE attrs == SamlAttributes(Backends[b], ConsumedAttributes(Backends[b], response))
               a == Authenticated(response)
    <3>1. d = SamlResponse(Backends[b], response, requester)
      BY <2>1 DEF Response
    <3>2. /\ a # NoValue
          /\ d = [attributes |-> attrs, subject_id |-> SelectedSubject(Backends[b], a, attrs),
                  subject_type |-> SubjectType(a.format), issuer |-> a.issuer,
                  requester |-> requester, shaped_by |-> NoValue]
      BY <3>1 DEF SamlResponse
    <3>3. \A n \in DOMAIN Map \cap DOMAIN attrs : attrs[n] \in Seq(AssertedBy(who, n))
      <4> HIDE DEF attrs
      <4> QED
        BY <2>1, <3>2, SamlAsserted DEF attrs
    <3> HIDE DEF attrs, a, d
    <3> QED
      BY <3>2, <3>3 DEF DataFields
  <2>2. CASE Backends[b].protocol # "saml"
    <3>1. d = [attributes |-> ToInternal("openid", response.extra), subject_id |-> response.sub,
               subject_type |-> "public", issuer |-> response.issuer,
               requester |-> requester, shaped_by |-> NoValue]
      BY <2>2 DEF Response, OidcResponse
    <3> HIDE DEF d
    <3> QED
      BY <2>2, <3>1, OidcAsserted DEF DataFields
  <2> QED
    BY <2>1, <2>2
<1> HIDE DEF d
<1>2. Accounted(c, who, d, 0)
  <2>1. \A n, v : ~Withheld(c, 0, d, n, v)
    BY DEF Withheld
  <2> QED
    BY <1>1, <2>1, SequenceOf DEF Accounted
<1>3. Shaped(c, f, d, 0)
  BY <1>1, ReleaseAssumption DEF Shaped
<1>4. Paired(c, who, d, 0)
  BY DEF Paired
<1>5. Originates(c, who, d, 0)
  <2>1. /\ Received(who).attributes = d.attributes /\ Received(who).issuer = d.issuer
        /\ SameSubject(d, Received(who))
    BY ReceivedSame DEF d, Received
  <2>2. who \in Accepted
    BY DEF Accepted, RequestersAt
  <2> QED
    BY <2>1, <2>2 DEF Originates, SameSubject
<1>6. Identified(c, who, d, 0)
  BY DEF Identified
<1>7. DataGood(c, f, who, d, 0)
  BY <1>1, <1>2, <1>3, <1>4, <1>5, <1>6 DEF DataGood, DataFields
<1> QED
  BY <1>7 DEF d

----------------------------------------------------------------------------
(* The cookie                                                              *)

SessionFields ==
  {"frontend", "requester", "format", "publisher", "stash", "pending", "suspended"}

LEMMA EmptyGood ==
  ASSUME NEW c
  PROVE  SessionGood(c, EmptySession)
BY DEF SessionGood, EmptySession

LEMMA FieldsOf ==
  ASSUME NEW c, NEW st, SessionGood(c, st)
  PROVE  DOMAIN st = SessionFields
BY DEF SessionGood, EmptySession, SessionFields

(* An accepted request leaves a good cookie.                               *)
LEMMA SamlStarts ==
  ASSUME NEW c, NEW st, SessionGood(c, st), NEW l \in Logins,
         Frontends[RequestOf[l].frontend].protocol = "saml", FormatOf(l) # NoValue
  PROVE  SessionGood(c, Started(SamlStashed(st, l, FormatOf(l)), l))
<1> DEFINE q == RequestOf[l]
           new == Started(SamlStashed(st, l, FormatOf(l)), l)
<1>1. q.frontend \in DOMAIN Frontends /\ q.requester \in RequestersAt(q.frontend)
  BY ReleaseAssumption DEF RequestersAt
<1>2. DOMAIN st = SessionFields
  BY FieldsOf
<1>3. /\ DOMAIN new = SessionFields
      /\ new.frontend = q.frontend /\ new.requester = q.requester
      /\ new.pending = [st.pending EXCEPT ![q.backend] = l]
      /\ new.stash = [st.stash EXCEPT ![q.frontend] = [login |-> l, format |-> FormatOf(l)]]
      /\ new.format = FormatOf(l) /\ new.publisher = l
      /\ new.suspended = st.suspended
  BY <1>2 DEF Started, SamlStashed, SessionFields
<1> HIDE DEF new
<1>4. DOMAIN new = DOMAIN EmptySession
  BY <1>3 DEF EmptySession, SessionFields
<1>5. /\ DOMAIN new.stash = DOMAIN Frontends /\ DOMAIN new.pending = DOMAIN Backends
      /\ \A b \in DOMAIN Backends : new.pending[b] \in Logins \cup {NoLogin}
  BY <1>3 DEF SessionGood
<1>6. \A f \in DOMAIN Frontends : new.stash[f] # NoLogin => StashGood(f, new.stash[f])
  <2>1. StashGood(q.frontend, [login |-> l, format |-> FormatOf(l)])
    BY DEF StashGood
  <2> QED
    BY <1>3, <2>1 DEF SessionGood
<1>7. SessionGood(c, new)
  BY <1>1, <1>3, <1>4, <1>5, <1>6 DEF SessionGood
<1> QED
  BY <1>7 DEF new

LEMMA OidcStarts ==
  ASSUME NEW c, NEW st, SessionGood(c, st), NEW l \in Logins,
         Frontends[RequestOf[l].frontend].protocol = "oidc"
  PROVE  SessionGood(c, Started(OidcStashed(st, l), l))
<1> DEFINE q == RequestOf[l]
           stash == [login |-> l, client |-> registration[q.requester]]
           new == Started(OidcStashed(st, l), l)
<1>1. q.frontend \in DOMAIN Frontends /\ q.requester \in RequestersAt(q.frontend)
  BY ReleaseAssumption DEF RequestersAt
<1>2. DOMAIN st = SessionFields
  BY FieldsOf
<1>3. /\ DOMAIN new = SessionFields
      /\ new.frontend = q.frontend /\ new.requester = q.requester
      /\ new.pending = [st.pending EXCEPT ![q.backend] = l]
      /\ new.stash = [st.stash EXCEPT ![q.frontend] = stash]
      /\ new.format = st.format /\ new.publisher = st.publisher
      /\ new.suspended = st.suspended
  BY <1>2 DEF Started, OidcStashed, SessionFields
<1>4. StashGood(q.frontend, stash)
  BY DEF StashGood
<1> HIDE DEF new, stash
<1>5. DOMAIN new = DOMAIN EmptySession
  BY <1>3 DEF EmptySession, SessionFields
<1>6. /\ DOMAIN new.stash = DOMAIN Frontends /\ DOMAIN new.pending = DOMAIN Backends
      /\ \A b \in DOMAIN Backends : new.pending[b] \in Logins \cup {NoLogin}
  BY <1>3 DEF SessionGood
<1>7. \A f \in DOMAIN Frontends : new.stash[f] # NoLogin => StashGood(f, new.stash[f])
  BY <1>3, <1>4 DEF SessionGood
<1>8. SessionGood(c, new)
  BY <1>1, <1>3, <1>5, <1>6, <1>7 DEF SessionGood
<1> QED
  BY <1>8 DEF new

(* The backend's login is answered, a suspension set or taken.             *)
LEMMA PendingTaken ==
  ASSUME NEW c, NEW st, SessionGood(c, st), NEW b
  PROVE  SessionGood(c, [st EXCEPT !.pending[b] = NoLogin])
<1> DEFINE new == [st EXCEPT !.pending[b] = NoLogin]
<1>1. DOMAIN st = SessionFields
  BY FieldsOf
<1>2. /\ DOMAIN new = DOMAIN st
      /\ \A field \in SessionFields \ {"pending"} : new[field] = st[field]
      /\ new.pending = [st.pending EXCEPT ![b] = NoLogin]
  BY <1>1 DEF SessionFields
<1> HIDE DEF new
<1>3. /\ new.frontend = st.frontend /\ new.requester = st.requester /\ new.format = st.format
      /\ new.publisher = st.publisher /\ new.stash = st.stash /\ new.suspended = st.suspended
  BY <1>2 DEF SessionFields
<1>4. SessionGood(c, new)
  BY <1>2, <1>3 DEF SessionGood
<1> QED
  BY <1>4 DEF new

LEMMA SuspensionSet ==
  ASSUME NEW c, NEW st, SessionGood(c, st), NEW s, s # NoSuspension => SuspensionGood(c, s)
  PROVE  SessionGood(c, [st EXCEPT !.suspended = s])
<1> DEFINE new == [st EXCEPT !.suspended = s]
<1>1. DOMAIN st = SessionFields
  BY FieldsOf
<1>2. /\ DOMAIN new = DOMAIN st /\ new.suspended = s
      /\ new.frontend = st.frontend /\ new.requester = st.requester /\ new.format = st.format
      /\ new.publisher = st.publisher /\ new.stash = st.stash /\ new.pending = st.pending
  BY <1>1 DEF SessionFields
<1> HIDE DEF new
<1>3. SessionGood(c, new)
  BY <1>2 DEF SessionGood
<1> QED
  BY <1>3 DEF new

----------------------------------------------------------------------------
(* The end of a response                                                   *)

AnswersGood ==
  /\ IsFiniteSet(answers) /\ Cardinality(answers) <= MaxAnswers
  /\ \A a \in answers : AnswerGood(chain, a)

(* One more answer, and as many as before.                                 *)
LEMMA AnswerAdded ==
  ASSUME IInv, Cardinality(answers) < MaxAnswers, NEW a, AnswerGood(chain, a),
         chain' = chain, answers' = answers \cup {a}
  PROVE  AnswersGood'
<1>1. IsFiniteSet(answers) /\ Cardinality(answers) \in Nat
  BY FS_CardinalityType DEF IInv
<1>2. /\ IsFiniteSet(answers \cup {a})
      /\ Cardinality(answers \cup {a}) <= Cardinality(answers) + 1
  BY <1>1, FS_AddElement
<1>3. Cardinality(answers \cup {a}) \in Nat
  BY <1>2, FS_CardinalityType
<1>4. Cardinality(answers \cup {a}) <= MaxAnswers
  BY <1>1, <1>2, <1>3, ReleaseAssumption
<1>5. \A x \in answers \cup {a} : AnswerGood(chain, x)
  BY DEF IInv
<1> QED
  BY <1>2, <1>4, <1>5 DEF AnswersGood

LEMMA AnswersSame ==
  ASSUME IInv, chain' = chain, UNCHANGED answers
  PROVE  AnswersGood'
BY DEF IInv, AnswersGood

(* What either frontend renders of a good response is a good answer.       *)
LEMMA SamlAnswer ==
  ASSUME NEW c, NEW f \in DOMAIN Frontends, Frontends[f].protocol = "saml",
         NEW stash, StashGood(f, stash), NEW who, NEW d, DataGood(c, f, who, d, Len(c)),
         NEW kept, kept.subject_id = d.subject_id, NEW fresh, NEW released
  PROVE  AnswerGood(c, Answer(f, stash, who, d, stash.format,
                              NameIdValue(kept, stash.format, fresh), released))
<1> DEFINE a == Answer(f, stash, who, d, stash.format,
                       NameIdValue(kept, stash.format, fresh), released)
<1>1. /\ a.login = stash.login /\ a.frontend = f /\ a.who = who /\ a.data = d
      /\ a.format = stash.format /\ a.name_id = NameIdValue(kept, stash.format, fresh)
  BY DEF Answer
<1> HIDE DEF a
<1>2. a.login \in Logins /\ f = RequestOf[a.login].frontend /\ a.format = FormatOf(a.login)
  BY <1>1 DEF StashGood
<1>3. a.format # "transient" /\ d.subject_id # NoValue => a.name_id = d.subject_id
  BY <1>1 DEF NameIdValue, DownstreamSubject
<1>4. AnswerGood(c, a)
  BY <1>1, <1>2, <1>3 DEF AnswerGood
<1> QED
  BY <1>4 DEF a

LEMMA OidcAnswer ==
  ASSUME NEW c, NEW f \in DOMAIN Frontends, Frontends[f].protocol = "oidc",
         NEW stash, StashGood(f, stash), NEW who, NEW d, DataGood(c, f, who, d, Len(c)),
         NEW name_id
  PROVE  AnswerGood(c, Answer(f, stash, who, d, "sub", name_id, OidcRelease(d)))
<1> DEFINE a == Answer(f, stash, who, d, "sub", name_id, OidcRelease(d))
<1>1. /\ a.login = stash.login /\ a.frontend = f /\ a.who = who /\ a.data = d
      /\ a.format = "sub" /\ a.released = OidcRelease(d)
  BY DEF Answer
<1> HIDE DEF a
<1>2. a.login \in Logins /\ f = RequestOf[a.login].frontend
  BY <1>1 DEF StashGood
<1>3. AnswerGood(c, a)
  BY <1>1, <1>2 DEF AnswerGood
<1> QED
  BY <1>3 DEF a

LEMMA RenderGood ==
  ASSUME IInv, chain' = chain, Cardinality(answers) < MaxAnswers,
         NEW st, SessionGood(chain, st), NEW f \in DOMAIN Frontends, NEW who,
         NEW d, DataGood(chain, f, who, d, Len(chain)), Render(st, f, who, d)
  PROVE  SessionGood(chain, session') /\ minted' \in Nat /\ AnswersGood'
<1>0. minted \in Nat
  BY DEF IInv
<1>1. CASE st.stash[f] = NoLogin
  <2>1. session' = st /\ UNCHANGED <<minted, answers>>
    BY <1>1 DEF Render
  <2> QED
    BY <1>0, <2>1, AnswersSame
<1>2. CASE st.stash[f] # NoLogin /\ Frontends[f].protocol = "saml"
  <2> DEFINE stash == st.stash[f]
             sp == RequestOf[stash.login].requester
             kept == [d EXCEPT !.attributes = Restricted(Frontends[f], sp, @)]
             name_id == NameIdValue(kept, stash.format, Fresh)
             released == SamlRelease(Frontends[f], sp, kept.attributes)
             a == Answer(f, stash, who, d, stash.format, name_id, released)
  <2>1. RenderSaml(st, f, who, d)
    BY <1>2 DEF Render
  <2>2. StashGood(f, stash)
    BY <1>2 DEF SessionGood
  <2>3. AnswerGood(chain, a)
    <3>1. kept.subject_id = d.subject_id
      BY DEF DataGood
    <3> HIDE DEF stash, kept, released
    <3> QED
      BY <1>2, <2>2, <3>1, SamlAnswer
  <2>4. \/ session' = st /\ UNCHANGED <<minted, answers>>
        \/ /\ session' = EmptySession /\ minted' \in {minted, minted + 1}
           /\ answers' = answers \cup {a}
    BY <2>1 DEF RenderSaml
  <2> HIDE DEF a
  <2> QED
    BY <1>0, <2>3, <2>4, AnswersSame, AnswerAdded, EmptyGood
<1>3. CASE st.stash[f] # NoLogin /\ Frontends[f].protocol = "oidc"
  <2> DEFINE stash == st.stash[f]
             a == Answer(f, stash, who, d, "sub", DownstreamSubject(d), OidcRelease(d))
  <2>1. RenderOidc(st, f, who, d)
    BY <1>3 DEF Render
  <2>2. StashGood(f, stash)
    BY <1>3 DEF SessionGood
  <2>3. AnswerGood(chain, a)
    <3> HIDE DEF stash
    <3> QED
      BY <1>3, <2>2, OidcAnswer
  <2>4. /\ session' = EmptySession /\ UNCHANGED minted
        /\ answers' = answers \/ answers' = answers \cup {a}
    BY <2>1 DEF RenderOidc
  <2> HIDE DEF a
  <2> QED
    BY <1>0, <2>3, <2>4, AnswersSame, AnswerAdded, EmptyGood
<1> QED
  BY <1>1, <1>2, <1>3, ReleaseAssumption

(* Whatever position the chain is entered at, and wherever it ends.        *)
LEMMA FinishGood ==
  ASSUME IInv, chain' = chain, Cardinality(answers) < MaxAnswers,
         NEW st, SessionGood(chain, st), NEW f \in DOMAIN Frontends, NEW who,
         NEW from \in 1 .. Len(chain) + 1,
         NEW d, DataGood(chain, f, who, d, from - 1), FinishResponse(st, f, who, d, from)
  PROVE  SessionGood(chain, session') /\ minted' \in Nat /\ AnswersGood'
<1>0. /\ chain \in Chains /\ \A i \in DOMAIN chain : Built(chain[i])
      /\ minted \in Nat /\ Len(chain) \in Nat /\ DOMAIN chain = 1 .. Len(chain)
  BY ReleaseAssumption DEF IInv, IsSequence
<1> DEFINE ctx == [frontend |-> f, format |-> st.format, publisher |-> st.publisher]
           out(stop) == ProcessedBy(chain, from, stop - 1, d, ctx)
           suspension(stop) == [frontend |-> f, who |-> who, data |-> out(stop),
                                next |-> stop + 1]
<1>1. PICK stop \in Stops(from) :
        CASE Ended(out(stop)) -> session' = st /\ UNCHANGED <<minted, answers>>
          [] ~Ended(out(stop)) /\ stop <= Len(chain) ->
               /\ session' = [st EXCEPT !.suspended = suspension(stop)]
               /\ UNCHANGED <<minted, answers>>
          [] OTHER -> Render(st, f, who, out(stop))
  BY Zenon DEF FinishResponse
<1>2. /\ stop \in Nat /\ from <= stop /\ stop <= Len(chain) + 1
      /\ stop <= Len(chain) => chain[stop].kind = "stepup"
  BY <1>0 DEF Stops
<1>3. ContextGood(ctx)
  BY DEF SessionGood, ContextGood
<1>4. ~Ended(out(stop)) => DataGood(chain, f, who, out(stop), stop - 1)
  <2> DEFINE to == stop - 1
  <2>1. to \in Nat /\ from - 1 <= to /\ to <= Len(chain) /\ from \in Nat \ {0}
    BY <1>0, <1>2
  <2> HIDE DEF to, ctx
  <2>2. ~Ended(ProcessedBy(chain, from, to, d, ctx)) =>
          DataGood(chain, f, who, ProcessedBy(chain, from, to, d, ctx), to)
    BY <1>0, <1>3, <2>1, ChainSteps
  <2> QED
    BY <2>2 DEF to
<1> DEFINE data == out(stop)
           s == suspension(stop)
<1>5. data = out(stop) /\ s = [frontend |-> f, who |-> who, data |-> data, next |-> stop + 1]
  OBVIOUS
<1> HIDE DEF ctx, data, s
<1>6. CASE Ended(data)
  <2>1. session' = st /\ UNCHANGED <<minted, answers>>
    BY <1>1, <1>5, <1>6
  <2> QED
    BY <1>0, <2>1, AnswersSame
<1>7. CASE ~Ended(data) /\ stop <= Len(chain)
  <2>1. session' = [st EXCEPT !.suspended = s] /\ UNCHANGED <<minted, answers>>
    BY <1>1, <1>5, <1>7 DEF s
  <2>2. SuspensionGood(chain, s)
    <3>1. /\ s.frontend = f /\ s.who = who /\ s.data = data /\ s.next = stop + 1
          /\ s.next - 1 = stop /\ s.next - 2 = stop - 1
      BY <1>2, <1>5
    <3>2. s.next \in 2 .. Len(chain) + 1 /\ chain[s.next - 1].kind = "stepup"
      BY <1>0, <1>2, <1>7, <3>1
    <3>3. DataGood(chain, s.frontend, s.who, s.data, s.next - 2)
      BY <1>4, <1>5, <1>7, <3>1
    <3> QED
      BY <3>1, <3>2, <3>3 DEF SuspensionGood
  <2> QED
    BY <1>0, <2>1, <2>2, SuspensionSet, AnswersSame
<1>8. CASE ~Ended(data) /\ ~(stop <= Len(chain))
  <2>1. Render(st, f, who, data)
    BY <1>1, <1>5, <1>8
  <2>2. stop - 1 = Len(chain)
    BY <1>0, <1>2, <1>8
  <2>3. DataGood(chain, f, who, data, Len(chain))
    BY <1>4, <1>5, <1>8, <2>2
  <2> QED
    BY <2>1, <2>3, RenderGood
<1> QED
  BY <1>6, <1>7, <1>8

----------------------------------------------------------------------------
(* The invariant is inductive                                              *)

(* The start of the proxy, whichever chain is configured.                  *)
LEMMA InitIInv == Init => IInv
<1> SUFFICES ASSUME Init PROVE IInv
  OBVIOUS
<1>1. chain \in Chains /\ \A i \in DOMAIN chain : Built(chain[i])
  BY DEF Init
<1>2. registration \in [Clients -> 0 .. MaxRegistrations] /\ minted \in Nat
  BY ReleaseAssumption DEF Init
<1>3. SessionGood(chain, session)
  BY EmptyGood DEF Init
<1>4. answers = {} /\ IsFiniteSet(answers) /\ Cardinality(answers) <= MaxAnswers
  BY FS_EmptySet, ReleaseAssumption DEF Init
<1> QED
  BY <1>1, <1>2, <1>3, <1>4 DEF IInv

LEMMA KeepsIInv ==
  ASSUME IInv, chain' = chain, SessionGood(chain, session'), AnswersGood',
         registration' \in [Clients -> 0 .. MaxRegistrations], minted' \in Nat
  PROVE  IInv'
BY DEF IInv, AnswersGood

LEMMA SamlRequestKeeps ==
  ASSUME IInv, NEW l \in Logins, SamlRequest(l)
  PROVE  IInv'
<1>1. /\ chain' = chain /\ UNCHANGED <<registration, minted, answers>>
      /\ Frontends[RequestOf[l].frontend].protocol = "saml"
      /\ \/ session' = session
         \/ FormatOf(l) # NoValue /\ session' = Started(SamlStashed(session, l, FormatOf(l)), l)
  BY DEF SamlRequest, Reject, FormatOf
<1>2. SessionGood(chain, session')
  BY <1>1, SamlStarts DEF IInv
<1> QED
  BY <1>1, <1>2, AnswersSame, KeepsIInv DEF IInv

LEMMA OidcRequestKeeps ==
  ASSUME IInv, NEW l \in Logins, OidcRequest(l)
  PROVE  IInv'
<1>1. /\ chain' = chain /\ UNCHANGED <<registration, minted, answers>>
      /\ Frontends[RequestOf[l].frontend].protocol = "oidc"
      /\ session' = Started(OidcStashed(session, l), l)
  BY DEF OidcRequest
<1>2. SessionGood(chain, session')
  BY <1>1, OidcStarts DEF IInv
<1> QED
  BY <1>1, <1>2, AnswersSame, KeepsIInv DEF IInv

LEMMA ReregisterKeeps ==
  ASSUME IInv, NEW client \in Clients, Reregister(client)
  PROVE  IInv'
<1>1. /\ UNCHANGED <<chain, session, minted, answers>>
      /\ registration' \in [Clients -> 0 .. MaxRegistrations]
  BY ReleaseAssumption DEF Reregister, IInv
<1> QED
  BY <1>1, AnswersSame, KeepsIInv DEF IInv

LEMMA RespondKeeps ==
  ASSUME IInv, NEW b \in DOMAIN Backends, NEW r \in Responses[b], Respond(b, r)
  PROVE  IInv'
<1> DEFINE d == Response(b, r.response, session.requester)
           who == Who(b, r)
           st == [session EXCEPT !.pending[b] = NoLogin]
<1>1. /\ session.pending[b] # NoLogin /\ Cardinality(answers) < MaxAnswers
      /\ UNCHANGED <<chain, registration>>
  BY DEF Respond
<1>2. CASE d = Failed
  <2>1. UNCHANGED <<session, minted, answers>>
    BY <1>2 DEF Respond
  <2> QED
    BY <1>1, <2>1, AnswersSame, KeepsIInv DEF IInv
<1>3. CASE d # Failed
  <2>1. FinishResponse(st, session.frontend, who, d, 1)
    BY <1>3 DEF Respond
  <2>2. /\ session.frontend \in DOMAIN Frontends
        /\ session.requester \in RequestersAt(session.frontend)
    BY <1>1 DEF IInv, SessionGood
  <2>3. WellFormed(b, r.response)
    BY ResponseAssumption
  <2>4. who.backend = b /\ who.response = r.response /\ who \in Sources
    BY DEF Who, Sources
  <2>5. DataGood(chain, session.frontend, who, d, 0)
    <3> HIDE DEF who
    <3> QED
      BY <1>3, <2>2, <2>3, <2>4, ResponseGood
  <2>6. SessionGood(chain, st)
    BY PendingTaken DEF IInv
  <2>7. 1 \in 1 .. Len(chain) + 1 /\ 1 - 1 = 0
    BY ReleaseAssumption DEF IInv, IsSequence
  <2>8. SessionGood(chain, session') /\ minted' \in Nat /\ AnswersGood'
    <3> HIDE DEF who, d, st
    <3> QED
      BY <1>1, <2>1, <2>2, <2>5, <2>6, <2>7, FinishGood
  <2> QED
    BY <1>1, <2>8, KeepsIInv DEF IInv
<1> QED
  BY <1>2, <1>3

LEMMA ResumeKeeps ==
  ASSUME IInv, ResumeResponse
  PROVE  IInv'
<1> DEFINE s == session.suspended
           st == [session EXCEPT !.suspended = NoSuspension]
           d(source) == Assured(chain[s.next - 1], s.data, source)
<1>1. /\ s # NoSuspension /\ Cardinality(answers) < MaxAnswers
      /\ UNCHANGED <<chain, registration>>
  BY DEF ResumeResponse
<1>2. PICK source \in Assurances : FinishResponse(st, s.frontend, s.who, d(source), s.next)
  BY DEF ResumeResponse
<1>3. SuspensionGood(chain, s)
  BY <1>1 DEF IInv, SessionGood
<1>4. SessionGood(chain, st)
  BY SuspensionSet DEF IInv
<1>5. chain \in Chains /\ DOMAIN chain = 1 .. Len(chain) /\ Len(chain) \in Nat
  BY ReleaseAssumption DEF IInv, IsSequence
<1> DEFINE data == d(source)
<1> HIDE DEF s, st
<1>6. s.frontend \in DOMAIN Frontends /\ s.next \in 2 .. Len(chain) + 1
  BY <1>3 DEF SuspensionGood
<1>7. DataGood(chain, s.frontend, s.who, data, s.next - 1)
  <2> DEFINE k == s.next - 2
  <2>1. k \in Nat /\ k + 1 = s.next - 1 /\ k + 1 \in DOMAIN chain
    BY <1>5, <1>6
  <2>2. chain[k + 1].kind = "stepup" /\ DataGood(chain, s.frontend, s.who, s.data, k)
    BY <1>3, <2>1 DEF SuspensionGood
  <2> HIDE DEF k
  <2>3. DataGood(chain, s.frontend, s.who, Assured(chain[k + 1], s.data, source), k + 1)
    BY <1>5, <1>6, <2>1, <2>2, AssuredStep
  <2> QED
    BY <2>1, <2>3
<1> HIDE DEF data
<1>8. SessionGood(chain, session') /\ minted' \in Nat /\ AnswersGood'
  <2>1. s.next \in 1 .. Len(chain) + 1
    BY <1>5, <1>6
  <2>2. FinishResponse(st, s.frontend, s.who, data, s.next)
    BY <1>2 DEF data
  <2> QED
    BY <1>1, <1>4, <1>6, <1>7, <2>1, <2>2, FinishGood
<1> QED
  BY <1>1, <1>8, KeepsIInv DEF IInv

LEMMA NextIInv == IInv /\ [Next]_vars => IInv'
<1> SUFFICES ASSUME IInv, [Next]_vars PROVE IInv'
  OBVIOUS
<1>1. ASSUME NEW l \in Logins, SamlRequest(l) \/ OidcRequest(l) PROVE IInv'
  BY <1>1, SamlRequestKeeps, OidcRequestKeeps
<1>2. ASSUME NEW client \in Clients, Reregister(client) PROVE IInv'
  BY <1>2, ReregisterKeeps
<1>3. ASSUME NEW b \in DOMAIN Backends, NEW r \in Responses[b], Respond(b, r) PROVE IInv'
  BY <1>3, RespondKeeps
<1>4. CASE ResumeResponse
  BY <1>4, ResumeKeeps
<1>5. CASE UNCHANGED vars
  <2>1. UNCHANGED <<chain, session, registration, minted, answers>>
    BY <1>5 DEF vars
  <2> QED
    BY <2>1, AnswersSame, KeepsIInv DEF IInv
<1> QED
  BY <1>1, <1>2, <1>3, <1>4, <1>5 DEF Next

(* At every moment the cookie, a suspended response and every answer are   *)
(* as the services passed so far leave them (Proxy::finish_response).      *)
THEOREM Invariance == Spec => []IInv
<1> QED
  BY InitIInv, NextIInv, PTL DEF Spec

----------------------------------------------------------------------------
(* What the invariant shows                                                *)

LEMMA IInvType == IInv => TypeOK
<1> SUFFICES ASSUME IInv PROVE TypeOK
  OBVIOUS
<1>1. SessionGood(chain, session)
  BY DEF IInv
<1>2. /\ DOMAIN session = DOMAIN EmptySession
      /\ session.frontend \in DOMAIN Frontends \cup {NoFrontend}
      /\ session.publisher \in Logins \cup {NoLogin}
      /\ \A b \in DOMAIN session.pending : session.pending[b] \in Logins \cup {NoLogin}
  BY <1>1 DEF SessionGood
<1>3. {session.publisher} \cup Range(session.pending) \subseteq Logins \cup {NoLogin}
  BY <1>2 DEF Range
<1>4. ASSUME NEW f \in DOMAIN Frontends, session.stash[f] # NoLogin
      PROVE  /\ session.stash[f].login \in Logins
             /\ Frontends[f].protocol = "saml" =>
                  session.stash[f].format \in Range(Frontends[f].name_id_formats)
  <2> DEFINE stash == session.stash[f]
             formats == Frontends[f].name_id_formats
  <2>1. StashGood(f, stash)
    BY <1>1, <1>4 DEF SessionGood
  <2> HIDE DEF stash
  <2>2. ASSUME Frontends[f].protocol = "saml"
        PROVE  stash.format \in Range(formats)
    <3>1. stash.format = OfferedFormat(Frontends[f], RequestOf[stash.login].format)
          /\ stash.format # NoValue
      BY <2>1, <2>2 DEF StashGood, FormatOf
    <3>2. Head(formats) \in Range(formats)
      <4>1. formats # <<>> /\ formats \in Seq(Range(formats))
        BY <2>2, ReleaseAssumption DEF IsSequence
      <4> HIDE DEF formats
      <4> QED
        BY <4>1
    <3> QED
      BY <3>1, <3>2 DEF OfferedFormat
  <2> QED
    BY <2>1, <2>2 DEF StashGood, stash
<1> QED
  BY <1>2, <1>3, <1>4 DEF IInv, TypeOK

LEMMA IInvForged == IInv => NothingForged
<1> SUFFICES ASSUME IInv, NEW a \in answers,
                    NEW n \in Authoritative \cap DOMAIN a.data.attributes
             PROVE  Range(a.data.attributes[n]) \subseteq AssertedBy(a.who, n)
  BY DEF NothingForged
<1>1. Accounted(chain, a.who, a.data, Len(chain))
  BY DEF IInv, AnswerGood, DataGood
<1>2. n \in DOMAIN Map /\ \A j \in 1 .. Len(chain) : ~Writes(chain[j], n)
  BY AuthoritativeAssumption, ReleaseAssumption DEF IInv, IsSequence
<1> QED
  BY <1>1, <1>2 DEF Accounted

LEMMA IInvAuthorized == RulesOfAsserted /\ IInv => AuthorizationHolds
<1> SUFFICES ASSUME RulesOfAsserted, IInv, NEW a \in answers, NEW i \in DOMAIN chain
             PROVE  AuthorizedBy(chain, i, a.who, a.data)
  BY DEF AuthorizationHolds
<1>1. i \in 1 .. Len(chain)
  BY ReleaseAssumption DEF IInv, IsSequence
<1> QED
  BY <1>1 DEF IInv, AnswerGood, DataGood

LEMMA ReleaseTrue ==
  ASSUME NEW d, NEW c \in OidcRelease(d),
         \/ c.name = Authority
         \/ /\ Authority \in Mapped("openid") /\ Map[Authority]["openid"].names # <<>>
            /\ c.name = Canonical("openid", Authority)
  PROVE  c.values = <<<<d.issuer>>>>
<1> DEFINE released == FromInternal("openid", d.attributes)
           enabled == Authority \in Mapped("openid") /\ Map[Authority]["openid"].names # <<>>
           names == IF enabled THEN {Canonical("openid", Authority)} ELSE {}
           own == [n \in names |-> <<<<d.issuer>>>>]
           others == Restrict(released, DOMAIN released \ (names \cup {Authority}))
           claims == Override(own, others)
<1>1. PICK n \in DOMAIN claims : c = [name |-> n, values |-> claims[n]]
  BY Zenon DEF OidcRelease
<1>2. c.name = n /\ c.values = claims[n]
  BY <1>1
<1>3. n \in names
  <2>1. n \in names \/ n \in DOMAIN others
    BY DEF Override
  <2>2. DOMAIN others = DOMAIN released \ (names \cup {Authority})
    BY DEF Restrict
  <2>3. n = Authority \/ (enabled /\ n = Canonical("openid", Authority))
    BY <1>2
  <2> HIDE DEF others
  <2> QED
    BY <2>1, <2>2, <2>3
<1>4. claims[n] = <<<<d.issuer>>>>
  <2> HIDE DEF others
  <2> QED
    BY <1>3 DEF Override
<1> QED
  BY <1>2, <1>4

LEMMA IInvAuthority == IInv => AuthorityTrue
<1> SUFFICES ASSUME IInv, NEW a \in answers, Frontends[a.frontend].protocol = "oidc"
             PROVE  \A c \in a.released :
                      \/ c.name = Authority
                      \/ /\ Authority \in Mapped("openid")
                         /\ Map[Authority]["openid"].names # <<>>
                         /\ c.name = Canonical("openid", Authority)
                      => c.values = <<<<a.data.issuer>>>>
  BY DEF AuthorityTrue
<1>1. a.released = OidcRelease(a.data)
  BY DEF IInv, AnswerGood
<1> QED
  BY <1>1, ReleaseTrue

(* A value there is none of is no value.                                   *)
NoValueApart == \A text : <<text>> # NoValue

LEMMA IInvShaped == NameIdLast /\ NoValueApart /\ IInv => NameIdShaped
<1> SUFFICES ASSUME NameIdLast, NoValueApart, IInv, NEW a \in answers, ShapedFor(a)
             PROVE  a.name_id = PairwiseSubject(a.data)
  BY DEF NameIdShaped
<1>1. /\ a.login \in Logins /\ a.frontend \in DOMAIN Frontends
      /\ a.format = "persistent" /\ a.data.shaped_by = a.login
  BY ReleaseAssumption DEF IInv, AnswerGood, ShapedFor
<1>2. Frontends[a.frontend].protocol = "saml"
  BY <1>1, ReleaseAssumption DEF IInv, AnswerGood
<1>3. /\ Shaped(chain, a.frontend, a.data, Len(chain))
      /\ a.format = FormatOf(a.login)
      /\ a.data.subject_id # NoValue => a.name_id = a.data.subject_id
  BY <1>1, <1>2 DEF IInv, AnswerGood, DataGood
<1>4. a.data.subject_id = PairwiseSubject(a.data)
  BY <1>1, <1>2, <1>3 DEF Shaped
<1>5. a.data.subject_id # NoValue
  BY <1>4 DEF PairwiseSubject, NoValueApart
<1> QED
  BY <1>3, <1>4, <1>5

(* What is behind a persistent NameID.                                     *)
LEMMA NameIdMade ==
  ASSUME IInv, NameIdLast, NoValueApart, PairwiseAlone,
         NEW i \in DOMAIN chain, chain[i].kind = "pairwiseid",
         NEW a \in answers, ShapedFor(a)
  PROVE  \E subject \in AssertedBy(a.who, "subject-id") :
           a.name_id = <<Head(PairwiseDigest(chain[i], a.data.requester, subject))>>
<1> DEFINE attrs == a.data.attributes
           n == "pairwise-id"
<1>1. /\ a.login \in Logins /\ a.frontend \in DOMAIN Frontends
      /\ a.format = "persistent" /\ a.data.shaped_by = a.login
  BY ReleaseAssumption DEF IInv, AnswerGood, ShapedFor
<1>2. Frontends[a.frontend].protocol = "saml"
  BY <1>1, ReleaseAssumption DEF IInv, AnswerGood
<1>3. /\ Shaped(chain, a.frontend, a.data, Len(chain)) /\ a.format = FormatOf(a.login)
      /\ Paired(chain, a.who, a.data, Len(chain)) /\ a.name_id = PairwiseSubject(a.data)
  <2>1. a.name_id = PairwiseSubject(a.data) \/ "nameid" \notin Kinds
    BY IInvShaped DEF NameIdShaped
  <2>2. Shaped(chain, a.frontend, a.data, Len(chain)) /\ a.format = FormatOf(a.login)
        /\ Paired(chain, a.who, a.data, Len(chain))
    BY <1>1, <1>2 DEF IInv, AnswerGood, DataGood
  <2>3. "nameid" \in Kinds
    BY <1>1, <1>2, <2>2, ReleaseAssumption DEF Shaped, Kinds, IInv, IsSequence
  <2> QED
    BY <2>1, <2>2, <2>3
<1>4. First(attrs, n) # NoValue
  BY <1>1, <1>2, <1>3 DEF Shaped
<1>5. n \in DOMAIN attrs /\ attrs[n] # <<>> /\ First(attrs, n) = attrs[n][1]
  BY <1>4 DEF First, Values
<1>6. i \in 1 .. Len(chain)
  BY ReleaseAssumption DEF IInv, IsSequence
<1>7. /\ IsSequence(attrs[n])
      /\ \A v \in Range(attrs[n]) : \E subject \in AssertedBy(a.who, "subject-id") :
           Head(v) = Head(PairwiseDigest(chain[i], a.data.requester, subject))
  BY <1>3, <1>5, <1>6 DEF Paired
<1>8. First(attrs, n) \in Range(attrs[n])
  BY <1>5, <1>7, FirstIn
<1> QED
  BY <1>3, <1>7, <1>8 DEF PairwiseSubject

LEMMA IInvUnlinkable ==
  ASSUME NameIdLast, NoValueApart, PairwiseAlone, SubjectsPersonal, DigestsApart
  PROVE  IInv => Unlinkable
<1> SUFFICES ASSUME IInv, "pairwiseid" \in Kinds,
                    NEW a \in answers, NEW b \in answers, ShapedFor(a), ShapedFor(b)
             PROVE  a.name_id = b.name_id <=>
                      a.who.user = b.who.user /\ a.data.requester = b.data.requester
  BY DEF Unlinkable
<1>1. PICK i \in DOMAIN chain : chain[i].kind = "pairwiseid"
  BY DEF Kinds
<1> DEFINE s == chain[i]
           Id(x, subject) == <<Head(PairwiseDigest(s, x.data.requester, subject))>>
<1>2. PICK v \in AssertedBy(a.who, "subject-id") : a.name_id = Id(a, v)
  BY <1>1, NameIdMade
<1>3. PICK u \in AssertedBy(b.who, "subject-id") : b.name_id = Id(b, u)
  BY <1>1, NameIdMade
<1>4. /\ a.who \in Sources /\ b.who \in Sources /\ chain \in Chains
      /\ \A x \in {a, b} : \E l \in Logins : x.data.requester = RequestOf[l].requester
  BY DEF IInv, AnswerGood, DataGood, RequestersAt
<1>5. v = u <=> a.who.user = b.who.user
  BY <1>2, <1>3, <1>4 DEF SubjectsPersonal
<1>6. a.name_id = b.name_id => a.data.requester = b.data.requester /\ v = u
  <2> DEFINE q == a.data.requester
             r == b.data.requester
  <2>1. SUFFICES ASSUME a.name_id = b.name_id PROVE q = r /\ v = u
    OBVIOUS
  <2>2. Head(PairwiseDigest(s, q, v)) = Head(PairwiseDigest(s, r, u))
    BY <1>2, <1>3, <2>1
  <2>3. Digest("hmac", PairwiseInput(s, q, v), s.pairwise_salt)
          = Digest("hmac", PairwiseInput(s, r, u), s.pairwise_salt)
    BY <2>2, DigestOne DEF PairwiseDigest
  <2> QED
    BY <1>1, <1>2, <1>3, <1>4, <2>3 DEF DigestsApart
<1> QED
  BY <1>2, <1>3, <1>5, <1>6

(* What is behind a primary identifier.                                    *)
LEMMA IdentifierOf ==
  ASSUME IInv, IdentifierAlone, NEW i \in DOMAIN chain,
         chain[i].kind = "primary_identifier", NEW a \in answers,
         First(a.data.attributes, chain[i].primary_identifier) # NoValue
  PROVE  /\ a.who \in Accepted
         /\ \E p \in Candidates(chain[i]) : \E vs \in Composed(p, a.who) :
              First(a.data.attributes, chain[i].primary_identifier) = Framed(vs)
<1> DEFINE attrs == a.data.attributes
           n == chain[i].primary_identifier
<1>1. /\ Identified(chain, a.who, a.data, Len(chain))
      /\ Originates(chain, a.who, a.data, Len(chain))
  BY DEF IInv, AnswerGood, DataGood
<1>2. n \in DOMAIN attrs /\ attrs[n] # <<>> /\ First(attrs, n) = attrs[n][1]
  BY DEF First, Values
<1>3. i \in 1 .. Len(chain)
  BY ReleaseAssumption DEF IInv, IsSequence
<1>4. /\ IsSequence(attrs[n])
      /\ \A v \in Range(attrs[n]) : \E p \in Candidates(chain[i]) :
           \E vs \in Composed(p, a.who) : v = Framed(vs)
  BY <1>1, <1>2, <1>3 DEF Identified
<1>5. First(attrs, n) \in Range(attrs[n])
  BY <1>2, <1>4, FirstIn
<1> QED
  BY <1>1, <1>4, <1>5 DEF Originates

LEMMA IInvDistinct ==
  ASSUME IdentifierAlone, ComponentsPersonal, FramesApart
  PROVE  IInv => IdentifiersDistinct
<1> SUFFICES ASSUME IInv, NEW a \in answers, NEW b \in answers, NEW i \in DOMAIN chain,
                    chain[i].kind = "primary_identifier",
                    First(a.data.attributes, chain[i].primary_identifier) # NoValue,
                    First(a.data.attributes, chain[i].primary_identifier)
                      = First(b.data.attributes, chain[i].primary_identifier)
             PROVE  a.who.user = b.who.user
  BY DEF IdentifiersDistinct
<1>0. chain \in Chains
  BY DEF IInv
<1>1. PICK p \in Candidates(chain[i]) : \E vs \in Composed(p, a.who) :
        First(a.data.attributes, chain[i].primary_identifier) = Framed(vs)
  BY IdentifierOf
<1>2. PICK vs \in Composed(p, a.who) :
        First(a.data.attributes, chain[i].primary_identifier) = Framed(vs)
  BY <1>1
<1>3. PICK q \in Candidates(chain[i]) : \E us \in Composed(q, b.who) :
        First(b.data.attributes, chain[i].primary_identifier) = Framed(us)
  BY IdentifierOf
<1>4. PICK us \in Composed(q, b.who) :
        First(b.data.attributes, chain[i].primary_identifier) = Framed(us)
  BY <1>3
<1>5. a.who \in Accepted /\ b.who \in Accepted
  BY IdentifierOf
<1>6. vs \in AllComposed(chain[i]) /\ us \in AllComposed(chain[i])
  BY <1>5 DEF AllComposed
<1>7. vs = us
  BY <1>0, <1>2, <1>4, <1>6 DEF FramesApart
<1> QED
  BY <1>0, <1>5, <1>7 DEF ComponentsPersonal

(* The state has its type.                                                 *)
THEOREM TypeCorrect == Spec => []TypeOK
<1> QED
  BY Invariance, IInvType, PTL

(* An attribute of the map that no service writes reaches a requester only *)
(* with values its provider asserted under the attribute's own names:      *)
(* nothing passed through the map (Saml2Backend::process_acs) forges it.   *)
THEOREM Unforged == Spec => []NothingForged
<1> QED
  BY Invariance, IInvForged, PTL

(* A requester with an allow rule gets answers only about users whose      *)
(* provider asserted a value the rule names (AttributeAuthorization), with *)
(* a second login in the middle of the chain too.                          *)
THEOREM Authorized ==
  ASSUME RulesOfAsserted
  PROVE  Spec => []AuthorizationHolds
<1>1. IInv => AuthorizationHolds
  BY IInvAuthorized
<1> QED
  BY <1>1, Invariance, PTL

(* The authenticating authority is the provider that answered, whatever    *)
(* else is mapped to its claim (authenticating_authority_claims).          *)
THEOREM AuthorityReleased == Spec => []AuthorityTrue
<1> QED
  BY Invariance, IInvAuthority, PTL

(* A persistent NameID is the pairwise identifier, where nameid is last    *)
(* but for services that leave it (NameId::process_response).              *)
THEOREM PersistentIsPairwise ==
  ASSUME NameIdLast, NoValueApart
  PROVE  Spec => []NameIdShaped
<1>1. IInv => NameIdShaped
  BY IInvShaped
<1> QED
  BY <1>1, Invariance, PTL

(* Two requesters cannot join their records of a user, and no two users    *)
(* are one to a requester (PairwiseId::process_response), whatever else    *)
(* goes on in the browsers: the identifier in an answer is made of the     *)
(* requester it is for and of the user its provider named.                 *)
THEOREM RequestersUnlinked ==
  ASSUME NameIdLast, NoValueApart, PairwiseAlone, SubjectsPersonal, DigestsApart
  PROVE  Spec => []Unlinkable
<1>1. IInv => Unlinkable
  BY IInvUnlinkable
<1> QED
  BY <1>1, Invariance, PTL

(* Two users never share a primary identifier, whichever candidates,       *)
(* overrides and filters made it (PrimaryIdentifier::construct): one in an *)
(* answer frames components that a candidate makes of what the user's own  *)
(* provider asserted.                                                      *)
THEOREM UsersIdentified ==
  ASSUME IdentifierAlone, ComponentsPersonal, FramesApart
  PROVE  Spec => []IdentifiersDistinct
<1>1. IInv => IdentifiersDistinct
  BY IInvDistinct
<1> QED
  BY <1>1, Invariance, PTL
=============================================================================
