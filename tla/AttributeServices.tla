------------------------- MODULE AttributeServices -------------------------
(***************************************************************************)
(* The micro-services that change the attributes and the subject of an     *)
(* authentication response, each as an operator from one InternalData to   *)
(* the next, and the configurations their build functions refuse.          *)
(*                                                                         *)
(* A value is the non-empty sequence of the texts between its '@' signs, a *)
(* regular expression the set of the values it matches, a template the     *)
(* attribute and the field it prints, a digest one text that names what    *)
(* was hashed.  An attribute map is a function on the names present.       *)
(***************************************************************************)
EXTENDS Integers, Sequences, SequencesExt, TLC

CONSTANTS
  NoValue,       \* an absent optional value
  Failed,        \* the flow ends with an error
  Redirected,    \* the flow ends with a redirect to a configured error page
  LowerCase,     \* the lower case of every text that is not lower case
  Before(_, _)   \* the order of texts

ASSUME LowerCaseAssumption ==
  \A text \in DOMAIN LowerCase : LowerCase[text] \notin DOMAIN LowerCase

Lower(text) == IF text \in DOMAIN LowerCase THEN LowerCase[text] ELSE text

Text(v) == FoldLeft(LAMBDA t, part : t \o "@" \o part, Head(v), Tail(v))
Length(v) == Len(Text(v))
Concat(u, v) == Front(u) \o <<Last(u) \o Head(v)>> \o Tail(v)
Scoped(v) == Len(v) > 1
Scopes(values) == SelectSeq(values, Scoped)

IsSequence(s) == s \in Seq(Range(s))

(* The entries of f, and of g under the names that f has not.              *)
Override(f, g) ==
  [n \in DOMAIN f \cup DOMAIN g |-> IF n \in DOMAIN f THEN f[n] ELSE g[n]]

(* InternalData accessors: the values of a name, if any, and the first.    *)
Values(attrs, n) == IF n \in DOMAIN attrs THEN attrs[n] ELSE <<>>
First(attrs, n) == IF Values(attrs, n) = <<>> THEN NoValue ELSE attrs[n][1]
Set(attrs, n, values) ==
  [m \in DOMAIN attrs \cup {n} |-> IF m = n THEN values ELSE attrs[m]]
Each(attrs, n, F(_)) ==
  IF n \in DOMAIN attrs THEN [attrs EXCEPT ![n] = [i \in DOMAIN @ |-> F(@[i])]] ELSE attrs

(* The configuration entry for a key, or a wildcard's, or none.            *)
Level(map, key) ==
  LET names == DOMAIN map
  IN CASE key \in names -> map[key]
       [] key \notin names /\ "" \in names -> map[""]
       [] {key, ""} \cap names = {} /\ "default" \in names -> map["default"]
       [] {key, "", "default"} \cap names = {} -> NoValue
(* A two-level entry; no entry is an empty one.                            *)
Recipe(map, outer, inner) ==
  LET by == Level(map, outer)
      recipe == IF by = NoValue THEN NoValue ELSE Level(by, inner)
  IN IF recipe = NoValue THEN <<>> ELSE recipe

Digest(alg, v, salt) == <<alg \o "(" \o Text(v) \o salt \o ")">>
StrongAlgorithms == {"sha256", "sha512"}
AlgorithmAccepted(alg, allow_md5) == alg \in StrongAlgorithms \/ (alg = "md5" /\ allow_md5)

----------------------------------------------------------------------------
(* static_attributes and static_attributes_for_virtual_idp                 *)

StaticAttributes(s, d) == [d EXCEPT !.attributes = Override(@, s.attributes)]

(* The configured values, then the released ones not among them; sorted if *)
(* there were any.                                                         *)
Merged(values, attrs, n) ==
  LET more == SelectSeq(Values(attrs, n), LAMBDA v : v \notin Range(values))
  IN IF n \in DOMAIN attrs
     THEN SortSeq(values \o more, LAMBDA u, v : Before(Text(u), Text(v)))
     ELSE values

StaticForVirtualIdp(s, d, frontend) ==
  LET replaced == Override(Recipe(s.replace, d.requester, frontend), d.attributes)
      append == Recipe(s.append, d.requester, frontend)
  IN [d EXCEPT !.attributes =
        Override([n \in DOMAIN append |-> Merged(append[n], replaced, n)], replaced)]

(* filter_attributes, filter_attribute_values and rename_attributes        *)

Passes(s, requester, n) ==
  LET entry == Level(s.policy, requester)
      allowed == IF entry # NoValue THEN entry ELSE s.allowed
  IN IF allowed # NoValue THEN n \in allowed ELSE s.passthrough_unmatched
FilterAttributes(s, d) ==
  [d EXCEPT !.attributes = Restrict(@, {n \in DOMAIN @ : Passes(s, d.requester, n)})]

(* Every filter of the provider and of all, for the requester and for all, *)
(* on the attribute and on all applies.                                    *)
Kept(filters, d, n, v) ==
  \A p \in {"", d.issuer} \cap DOMAIN filters :
    \A r \in {"", d.requester} \cap DOMAIN filters[p] :
      \A a \in {"", n} \cap DOMAIN filters[p][r] : v \in filters[p][r][a]

KeptValues(filters, d, n, values) ==
  FlattenSeq([i \in DOMAIN values |->
    IF Kept(filters, d, n, values[i]) THEN <<values[i]>> ELSE <<>>])
FilterAttributeValues(s, d) ==
  [d EXCEPT !.attributes = [n \in DOMAIN @ |-> KeptValues(s.filters, d, n, @[n])]]

(* The renames, in the order of the old names; values join the new name's. *)
RenameOne(attrs, rename) ==
  LET rest == Restrict(attrs, DOMAIN attrs \ {rename.old})
  IN IF rename.old \notin DOMAIN attrs THEN attrs
     ELSE Set(rest, rename.new, Values(rest, rename.new) \o attrs[rename.old])
RenameAttributes(s, d) ==
  LET after[i \in 0 .. Len(s.rename)] ==
        IF i = 0 THEN d.attributes ELSE RenameOne(after[i - 1], s.rename[i])
  IN [d EXCEPT !.attributes = after[Len(s.rename)]]

----------------------------------------------------------------------------
(* attribute_processor: rules in order, and the processors of each         *)

Gender(v) ==
  LET g == Lower(Text(v))
  IN <<CASE g \in {"", "not specified", "not_specified"} -> "9"
         [] g = "male" -> "1" [] g = "female" -> "2" [] OTHER -> "0">>

Process(attrs, n, p) ==
  LET scopes == Scopes(Values(attrs, n))
  IN CASE p.name = "regex_sub" ->
            Each(attrs, n, LAMBDA v : IF v \in DOMAIN p.replace THEN p.replace[v] ELSE v)
       [] p.name = "hash" -> Each(attrs, n, LAMBDA v : Digest(p.hash_algo, v, p.salt))
       [] p.name = "scope" -> Each(attrs, n, LAMBDA v : Append(v, p.scope))
       [] p.name = "scope_extractor" ->
            IF scopes = <<>> THEN attrs
            ELSE Set(attrs, p.mapped_attribute, <<Tail(Head(scopes))>>)
       [] p.name = "scope_remover" -> Each(attrs, n, LAMBDA v : <<Head(v)>>)
       [] p.name = "gender" -> Each(attrs, n, Gender)

Steps(process) ==
  FlattenSeq([i \in DOMAIN process |-> [j \in DOMAIN process[i].processors |->
    [attribute |-> process[i].attribute, processor |-> process[i].processors[j]]]])
AttributeProcessor(s, d) ==
  LET steps == Steps(s.process)
      after[i \in 0 .. Len(steps)] ==
        IF i = 0 THEN d.attributes
        ELSE Process(after[i - 1], steps[i].attribute, steps[i].processor)
  IN [d EXCEPT !.attributes = after[Len(steps)]]

ProcessorBuilt(p) ==
  CASE p.name = "regex_sub" -> TRUE
    [] p.name = "hash" -> AlgorithmAccepted(p.hash_algo, p.allow_legacy_md5) /\ p.salt # ""
    [] p.name = "scope" -> p.scope # ""
    [] p.name = "scope_extractor" -> p.mapped_attribute # ""
    [] p.name \in {"scope_remover", "gender"} -> TRUE
    [] OTHER -> FALSE

----------------------------------------------------------------------------
(* hasher: a requester's fields override those of the "" section           *)

HasherEntry(s, requester) ==
  LET built_in == [alg |-> "sha512", allow_legacy_md5 |-> FALSE, subject_id |-> TRUE,
                   attributes |-> {}]
      own == IF requester \in DOMAIN s.entries THEN s.entries[requester] ELSE <<>>
  IN Override(own, Override(s.entries[""], built_in))

Hasher(s, d) ==
  LET entry == HasherEntry(s, d.requester)
      Hashed(v) == Digest(entry.alg, v, entry.salt)
  IN [d EXCEPT !.subject_id = IF entry.subject_id /\ @ # NoValue THEN Hashed(@) ELSE @,
               !.attributes = [n \in DOMAIN @ |->
                 IF n \in entry.attributes THEN [i \in DOMAIN @[n] |-> Hashed(@[n][i])]
                 ELSE @[n]]]

(* The "" section needs a salt of its own, and no section an empty one.    *)
HasherBuilt(s) ==
  /\ "" \in DOMAIN s.entries /\ "salt" \in DOMAIN s.entries[""]
  /\ \A r \in DOMAIN s.entries :
       LET entry == HasherEntry(s, r)
       IN entry.salt # "" /\ AlgorithmAccepted(entry.alg, entry.allow_legacy_md5)

----------------------------------------------------------------------------
(* attribute_generation: all templates print the attributes as they were   *)

Printed(attrs, t) ==
  LET values == attrs[t.attribute]
      scopes == Scopes(values)
  IN CASE t.field \in {"value", "values"} -> values
       [] t.field = "first" -> SubSeq(values, 1, 1)
       [] t.field = "scope" -> IF scopes = <<>> THEN <<>> ELSE <<Tail(Head(scopes))>>

AttributeGeneration(s, d) ==
  LET recipe == Recipe(s.synthetic_attributes, d.requester, d.issuer)
  IN IF \E n \in DOMAIN recipe : recipe[n].attribute \notin DOMAIN d.attributes
     THEN Failed
     ELSE [d EXCEPT !.attributes =
             Override([n \in DOMAIN recipe |-> Printed(d.attributes, recipe[n])], @)]

(* attribute_authorization, after a mutant that lets an absent attribute   *)
(* through whatever the configuration says.                                *)
PermittedWhenAbsent(s, d) ==
  LET allow == Recipe(s.attribute_allow, d.requester, d.issuer)
      deny == Recipe(s.attribute_deny, d.requester, d.issuer)
  IN /\ \A n \in DOMAIN allow \cap DOMAIN d.attributes :
          Range(d.attributes[n]) \cap allow[n] # {}
     /\ \A n \in DOMAIN deny \cap DOMAIN d.attributes :
          Range(d.attributes[n]) \cap deny[n] = {}
Permitted(s, d) ==
  LET allow == Recipe(s.attribute_allow, d.requester, d.issuer)
      deny == Recipe(s.attribute_deny, d.requester, d.issuer)
  IN /\ \A n \in DOMAIN allow :
          IF n \in DOMAIN d.attributes THEN Range(d.attributes[n]) \cap allow[n] # {}
          ELSE ~s.force_attributes_presence_on_allow
     /\ \A n \in DOMAIN deny :
          IF n \in DOMAIN d.attributes THEN Range(d.attributes[n]) \cap deny[n] = {}
          ELSE ~s.force_attributes_presence_on_deny

AttributeAuthorization(s, d) == IF Permitted(s, d) THEN d ELSE Failed

----------------------------------------------------------------------------
(* pairwiseid: a keyed digest of requester and subject-id, and the scope   *)

LegacyInput(requester, subject) == Concat(<<requester \o "-">>, subject)
PairwiseInput(s, requester, subject) ==
  IF s.framing = "legacy" THEN LegacyInput(requester, subject)
  ELSE Concat(<<"tbpwid-v1:" \o ToString(Len(requester)) \o ":" \o requester \o ":">>,
              subject)

(* Mutant: whatever framing is configured, the requester is not delimited. *)
UnframedDigest(s, requester, subject) ==
  Digest("hmac", LegacyInput(requester, subject), s.pairwise_salt)
PairwiseDigest(s, requester, subject) ==
  Digest("hmac", PairwiseInput(s, requester, subject), s.pairwise_salt)
PairwiseId(s, d) ==
  LET subject == First(d.attributes, "subject-id")
      value == Append(PairwiseDigest(s, d.requester, subject), Last(subject))
  IN IF subject = NoValue THEN Failed
     ELSE [d EXCEPT !.attributes = Set(@, "pairwise-id", <<value>>)]

PairwiseIdBuilt(s) == s.pairwise_salt # "" /\ s.framing \in {"legacy", "v1"}

(* nameid: the subject in the format the SAML frontend published, if any.  *)
(* shaped_by is history: the login that published it.                      *)
NameId(d, ctx) ==
  LET shaped == [d EXCEPT !.shaped_by = ctx.publisher]
      Subject(n, v) == IF First(d.attributes, n) = NoValue THEN Failed
                       ELSE [shaped EXCEPT !.subject_id = v, !.subject_type = "persistent"]
  IN CASE ctx.format \in {"transient", "unspecified"} ->
            [shaped EXCEPT !.subject_type = "transient"]
       [] ctx.format = "persistent" ->
            Subject("pairwise-id", <<Head(First(d.attributes, "pairwise-id"))>>)
       [] ctx.format = "email" -> Subject("mail", First(d.attributes, "mail"))
       [] OTHER -> shaped

----------------------------------------------------------------------------
(* primary_identifier                                                      *)

(* The configuration, overridden for the provider and then the requester.  *)
Effective(s, d) ==
  LET For(key) == IF key # "" /\ key \in DOMAIN s.overrides THEN s.overrides[key] ELSE <<>>
      ignored == \E key \in {d.issuer, d.requester} :
                   "ignore" \in DOMAIN For(key) /\ For(key).ignore
  IN Override([ignore |-> ignored], Override(For(d.requester), Override(For(d.issuer), s)))

(* Every list of candidates configured, for all and for some.              *)
CandidateLists(s) ==
  {s.ordered_identifier_candidates} \cup
  {s.overrides[key].ordered_identifier_candidates : key \in
     {k \in DOMAIN s.overrides : "ordered_identifier_candidates" \in DOMAIN s.overrides[k]}}

(* A candidate's values, or NoValue when one of them is missing.           *)
Component(c, d, values, n) ==
  CASE values = NoValue -> NoValue
    [] values # NoValue /\ n = "name_id" ->
         IF d.subject_id = NoValue \/ c.name_id_format # d.subject_type THEN NoValue
         ELSE IF d.subject_id \in Range(values) THEN values ELSE Append(values, d.subject_id)
    [] OTHER -> LET v == First(d.attributes, n)
                IN IF v = NoValue THEN NoValue ELSE Append(values, v)

Components(c, d) ==
  LET names == c.attribute_names
      after[i \in 0 .. Len(names)] ==
        IF i = 0 THEN <<>> ELSE Component(c, d, after[i - 1], names[i])
      values == after[Len(names)]
  IN IF values = NoValue \/ c.add_scope = NoValue THEN values
     ELSE Append(values, <<IF c.add_scope = "issuer_entityid" THEN d.issuer
                           ELSE c.add_scope>>)

(* The count of the components and the length of each frame them.          *)
Framed(values) ==
  FoldLeft(LAMBDA t, v : Concat(Concat(t, <<ToString(Length(v)) \o ":">>), v),
           <<"tbpid-v1:" \o ToString(Len(values)) \o ":">>, values)

(* The first candidate all of whose components are there; before it, a     *)
(* mutant that joins the components without their lengths.                 *)
Usable(candidates, d) ==
  {i \in DOMAIN candidates : Components(candidates[i], d) \notin {NoValue, <<>>}}
ConstructedUnframed(candidates, d) ==
  LET usable == Usable(candidates, d)
  IN IF usable = {} THEN NoValue
     ELSE FoldLeft(Concat, <<"tbpid-v1:">>, Components(candidates[Min(usable)], d))
Constructed(candidates, d) ==
  LET usable == Usable(candidates, d)
  IN IF usable = {} THEN NoValue ELSE Framed(Components(candidates[Min(usable)], d))

PrimaryIdentifier(s, d) ==
  LET eff == Effective(s, d)
      identifier == Constructed(eff.ordered_identifier_candidates, d)
      attrs == IF eff.clear_input_attributes THEN <<>> ELSE d.attributes
  IN CASE eff.ignore -> d
       [] ~eff.ignore /\ identifier = NoValue ->
            IF eff.on_error = NoValue THEN d ELSE Redirected
       [] OTHER -> [d EXCEPT !.attributes = Set(attrs, eff.primary_identifier, <<identifier>>),
                             !.subject_id = IF eff.replace_subject_id THEN identifier ELSE @]

----------------------------------------------------------------------------
(* legacy_eptid                                                            *)

LegacyEptid(s, d) ==
  LET sp == IF s.sp_entity_id # NoValue THEN s.sp_entity_id ELSE d.requester
      user == IF s.source_subject_id THEN d.subject_id ELSE First(d.attributes, s.source_attribute)
      eptid == <<s.idp_entity_id \o "!" \o sp \o "!" \o Head(Digest("md5", user, sp \o s.secret))>>
  IN CASE s.requesters # {} /\ d.requester \notin s.requesters -> d
       [] (s.requesters = {} \/ d.requester \in s.requesters) /\ user = NoValue -> Failed
       [] OTHER ->
            [d EXCEPT !.attributes = IF s.release_attribute
                                     THEN Set(@, s.target_attribute, <<eptid>>) ELSE @,
                      !.subject_id = IF s.set_subject_id THEN eptid ELSE @,
                      !.subject_type = IF s.set_subject_id THEN "persistent" ELSE @]

LegacyEptidBuilt(s) ==
  /\ s.allow_legacy_md5 /\ s.idp_entity_id # "" /\ s.secret # ""
  /\ s.source_attribute # "" \/ s.source_subject_id
  /\ s.target_attribute # "" \/ ~s.release_attribute
  /\ s.release_attribute \/ s.set_subject_id

----------------------------------------------------------------------------
(* One service of a response chain, and a part of the chain                *)

(* A failing audit log never fails the flow; stepup is in Assurance.       *)
Unchanging == {"custom_logging", "stepup"}
(* The kinds of which every configuration read is accepted; others are     *)
(* unknown.                                                                *)
AlwaysBuilt == Unchanging \cup {
  "static_attributes", "static_attributes_for_virtual_idp", "filter_attributes",
  "filter_attribute_values", "rename_attributes", "attribute_generation",
  "attribute_authorization", "nameid"}

(* A configuration as its build function reads it.                         *)
Configured(s) ==
  /\ s.kind = "rename_attributes" => IsSequence(s.rename)
  /\ s.kind = "attribute_processor" =>
       IsSequence(s.process) /\ \A i \in DOMAIN s.process : IsSequence(s.process[i].processors)
  /\ s.kind = "primary_identifier" =>
       /\ {"primary_identifier", "ordered_identifier_candidates"} \subseteq DOMAIN s
       /\ \A list \in CandidateLists(s) :
            IsSequence(list) /\ \A i \in DOMAIN list : IsSequence(list[i].attribute_names)
Built(s) ==
  CASE s.kind = "attribute_processor" ->
         \A i \in DOMAIN s.process : \A j \in DOMAIN s.process[i].processors :
           ProcessorBuilt(s.process[i].processors[j])
    [] s.kind = "hasher" -> HasherBuilt(s)
    [] s.kind = "pairwiseid" -> PairwiseIdBuilt(s)
    [] s.kind = "primary_identifier" -> s.ordered_identifier_candidates # <<>>
    [] s.kind = "legacy_eptid" -> LegacyEptidBuilt(s)
    [] OTHER -> s.kind \in AlwaysBuilt

Processed(s, d, ctx) ==
  CASE s.kind = "static_attributes" -> StaticAttributes(s, d)
    [] s.kind = "static_attributes_for_virtual_idp" -> StaticForVirtualIdp(s, d, ctx.frontend)
    [] s.kind = "filter_attributes" -> FilterAttributes(s, d)
    [] s.kind = "filter_attribute_values" -> FilterAttributeValues(s, d)
    [] s.kind = "rename_attributes" -> RenameAttributes(s, d)
    [] s.kind = "attribute_processor" -> AttributeProcessor(s, d)
    [] s.kind = "hasher" -> Hasher(s, d)
    [] s.kind = "attribute_generation" -> AttributeGeneration(s, d)
    [] s.kind = "attribute_authorization" -> AttributeAuthorization(s, d)
    [] s.kind = "pairwiseid" -> PairwiseId(s, d)
    [] s.kind = "nameid" -> NameId(d, ctx)
    [] s.kind = "primary_identifier" -> PrimaryIdentifier(s, d)
    [] s.kind = "legacy_eptid" -> LegacyEptid(s, d)
    [] s.kind \in Unchanging -> d

(* The services from .. to of a chain, of which the first that fails ends  *)
(* it.                                                                     *)
Ended(x) == x \in {Failed, Redirected}
Onward(s, x, ctx) == IF Ended(x) THEN x ELSE Processed(s, x, ctx)
ProcessedBy(services, from, to, d, ctx) ==
  LET after[i \in from - 1 .. to] ==
        IF i = from - 1 THEN d ELSE Onward(services[i], after[i - 1], ctx)
  IN after[to]

----------------------------------------------------------------------------
(* The attributes a service may write, whatever the response: those its    *)
(* configuration names anywhere as a target.                               *)

Writes(s, n) ==
  CASE s.kind = "static_attributes" -> n \in DOMAIN s.attributes
    [] s.kind = "static_attributes_for_virtual_idp" ->
         \E map \in {s.replace, s.append} : \E outer \in DOMAIN map :
           \E inner \in DOMAIN map[outer] : n \in DOMAIN map[outer][inner]
    [] s.kind = "rename_attributes" -> \E i \in DOMAIN s.rename : s.rename[i].new = n
    [] s.kind = "attribute_processor" ->
         \E i \in DOMAIN s.process :
           \/ s.process[i].attribute = n
           \/ \E j \in DOMAIN s.process[i].processors :
                LET p == s.process[i].processors[j]
                IN p.name = "scope_extractor" /\ p.mapped_attribute = n
    [] s.kind = "hasher" ->
         \E r \in DOMAIN s.entries :
           "attributes" \in DOMAIN s.entries[r] /\ n \in s.entries[r].attributes
    [] s.kind = "attribute_generation" ->
         \E outer \in DOMAIN s.synthetic_attributes :
           \E inner \in DOMAIN s.synthetic_attributes[outer] :
             n \in DOMAIN s.synthetic_attributes[outer][inner]
    [] s.kind = "pairwiseid" -> n = "pairwise-id"
    [] s.kind = "primary_identifier" ->
         \/ n = s.primary_identifier
         \/ \E key \in DOMAIN s.overrides :
              /\ "primary_identifier" \in DOMAIN s.overrides[key]
              /\ n = s.overrides[key].primary_identifier
    [] s.kind = "legacy_eptid" -> s.release_attribute /\ n = s.target_attribute
    [] s.kind = "stepup" -> n = s.assurance
    [] OTHER -> FALSE
=============================================================================
