------------------------------ MODULE DataProofs ------------------------------
(***************************************************************************)
(* Proofs about the two modules that follow data, ItemProcessing and       *)
(* FeedPath, for every set of schemas and items, and of feeds: what a fold *)
(* over a sequence keeps, then ItemProcessing, then FeedPath.              *)
(***************************************************************************)
EXTENDS ItemProcessing, FeedPath, TLAPS, FiniteSetTheorems, SequenceTheorems, WellFoundedInduction

-----------------------------------------------------------------------------
(* FoldLeft takes the elements of a sequence off its end, by the largest index that is  *)
(* left. What holds of the base and is kept by every step holds of the result.          *)

LEMMA SetInduction ==
    ASSUME NEW P, 0 \in P, \A n \in Nat : n \in P => n + 1 \in P
    PROVE  \A n \in Nat : n \in P
<1> DEFINE R == OpToRel(<, Nat)
           T == Nat \ P
<1>1. ASSUME NEW x \in Nat, NEW y \in Nat, y < x PROVE <<y, x>> \in R
  BY <1>1 DEF OpToRel
<1>2. IsWellFoundedOn(R, Nat)
  BY NatLessThanWellFounded, Zenon DEF OpToRel
<1> HIDE DEF R
<1> SUFFICES ASSUME T # {} PROVE FALSE
  OBVIOUS
<1>3. PICK x \in T : \A y \in T : ~ (<<y, x>> \in R)
  <2>1. T \subseteq Nat /\ T # {}
    OBVIOUS
  <2> HIDE DEF T
  <2> QED BY <1>2, <2>1, WFMin
<1>4. x \in Nat /\ x # 0
  OBVIOUS
<1>5. x - 1 \in Nat /\ x - 1 < x /\ (x - 1) + 1 = x
  BY <1>4
<1>6. x - 1 \in P
  BY <1>1, <1>3, <1>4, <1>5
<1> QED BY <1>4, <1>5, <1>6

\* A set of indices has a largest one, and the others are smaller.
LEMMA MaxIs ==
    ASSUME NEW n \in Nat, NEW s \in SUBSET (1..n), s # {}
    PROVE  Max(s) \in s /\ \A i \in s : i <= Max(s)
<1> DEFINE Tops(r) == \E x \in r : \A y \in r : x >= y
           N == {m \in Nat : \A r \in SUBSET (1..m) : r # {} => Tops(r)}
<1>1. 0 \in N
  <2>1. \A r \in SUBSET (1..0) : r = {}
    OBVIOUS
  <2> QED BY <2>1
<1>2. ASSUME NEW m \in Nat, m \in N PROVE m + 1 \in N
  <2> SUFFICES ASSUME NEW r \in SUBSET (1..(m + 1)), r # {} PROVE Tops(r)
    OBVIOUS
  <2>1. CASE m + 1 \in r
    BY <2>1
  <2>2. CASE m + 1 \notin r
    <3>1. r \in SUBSET (1..m)
      BY <2>2
    <3> QED BY <1>2, <3>1
  <2> QED BY <2>1, <2>2
<1> HIDE DEF N
<1>3. n \in N
  BY <1>1, <1>2, SetInduction
<1>4. Tops(s)
  BY <1>3 DEF N
<1> QED BY <1>4 DEF Max

\* And a smallest one.
LEMMA MinIs ==
    ASSUME NEW n \in Nat, NEW s \in SUBSET (1..n), s # {}
    PROVE  Min(s) \in s /\ \A i \in s : Min(s) <= i
<1> DEFINE Least(r) == \E x \in r : \A y \in r : x <= y
           N == {m \in Nat : \A r \in SUBSET (1..m) : r # {} => Least(r)}
<1>1. 0 \in N
  <2>1. \A r \in SUBSET (1..0) : r = {}
    OBVIOUS
  <2> QED BY <2>1
<1>2. ASSUME NEW m \in Nat, m \in N PROVE m + 1 \in N
  <2> SUFFICES ASSUME NEW r \in SUBSET (1..(m + 1)), r # {} PROVE Least(r)
    OBVIOUS
  <2>1. CASE r \cap (1..m) = {}
    <3>2. \A y \in r : y \in 1..m \/ y = m + 1
      OBVIOUS
    <3>1. r = {m + 1}
      BY <2>1, <3>2
    <3> QED BY <3>1
  <2>2. CASE r \cap (1..m) # {}
    <3>1. Least(r \cap (1..m))
      BY <1>2, <2>2
    <3>2. PICK x \in r \cap (1..m) : \A y \in r \cap (1..m) : x <= y
      BY <3>1
    <3>3. \A y \in r : y \in 1..m \/ y = m + 1
      OBVIOUS
    <3> QED BY <3>2, <3>3
  <2> QED BY <2>1, <2>2
<1> HIDE DEF N
<1>3. n \in N
  BY <1>1, <1>2, SetInduction
<1>4. Least(s)
  BY <1>3 DEF N
<1> QED BY <1>4 DEF Min

\* Without the largest index, the indices up to m + 1 go up to m.
LEMMA RestIs ==
    ASSUME NEW m \in Nat, NEW s \in SUBSET (1..(m + 1)), s # {}
    PROVE  s \ {Max(s)} \in SUBSET (1..m) /\ Max(s) \in 1..(m + 1)
<1>1. m + 1 \in Nat
  OBVIOUS
<1>2. Max(s) \in s /\ \A i \in s : i <= Max(s)
  BY <1>1, MaxIs
<1>3. ASSUME NEW x \in 1..(m + 1), NEW i \in 1..(m + 1), i <= x, i # x PROVE i \in 1..m
  BY <1>3
<1>4. \A i \in s : i # Max(s) => i \in 1..m
  BY <1>2, <1>3
<1> QED BY <1>2, <1>4

\* What a fold by the steps g is.
Folds(f, base, g, n) ==
    f = [s \in SUBSET (1..n) |-> IF s = {} THEN base ELSE g[f[s \ {Max(s)}]][Max(s)]]

\* There is a fold.
LEMMA FoldExists ==
    ASSUME NEW n \in Nat, NEW A, NEW base \in A, NEW g \in [A -> [1..n -> A]]
    PROVE  \E f \in [SUBSET (1..n) -> A] : Folds(f, base, g, n)
<1> DEFINE Step(f, s) == IF s = {} THEN base ELSE g[f[s \ {Max(s)}]][Max(s)]
           Folded(m) == \E f \in [SUBSET (1..m) -> A] : \A s \in SUBSET (1..m) : f[s] = Step(f, s)
           N == {m \in Nat : m <= n => Folded(m)}
<1>1. 0 \in N
  <2>1. [s \in SUBSET (1..0) |-> base] \in [SUBSET (1..0) -> A]
    OBVIOUS
  <2>2. \A s \in SUBSET (1..0) : s = {}
    OBVIOUS
  <2> QED BY <2>1, <2>2
<1>2. ASSUME NEW m \in Nat, m \in N PROVE m + 1 \in N
  <2> SUFFICES ASSUME m + 1 <= n PROVE Folded(m + 1)
    <3> HIDE DEF Folded
    <3> QED OBVIOUS
  <2>0. Folded(m)
    <3> HIDE DEF Folded
    <3> QED BY <1>2
  <2>1. PICK f \in [SUBSET (1..m) -> A] : \A s \in SUBSET (1..m) : f[s] = Step(f, s)
    BY <2>0
  <2> DEFINE h == [s \in SUBSET (1..(m + 1)) |-> Step(f, s)]
  <2>2. ASSUME NEW s \in SUBSET (1..(m + 1))
        PROVE  h[s] \in A /\ h[s] = Step(f, s)
    <3>1. CASE s = {}
      BY <3>1
    <3>2. CASE s # {}
      <4>1. s \ {Max(s)} \in SUBSET (1..m) /\ Max(s) \in 1..(m + 1)
        BY <3>2, RestIs
      <4> HIDE DEF Max
      <4>4. Max(s) \in 1..n
        BY <4>1
      <4>2. f[s \ {Max(s)}] \in A
        BY <4>1
      <4>3. g[f[s \ {Max(s)}]][Max(s)] \in A
        <5>1. ASSUME NEW a \in A, NEW i \in 1..n PROVE g[a][i] \in A
          OBVIOUS
        <5> QED BY <4>2, <4>4, <5>1
      <4> QED BY <3>2, <4>3
    <3> QED BY <3>1, <3>2
  <2>3. \A s \in SUBSET (1..m) : s \in SUBSET (1..(m + 1)) /\ h[s] = f[s]
    <3>1. \A s \in SUBSET (1..m) : s \in SUBSET (1..(m + 1))
      OBVIOUS
    <3> HIDE DEF h, Step
    <3> QED BY <2>1, <2>2, <3>1
  <2>4. \A s \in SUBSET (1..(m + 1)) : h[s] = Step(h, s)
    <3> SUFFICES ASSUME NEW s \in SUBSET (1..(m + 1)) PROVE h[s] = Step(h, s)
      OBVIOUS
    <3>1. CASE s = {}
      <4> HIDE DEF h
      <4> QED BY <2>2, <3>1
    <3>2. CASE s # {}
      <4>1. s \ {Max(s)} \in SUBSET (1..m)
        BY <3>2, RestIs
      <4> HIDE DEF h
      <4> QED BY <2>2, <2>3, <3>2, <4>1
    <3> QED BY <3>1, <3>2
  <2>5. h \in [SUBSET (1..(m + 1)) -> A]
    BY <2>2
  <2> HIDE DEF h, Step
  <2> QED BY <2>4, <2>5
<1> HIDE DEF N
<1>3. n \in N
  BY <1>1, <1>2, SetInduction
<1>6. Folded(n)
  <2> HIDE DEF Folded
  <2> QED BY <1>3 DEF N
<1>4. PICK f \in [SUBSET (1..n) -> A] : \A s \in SUBSET (1..n) : f[s] = Step(f, s)
  BY <1>6
<1>5. f = [s \in SUBSET (1..n) |-> Step(f, s)]
  <2> HIDE DEF Step
  <2> QED BY <1>4
<1> QED BY <1>5 DEF Folds

\* Where every step stays, the fold stays.
LEMMA FoldStays ==
    ASSUME NEW n \in Nat, NEW A, NEW f, f[{}] \in A,
           \A s \in SUBSET (1..n) : s # {} /\ f[s \ {Max(s)}] \in A => f[s] \in A
    PROVE  f[1..n] \in A
<1> DEFINE Stays(m) == \A s \in SUBSET (1..m) : f[s] \in A
           N == {m \in Nat : m <= n => Stays(m)}
<1>1. 0 \in N
  <2>1. \A s \in SUBSET (1..0) : s = {}
    OBVIOUS
  <2> QED BY <2>1
<1>2. ASSUME NEW m \in Nat, m \in N PROVE m + 1 \in N
  <2> SUFFICES ASSUME m + 1 <= n PROVE Stays(m + 1)
    <3> HIDE DEF Stays
    <3> QED OBVIOUS
  <2>3. Stays(m)
    <3> HIDE DEF Stays
    <3> QED BY <1>2
  <2> SUFFICES ASSUME NEW s \in SUBSET (1..(m + 1)) PROVE f[s] \in A
    OBVIOUS
  <2>1. CASE s = {}
    BY <2>1
  <2>2. CASE s # {}
    <3>1. s \ {Max(s)} \in SUBSET (1..m) /\ s \in SUBSET (1..n)
      BY <2>2, RestIs
    <3>2. f[s \ {Max(s)}] \in A
      BY <2>3, <3>1
    <3> QED BY <2>2, <3>1, <3>2
  <2> QED BY <2>1, <2>2
<1> HIDE DEF N
<1>3. n \in N
  BY <1>1, <1>2, SetInduction
<1>4. Stays(n)
  <2> HIDE DEF Stays
  <2> QED BY <1>3 DEF N
<1> QED BY <1>4

-----------------------------------------------------------------------------
(* The values that operations take and return *)

\* A value on its way through a chain: what can be entered comes from the item or from
\* the schema.
Carried(v) == "t" \in DOMAIN v /\ (v.t \in {"dict", "list"} => v \in Data)

IsArgs(args) ==
    /\ \A name \in {"value", "default"} : name \in DOMAIN args => args[name] \in Data
    /\ ("path" \in DOMAIN args /\ IsStr(args["path"])) => args["path"].segs \in Seq(STRING)

\* Flat types of results.
Flat == {"str", "bool", "int", "float", "decimal", "date"}

\* An operation kept an absent value, or made a value of one of the types T.
Makes(v, r, T) ==
    \/ r = Raised
    \/ Absent(v) /\ r = v
    \/ "t" \in DOMAIN r /\ r.t \in T

LEMMA ParsedCarried ==
    ASSUME NEW v \in Data
    PROVE  Carried(v) /\ v # Omit /\ v # Null
BY ItemAssumption DEF IsParsed, Carried, PlainTypes, Omit, Null

\* ToText is a text.
LEMMA TextIs ==
    ASSUME NEW v, Carried(v)
    PROVE  "t" \in DOMAIN ToText(v) /\ ToText(v).t = "str"
BY DEF Carried, ToText, Str, S

LEMMA StripIs ==
    ASSUME NEW v, "t" \in DOMAIN v, v.t = "str"
    PROVE  "t" \in DOMAIN Strip(v) /\ Strip(v).t = "str"
BY DEF Strip, Str

\* A number, or no number.
LEMMA DecimalIs ==
    ASSUME NEW v
    PROVE  DecimalOf(v) = Raised \/ Makes(v, DecimalOf(v), {"decimal"})
BY DEF DecimalOf, Makes, Decimal

LEMMA ConversionsMake ==
    ASSUME NEW v, Carried(v), NEW args
    PROVE  /\ Makes(v, ToStr(v, args), {"str"})
           /\ Makes(v, ToInt(v, args), {"int"})
           /\ Makes(v, ToDecimal(v, args), {"decimal"})
           /\ Makes(v, ToBool(v, args), {"bool"})
           /\ Makes(v, BoolToAvailability(v, args), {"str"})
           /\ Makes(v, IntToAvailability(v, args), {"str"})
<1>1. Makes(v, ToStr(v, args), {"str"})
  BY TextIs DEF ToStr, Makes
<1>2. Makes(v, ToInt(v, args), {"int"})
  BY DEF ToInt, Makes, Carried, Integer
<1>3. Makes(v, ToDecimal(v, args), {"decimal"})
  BY DecimalIs DEF ToDecimal, Makes, Carried
<1>4. Makes(v, ToBool(v, args), {"bool"})
  BY DEF ToBool, Makes, Carried, Bool
<1>5. Makes(v, BoolToAvailability(v, args), {"str"})
  BY DEF BoolToAvailability, Makes, Carried, Availability, S, Str
<1>6. Makes(v, IntToAvailability(v, args), {"str"})
  BY DEF IntToAvailability, Makes, Carried, Availability, S, Str, Absent
<1> QED BY <1>1, <1>2, <1>3, <1>4, <1>5, <1>6

LEMMA TextsMake ==
    ASSUME NEW v, Carried(v), NEW args
    PROVE  /\ Makes(v, Trim(v, args), {"str"})
           /\ Makes(v, LowerOp(v, args), {"str"})
           /\ Makes(v, UpperOp(v, args), {"str"})
           /\ Makes(v, StripHtml(v, args), {"str"})
           /\ Makes(v, NormalizeWhitespace(v, args), {"str"})
           /\ Makes(v, StripSuffix(v, args), {"str"})
           /\ Makes(v, Truncate(v, args), {"str"})
<1>1. Makes(v, Trim(v, args), {"str"})
  BY DEF Trim, OnText, Strip, Str, Makes, Carried, IsStr
<1>2. Makes(v, LowerOp(v, args), {"str"})
  BY DEF LowerOp, OnText, Lower, Makes, Carried, IsStr
<1>3. Makes(v, UpperOp(v, args), {"str"})
  BY DEF UpperOp, OnText, Upper, Makes, Carried, IsStr
<1>4. Makes(v, StripHtml(v, args), {"str"})
  BY DEF StripHtml, OnText, Makes, Carried, IsStr
<1>5. Makes(v, NormalizeWhitespace(v, args), {"str"})
  BY DEF NormalizeWhitespace, OnText, Makes, Carried, IsStr
<1>6. Makes(v, StripSuffix(v, args), {"str"})
  BY TextIs DEF StripSuffix, Makes
<1>7. Makes(v, Truncate(v, args), {"str"})
  BY TextIs DEF Truncate, Makes, S, Str
<1> QED BY <1>1, <1>2, <1>3, <1>4, <1>5, <1>6, <1>7

LEMMA DatesMake ==
    ASSUME NEW v, Carried(v), NEW args
    PROVE  /\ Makes(v, ParseDate(v, args), {"date"})
           /\ Makes(v, FormatDate(v, args), {"str"})
           /\ Makes(v, FormatDatetimeUtc(v, args), {"str"})
<1>1. Makes(v, ParseDate(v, args), {"date"})
  BY DEF ParseDate, Makes, Date
<1>2. Makes(v, FormatDate(v, args), {"str"})
  BY DEF FormatDate, Makes, S, Str
<1>3. Makes(v, FormatDatetimeUtc(v, args), {"str"})
  BY DEF FormatDatetimeUtc, Makes, S, Str
<1> QED BY <1>1, <1>2, <1>3

LEMMA AmountsMake ==
    ASSUME NEW v, Carried(v), NEW args
    PROVE  /\ Makes(v, RoundDecimal(v, args), {"decimal"})
           /\ Makes(v, FormatMoney(v, args), {"str"})
           /\ FormatPrice(v, args) = Missing \/ Makes(v, FormatPrice(v, args), {"str"})
<1>1. Makes(v, RoundDecimal(v, args), {"decimal"})
  BY DecimalIs DEF RoundDecimal, Quantize, Makes, Decimal
<1>2. Makes(v, FormatMoney(v, args), {"str"})
  BY DEF FormatMoney, Makes, S, Str
<1>3. FormatPrice(v, args) = Missing \/ Makes(v, FormatPrice(v, args), {"str"})
  <2>1. "t" \in DOMAIN Strip(ToText(v)) /\ Strip(ToText(v)).t = "str"
    BY TextIs, StripIs
  <2> QED BY <2>1 DEF FormatPrice, Makes, S, Str
<1> QED BY <1>1, <1>2, <1>3

LEMMA StructuresMake ==
    ASSUME NEW v, Carried(v), NEW args
    PROVE  /\ Makes(v, FormatShipping(v, args), {"str"})
           /\ Makes(v, MapTaxCode(v, args), {"str"})
<1>1. Makes(v, FormatShipping(v, args), {"str"})
  BY DEF FormatShipping, Makes, S, Str, IsStr, Carried
<1>2. Makes(v, MapTaxCode(v, args), {"str"})
  <2> DEFINE override == Get(v, "tax_code_override", None)
  <2>1. ASSUME IsMapping(v), IsStr(override)
        PROVE  "t" \in DOMAIN Strip(override) /\ Strip(override).t = "str"
    <3>1. v \in Data /\ v.t = "dict"
      BY <2>1 DEF Carried, IsMapping
    <3>2. override = None \/ override \in Data
      BY <3>1, ItemAssumption DEF Get, Has, IsParsed
    <3>3. "t" \in DOMAIN override /\ override.t = "str"
      BY <2>1, <3>2, ParsedCarried DEF IsStr, Carried, None
    <3> HIDE DEF override
    <3> QED BY <3>3, StripIs
  <2>2. \/ Absent(v) /\ MapTaxCode(v, args) = v
        \/ MapTaxCode(v, args) = Raised
        \/ IsMapping(v) /\ IsStr(override) /\ MapTaxCode(v, args) = Strip(override)
        \/ \E word : MapTaxCode(v, args) = S(word)
    BY DEF MapTaxCode
  <2> HIDE DEF override
  <2> QED BY <2>1, <2>2 DEF Makes, S, Str
<1> QED BY <1>1, <1>2

\* One segment further: a part of the value, or nothing.
LEMMA EnterIs ==
    ASSUME NEW v, Carried(v), NEW segment
    PROVE  Enter(v, segment) = Missing \/ Enter(v, segment) \in Data
<1>1. CASE Has(v, segment)
  <2>1. v \in Data /\ v.t = "dict" /\ segment \in DOMAIN v.m
    BY <1>1 DEF Has, IsMapping, Carried
  <2> QED BY <1>1, <2>1, ItemAssumption DEF Enter, IsParsed
<1>2. CASE ~Has(v, segment) /\ v.t = "list" /\ segment \in {"0", "1"}
           /\ Tenths[segment] \div 10 < Len(v.e)
  <2>1. v.e \in Seq(Data)
    BY <1>2, ItemAssumption DEF Carried, IsParsed
  <2>2. Tenths[segment] \div 10 \in {0, 1}
    BY <1>2 DEF Tenths, Finite
  <2>3. v.e[Tenths[segment] \div 10 + 1] \in Data
    BY <1>2, <2>1, <2>2
  <2> QED BY <1>2, <2>3 DEF Enter
<1> QED BY <1>1, <1>2 DEF Enter

\* Walking a path ends at the value itself, at a part of it, or at nothing.
LEMMA WalkIs ==
    ASSUME NEW v, Carried(v), NEW segments \in Seq(STRING)
    PROVE  Walk(v, segments) \in {v, Missing} \cup Data
<1> DEFINE n == Len(segments)
           A == {v, Missing} \cup Data
           Step(f, s) == IF s = {} THEN v ELSE Enter(f[s \ {Max(s)}], segments[Max(s)])
           walked == CHOOSE f : f = [s \in SUBSET (DOMAIN segments) |-> Step(f, s)]
           g == [a \in A |-> [i \in 1..n |-> Enter(a, segments[i])]]
<1>1. n \in Nat /\ DOMAIN segments = 1..n
  OBVIOUS
<1>2. Walk(v, segments) = walked[DOMAIN segments]
  BY DEF Walk, FoldLeft, MapThenFoldSet
<1>3. ASSUME NEW a \in A, NEW i \in 1..n PROVE Enter(a, segments[i]) \in A
  <2>1. Carried(a)
    BY ParsedCarried DEF Carried, Missing
  <2> QED BY <2>1, EnterIs
<1>4. g \in [A -> [1..n -> A]]
  BY <1>3
<1> HIDE DEF n
<1>5. PICK f \in [SUBSET (1..n) -> A] : Folds(f, v, g, n)
  <2> HIDE DEF A, g
  <2>1. v \in A
    BY DEF A
  <2> QED BY <1>1, <1>4, <2>1, FoldExists
<1>6. \A s \in SUBSET (1..n) : f[s] = Step(f, s)
  <2> SUFFICES ASSUME NEW s \in SUBSET (1..n) PROVE f[s] = Step(f, s)
    OBVIOUS
  <2>1. f[s] = IF s = {} THEN v ELSE g[f[s \ {Max(s)}]][Max(s)]
    BY <1>5 DEF Folds
  <2>2. s # {} => f[s \ {Max(s)}] \in A /\ Max(s) \in 1..n
    BY <1>1, MaxIs
  <2> HIDE DEF A
  <2> QED BY <2>1, <2>2
<1>7. f = [s \in SUBSET (DOMAIN segments) |-> Step(f, s)]
  <2> HIDE DEF Step, A
  <2> QED BY <1>1, <1>6
<1>8. walked = [s \in SUBSET (DOMAIN segments) |-> Step(walked, s)]
  <2> HIDE DEF Step, A
  <2> QED BY <1>7
<1>9. \A s \in SUBSET (1..n) : walked[s] = Step(walked, s)
  <2> HIDE DEF Step, walked
  <2> QED BY <1>1, <1>8
<1> HIDE DEF walked
<1>10. walked[1..n] \in A
  <2>1. walked[{}] \in A
    BY <1>9
  <2>2. ASSUME NEW s \in SUBSET (1..n), s # {}, walked[s \ {Max(s)}] \in A PROVE walked[s] \in A
    <3>1. Max(s) \in 1..n
      BY <1>1, <2>2, MaxIs
    <3>2. walked[s] = Enter(walked[s \ {Max(s)}], segments[Max(s)])
      BY <1>9, <2>2
    <3> HIDE DEF A, Max
    <3> QED BY <1>3, <2>2, <3>1, <3>2
  <2> HIDE DEF A
  <2> QED BY <1>1, <2>1, <2>2, FoldStays
<1> QED BY <1>1, <1>2, <1>10
\* What an operation that takes a value from its path or its arguments returns.
LEMMA GetPathIs ==
    ASSUME NEW v, Carried(v), NEW args, IsArgs(args)
    PROVE  GetPath(v, args) = Raised \/ GetPath(v, args) \in {v, Missing} \cup Data
<1> DEFINE path == Arg(args, "path", None)
<1>1. GetPath(v, args) = IF ~IsStr(path) THEN Raised
                         ELSE IF path.segs = <<>> THEN Raised ELSE Walk(v, path.segs)
  BY DEF GetPath
<1>2. IsStr(path) => path.segs \in Seq(STRING)
  BY DEF IsArgs, Arg, IsStr, None
<1> HIDE DEF path
<1> QED BY <1>1, <1>2, WalkIs

LEMMA RegexExtractIs ==
    ASSUME NEW v, Carried(v), NEW args
    PROVE  LET r == RegexExtract(v, args)
           IN  r \in {Missing, None} \/ Makes(v, r, {"str"})
BY DEF RegexExtract, Makes, S, Str

\* What every operation of the catalog declares to return.
LEMMA CatalogIs ==
    ASSUME NEW op
    PROVE  /\ op \in DOMAIN Catalog <=>
                 \/ op \in TextOps \cup RenderOps \cup EmissionOps \cup DecimalOps \cup UntypedOps
                 \/ op \in {"to_int", "to_bool", "parse_date"}
           /\ op \in TextOps => Catalog[op].in = "string"
           /\ op \in DOMAIN Catalog \ TextOps => Catalog[op].in = "any"
           /\ op \in TextOps \cup RenderOps => Catalog[op].out = "string"
           /\ op \in EmissionOps => Catalog[op].out = "object"
           /\ op \in DecimalOps => Catalog[op].out = "decimal"
           /\ op \in UntypedOps => Catalog[op].out = "any"
           /\ op = "to_int" => Catalog[op].out = "int"
           /\ op = "to_bool" => Catalog[op].out = "bool"
           /\ op = "parse_date" => Catalog[op].out = "date"
BY DEF Catalog, Types, TextOps, RenderOps, EmissionOps, DecimalOps, UntypedOps

\* What a call may return: a value to go on with, that is nothing only when the operation
\* may empty, an omission only when it may omit, and of the type the operation declares.
Returns(op, v, r) ==
    /\ Carried(r)
    /\ v # Omit /\ op \notin {"omit_if_missing", "emit_if_present"} => r # Omit
    /\ ~Absent(v) /\ v \notin {Omit, Null} /\ op \notin Emptying => ~Absent(r) /\ r \notin {Omit, Null}
    /\ Absent(r) \/ HasType(r, Catalog[op].out)

LEMMA MadeReturns ==
    ASSUME NEW v, Carried(v), NEW op, NEW r, NEW T, Makes(v, r, T), T \subseteq Flat, r # Raised,
           \A x : x.t \in T => HasType(x, Catalog[op].out)
    PROVE  Returns(op, v, r)
<1>1. CASE Absent(v) /\ r = v
  BY <1>1 DEF Returns
<1>2. CASE "t" \in DOMAIN r /\ r.t \in T
  BY <1>2 DEF Returns, Carried, Flat, Absent, Omit, Null
<1> QED BY <1>1, <1>2 DEF Makes

LEMMA CallIs ==
    ASSUME NEW v, Carried(v), NEW args, IsArgs(args), NEW op \in DOMAIN Catalog,
           Call(op, v, args) # Raised
    PROVE  Returns(op, v, Call(op, v, args))
<1> DEFINE r == Call(op, v, args)
<1> SUFFICES Returns(op, v, r)
  OBVIOUS
<1>0. r # Raised
  OBVIOUS
<1>1. CASE op \in TextOps
  <2>1. Makes(v, r, {"str"})
    BY <1>1, TextsMake DEF TextOps, Call
  <2>2. Catalog[op].out = "string"
    BY <1>1, CatalogIs
  <2>3. \A x : x.t \in {"str"} => HasType(x, Catalog[op].out)
    BY <2>2 DEF HasType
  <2> HIDE DEF r
  <2> QED BY <2>1, <2>3, <1>0, MadeReturns DEF Flat
<1>2. CASE op \in RenderOps
  <2>1. Catalog[op].out = "string"
    BY <1>2, CatalogIs
  <2>2. \A x : x.t \in {"str"} => HasType(x, Catalog[op].out)
    BY <2>1 DEF HasType
  <2>3. CASE op \in {"regex_extract", "format_price"}
    <3>1. r \in {Missing, None} \/ Makes(v, r, {"str"})
      BY <2>3, RegexExtractIs, AmountsMake DEF Call
    <3>2. CASE r \in {Missing, None}
      BY <2>3, <3>2 DEF Returns, Carried, Missing, None, Absent, Omit, Emptying
    <3>3. CASE Makes(v, r, {"str"})
      <4> HIDE DEF r
      <4> QED BY <2>2, <3>3, <1>0, MadeReturns DEF Flat
    <3> QED BY <3>1, <3>2, <3>3
  <2>4. CASE op \notin {"regex_extract", "format_price"}
    <3>1. Makes(v, r, {"str"})
      BY <1>2, <2>4, ConversionsMake, TextsMake, DatesMake, AmountsMake, StructuresMake
         DEF RenderOps, Call
    <3> HIDE DEF r
    <3> QED BY <2>2, <3>1, <1>0, MadeReturns DEF Flat
  <2> QED BY <2>3, <2>4
<1>3. CASE op \in EmissionOps
  <2>1. Catalog[op].out = "object"
    BY <1>3, CatalogIs
  <2>2. r.t = "emission" /\ "t" \in DOMAIN r
    BY <1>3 DEF EmissionOps, Call, EmitIfPresent, EmitNullIfMissing, OmitIfMissing, Omit, Null, Value
  <2>3. op = "emit_null_if_missing" => r = Null
    BY DEF Call, EmitNullIfMissing
  <2>4. op = "emit_if_present" /\ ~Absent(v) => r = Value(ToText(v))
    BY DEF Call, EmitIfPresent, Absent
  <2>5. Null # Omit /\ \A x : Value(x) \notin {Omit, Null}
    BY DEF Null, Omit, Value
  <2>6. Carried(r) /\ ~Absent(r) /\ HasType(r, Catalog[op].out)
    <3> HIDE DEF r
    <3> QED BY <2>1, <2>2 DEF Carried, Absent, HasType
  <2> HIDE DEF r
  <2> QED BY <1>3, <2>3, <2>4, <2>5, <2>6 DEF Returns, EmissionOps, Emptying
<1>4. CASE op \in DecimalOps
  <2>1. Makes(v, r, {"decimal"})
    BY <1>4, ConversionsMake, AmountsMake DEF DecimalOps, Call
  <2>2. Catalog[op].out = "decimal"
    BY <1>4, CatalogIs
  <2>3. \A x : x.t \in {"decimal"} => HasType(x, Catalog[op].out)
    BY <2>2 DEF HasType
  <2> HIDE DEF r
  <2> QED BY <2>1, <2>3, <1>0, MadeReturns DEF Flat
<1>5. CASE op \in UntypedOps
  <2>1. HasType(r, Catalog[op].out)
    BY <1>5, CatalogIs DEF HasType
  <2>2. r \in {v, Missing} \cup Data
    <3>1. CASE op = "get_path"
      BY <3>1, GetPathIs DEF Call
    <3>2. CASE op = "default_value"
      BY <3>2 DEF Call, DefaultValue, IsArgs
    <3> QED BY <1>5, <3>1, <3>2 DEF UntypedOps
  <2>3. Carried(r) /\ (v # Omit => r # Omit)
    BY <2>2, ParsedCarried DEF Carried, Missing, Omit
  <2>4. op \in Emptying
    BY <1>5 DEF UntypedOps, Emptying
  <2> HIDE DEF r
  <2> QED BY <2>1, <2>3, <2>4 DEF Returns
<1>6. CASE op = "to_int"
  <2>1. Makes(v, r, {"int"})
    BY <1>6, ConversionsMake DEF Call
  <2>2. \A x : x.t \in {"int"} => HasType(x, Catalog[op].out)
    BY <1>6, CatalogIs DEF HasType
  <2> HIDE DEF r
  <2> QED BY <2>1, <2>2, <1>0, MadeReturns DEF Flat
<1>7. CASE op = "to_bool"
  <2>1. Makes(v, r, {"bool"})
    BY <1>7, ConversionsMake DEF Call
  <2>2. \A x : x.t \in {"bool"} => HasType(x, Catalog[op].out)
    BY <1>7, CatalogIs DEF HasType
  <2> HIDE DEF r
  <2> QED BY <2>1, <2>2, <1>0, MadeReturns DEF Flat
<1>8. CASE op = "parse_date"
  <2>1. Makes(v, r, {"date"})
    BY <1>8, DatesMake DEF Call
  <2>2. \A x : x.t \in {"date"} => HasType(x, Catalog[op].out)
    BY <1>8, CatalogIs DEF HasType
  <2> HIDE DEF r
  <2> QED BY <2>1, <2>2, <1>0, MadeReturns DEF Flat
<1> QED BY <1>1, <1>2, <1>3, <1>4, <1>5, <1>6, <1>7, <1>8, CatalogIs
-----------------------------------------------------------------------------
(* What the compiler makes of a chain of transforms *)

\* What the arguments of a call may be, and a call as the compiler links it.
ArgsOf(context) ==
    {NoEntries} \cup {v.m : v \in Data} \cup {PreparedArgs("map_tax_code", v.m, context) : v \in Data}

OpTypes == {"any", "string", "object", "int", "bool", "decimal", "date"}

LinkedCalls(context) ==
    {call \in [op : DOMAIN Catalog, in : OpTypes, out : OpTypes,
               on_missing : AllowedOnMissing \cup {"none"}, args : ArgsOf(context)] :
        /\ call.in = Catalog[call.op].in /\ call.out = Catalog[call.op].out
        /\ IsArgs(call.args)}

\* Neighbours in a chain agree on a type, and type is what the chain ends in.
Linked(calls, type) ==
    /\ \A k \in 1..(Len(calls) - 1) : ~TypeMismatch(calls[k].out, calls[k + 1].in)
    /\ type = IF calls = <<>> THEN "any" ELSE calls[Len(calls)].out

\* A chain compiled so far, and what may be reported about it.
ChainCodes == {"SCHEMA_TYPE_OP_ARGS_INVALID", "SCHEMA_LINK_OP_INVALID", "SCHEMA_LINK_OP_NOT_ALLOWED",
               "SCHEMA_LINK_OP_NOT_FOUND", "SCHEMA_TYPE_ENUM_INVALID", "SCHEMA_TYPE_MISMATCH"}

Chains(id, context) ==
    {acc \in [type : OpTypes, calls : Seq(LinkedCalls(context)),
              diags : SUBSET {Diag(code, id) : code \in ChainCodes}, raised : BOOLEAN] :
        acc.diags = {} => Linked(acc.calls, acc.type)}

LEMMA CatalogTypes ==
    ASSUME NEW op \in DOMAIN Catalog
    PROVE  Catalog[op].in \in OpTypes /\ Catalog[op].out \in OpTypes
<1>1. Catalog[op].in \in {"string", "any"}
  BY CatalogIs
<1>2. Catalog[op].out \in {"string", "object", "decimal", "any", "int", "bool", "date"}
  BY CatalogIs
<1> QED BY <1>1, <1>2 DEF OpTypes

\* The arguments a transform brings are parsed values.
LEMMA ArgsAre ==
    ASSUME NEW raw \in Data, NEW op, NEW context, IsMapping(raw), IsMapping(Get(raw, "args", None))
    PROVE  LET args == PreparedArgs(op, Get(raw, "args", None).m, context)
           IN  args \in ArgsOf(context) /\ IsArgs(args)
<1> DEFINE given == Get(raw, "args", None)
<1>1. given \in Data /\ given.t = "dict"
  BY ItemAssumption DEF Get, Has, IsMapping, IsParsed, None
<1> HIDE DEF given
<1>2. IsArgs(given.m)
  BY <1>1, ItemAssumption DEF IsArgs, IsParsed, Has, IsMapping
<1>3. IsArgs(PreparedArgs(op, given.m, context))
  BY <1>2 DEF PreparedArgs, IsArgs
<1>4. PreparedArgs(op, given.m, context) \in ArgsOf(context)
  BY <1>1 DEF PreparedArgs, ArgsOf
<1> QED BY <1>3, <1>4 DEF given

\* One more transform keeps a chain one.
LEMMA TransformKeeps ==
    ASSUME NEW id, NEW context, NEW acc \in Chains(id, context), NEW raw \in Data
    PROVE  CompileTransform(acc, raw, id, context) \in Chains(id, context)
<1> DEFINE op         == Get(raw, "op", None)
           args       == Get(raw, "args", None)
           on_missing == Get(raw, "on_missing", None)
           types      == Catalog[op.s]
           call == [op |-> op.s, in |-> types.in, out |-> types.out,
                    on_missing |-> IF StrIn(on_missing, AllowedOnMissing) THEN on_missing.s
                                                                          ELSE "none",
                    args |-> IF IsMapping(args) THEN PreparedArgs(op.s, args.m, context)
                                                ELSE NoEntries]
           found  == acc.diags
                  \cup ErrorIf(args # None /\ ~IsMapping(args), "SCHEMA_TYPE_OP_ARGS_INVALID", id)
                  \cup ErrorIf(on_missing # None /\ ~StrIn(on_missing, AllowedOnMissing),
                               "SCHEMA_TYPE_ENUM_INVALID", id)
                  \cup ErrorIf(TypeMismatch(acc.type, types.in), "SCHEMA_TYPE_MISMATCH", id)
           longer == [type |-> types.out, raised |-> FALSE, diags |-> found,
                      calls |-> Append(acc.calls, call)]
           Reject(code) == [acc EXCEPT !.diags = @ \cup {Diag(code, id)}]
           made == CompileTransform(acc, raw, id, context)
<1>1. \/ made = acc
      \/ \E code \in ChainCodes : made = Reject(code)
      \/ made = [acc EXCEPT !.raised = TRUE]
      \/ IsMapping(raw) /\ op.s \in DOMAIN Catalog /\ made = longer
  <2>1. \/ made = acc
        \/ made = Reject("SCHEMA_TYPE_OP_ARGS_INVALID")
        \/ made = Reject("SCHEMA_LINK_OP_INVALID")
        \/ made = Reject("SCHEMA_LINK_OP_NOT_ALLOWED")
        \/ made = Reject("SCHEMA_LINK_OP_NOT_FOUND")
        \/ made = [acc EXCEPT !.raised = TRUE]
        \/ IsMapping(raw) /\ op.s \in DOMAIN Catalog /\ made = longer
    BY Zenon DEF CompileTransform
  <2> HIDE DEF made, longer, Reject
  <2> QED BY <2>1 DEF ChainCodes
<1>2. /\ acc \in [type : OpTypes, calls : Seq(LinkedCalls(context)),
                  diags : SUBSET {Diag(code, id) : code \in ChainCodes}, raised : BOOLEAN]
      /\ acc.diags = {} => Linked(acc.calls, acc.type)
  BY DEF Chains
<1>3. ASSUME NEW code \in ChainCodes
      PROVE  Reject(code) \in Chains(id, context)
  BY <1>2 DEF Chains
<1>4. [acc EXCEPT !.raised = TRUE] \in Chains(id, context)
  BY <1>2 DEF Chains
<1>5. CASE IsMapping(raw) /\ op.s \in DOMAIN Catalog /\ made = longer
  <2> HIDE DEF op, on_missing, made
  <2>1. call.args \in ArgsOf(context) /\ IsArgs(call.args)
    BY <1>5, ArgsAre DEF ArgsOf, IsArgs, NoEntries
  <2>2. call.on_missing \in AllowedOnMissing \cup {"none"}
    BY DEF StrIn
  <2>3. types.in \in OpTypes /\ types.out \in OpTypes
    BY <1>5, CatalogTypes
  <2>4. call.op = op.s /\ call.in = types.in /\ call.out = types.out
    OBVIOUS
  <2>5. call \in LinkedCalls(context)
    <3>1. call = [op |-> call.op, in |-> call.in, out |-> call.out,
                  on_missing |-> call.on_missing, args |-> call.args]
      OBVIOUS
    <3> HIDE DEF call, types
    <3> QED BY <1>5, <2>1, <2>2, <2>3, <2>4, <3>1 DEF LinkedCalls, types
  <2>6. found \in SUBSET {Diag(code, id) : code \in ChainCodes}
    <3> DEFINE D == {Diag(code, id) : code \in ChainCodes}
    <3>1. /\ Diag("SCHEMA_TYPE_OP_ARGS_INVALID", id) \in D
          /\ Diag("SCHEMA_TYPE_ENUM_INVALID", id) \in D
          /\ Diag("SCHEMA_TYPE_MISMATCH", id) \in D
      BY DEF ChainCodes
    <3>2. acc.diags \in SUBSET D
      BY <1>2
    <3> HIDE DEF D, types
    <3>3. found \in SUBSET D
      BY <3>1, <3>2 DEF ErrorIf
    <3> QED BY <3>3 DEF D
  <2>7. found = {} => acc.diags = {} /\ ~TypeMismatch(acc.type, types.in)
    BY DEF ErrorIf
  <2> HIDE DEF call, found, args
  <2>8. Append(acc.calls, call) \in Seq(LinkedCalls(context))
    BY <1>2, <2>5
  <2>9. ASSUME Linked(acc.calls, acc.type), ~TypeMismatch(acc.type, types.in)
        PROVE  Linked(Append(acc.calls, call), types.out)
    <3> DEFINE cs == acc.calls
               n  == Len(cs)
               ds == Append(cs, call)
    <3>1. cs \in Seq(LinkedCalls(context)) /\ n \in Nat
      BY <1>2
    <3> HIDE DEF types
    <3>2. /\ Len(ds) = n + 1 /\ ds[n + 1] = call /\ ds # <<>>
          /\ \A k \in 1..n : ds[k] = cs[k]
      BY <3>1, <2>5, AppendProperties
    <3>3. \A k \in 1..(n - 1) : ~TypeMismatch(cs[k].out, cs[k + 1].in)
      BY <2>9 DEF Linked
    <3>4. n # 0 => acc.type = cs[n].out
      BY <2>9, <3>1, EmptySeq DEF Linked
    <3> HIDE DEF cs, n, ds
    <3>5. ASSUME NEW k \in 1..n PROVE ~TypeMismatch(ds[k].out, ds[k + 1].in)
      <4>1. CASE k = n
        BY <2>4, <2>9, <3>1, <3>2, <3>4, <4>1
      <4>2. CASE k # n
        <5>1. k \in 1..(n - 1) /\ k + 1 \in 1..n
          BY <3>1, <4>2
        <5> QED BY <3>2, <3>3, <5>1
      <4> QED BY <4>1, <4>2
    <3>6. Linked(ds, types.out)
      <4>1. Len(ds) - 1 = n
        BY <3>1, <3>2
      <4> QED BY <2>4, <3>2, <3>5, <4>1 DEF Linked
    <3> QED BY <3>6 DEF ds, cs
  <2>10. longer \in Chains(id, context)
    <3>1. found = {} => Linked(Append(acc.calls, call), types.out)
      BY <1>2, <2>7, <2>9
    <3> HIDE DEF types
    <3> QED BY <2>3, <2>6, <2>8, <3>1 DEF Chains
  <2> QED BY <1>5, <2>10 DEF made
<1> HIDE DEF longer, made, Reject
<1> QED BY <1>1, <1>3, <1>4, <1>5 DEF made
\* The chain of a list of transforms.
ChainOf(list, id, context) ==
    FoldLeft(LAMBDA acc, raw : CompileTransform(acc, raw, id, context),
             [type |-> "any", calls |-> <<>>, diags |-> {}, raised |-> FALSE], list)

LEMMA ChainIs ==
    ASSUME NEW id, NEW context, NEW list \in Seq(Data)
    PROVE  ChainOf(list, id, context) \in Chains(id, context)
<1> DEFINE n == Len(list)
           A == Chains(id, context)
           empty == [type |-> "any", calls |-> <<>>, diags |-> {}, raised |-> FALSE]
           Step(f, s) == IF s = {} THEN empty
                         ELSE CompileTransform(f[s \ {Max(s)}], list[Max(s)], id, context)
           folded == CHOOSE f : f = [s \in SUBSET (DOMAIN list) |-> Step(f, s)]
           g == [a \in A |-> [i \in 1..n |-> CompileTransform(a, list[i], id, context)]]
<1>1. n \in Nat /\ DOMAIN list = 1..n /\ \A i \in 1..n : list[i] \in Data
  OBVIOUS
<1>2. ChainOf(list, id, context) = folded[DOMAIN list]
  BY DEF ChainOf, FoldLeft, MapThenFoldSet
<1>3. ASSUME NEW a \in A, NEW i \in 1..n PROVE CompileTransform(a, list[i], id, context) \in A
  BY <1>1, TransformKeeps
<1>4. g \in [A -> [1..n -> A]]
  <2> HIDE DEF A
  <2> QED BY <1>3
<1>0. empty \in A
  <2>1. <<>> \in Seq(LinkedCalls(context)) /\ Len(<<>>) = 0
    OBVIOUS
  <2> QED BY <2>1 DEF Chains, OpTypes, Linked
<1> HIDE DEF n, A, empty
<1>5. PICK f \in [SUBSET (1..n) -> A] : Folds(f, empty, g, n)
  <2> HIDE DEF g
  <2> QED BY <1>0, <1>1, <1>4, FoldExists
<1>6. \A s \in SUBSET (1..n) : f[s] = Step(f, s)
  <2> SUFFICES ASSUME NEW s \in SUBSET (1..n) PROVE f[s] = Step(f, s)
    OBVIOUS
  <2>1. f[s] = IF s = {} THEN empty ELSE g[f[s \ {Max(s)}]][Max(s)]
    BY <1>5 DEF Folds
  <2>2. s # {} => f[s \ {Max(s)}] \in A /\ Max(s) \in 1..n
    BY <1>1, MaxIs
  <2> QED BY <2>1, <2>2
<1>7. f = [s \in SUBSET (DOMAIN list) |-> Step(f, s)]
  <2> HIDE DEF Step
  <2> QED BY <1>1, <1>6
<1>8. folded = [s \in SUBSET (DOMAIN list) |-> Step(folded, s)]
  <2> HIDE DEF Step
  <2> QED BY <1>7
<1>9. \A s \in SUBSET (1..n) : folded[s] = Step(folded, s)
  <2> HIDE DEF Step, folded
  <2> QED BY <1>1, <1>8
<1> HIDE DEF folded
<1>10. folded[1..n] \in A
  <2>1. folded[{}] \in A
    BY <1>0, <1>9
  <2>2. ASSUME NEW s \in SUBSET (1..n), s # {}, folded[s \ {Max(s)}] \in A PROVE folded[s] \in A
    <3>1. Max(s) \in 1..n
      BY <1>1, <2>2, MaxIs
    <3>2. folded[s] = CompileTransform(folded[s \ {Max(s)}], list[Max(s)], id, context)
      BY <1>9, <2>2
    <3> HIDE DEF Max
    <3> QED BY <1>3, <2>2, <3>1, <3>2
  <2> QED BY <1>1, <2>1, <2>2, FoldStays
<1> QED BY <1>1, <1>2, <1>10 DEF A

-----------------------------------------------------------------------------
(* What the compiler makes of a field, of the mapping and of the rules, when it has *)
(* nothing to report                                                                *)

\* A field of a plan.
LinkedField(field, context) ==
    /\ field.path \in Seq(STRING)
    /\ field.presence \in AllowedPresence
    /\ field.calls \in Seq(LinkedCalls(context))
    /\ \A k \in 1..(Len(field.calls) - 1) :
          ~TypeMismatch(field.calls[k].out, field.calls[k + 1].in)

LEMMA PresenceIs ==
    ASSUME NEW section, NEW default, StrIn(default, AllowedPresence)
    PROVE  StrIn(PresenceOf(section, default), AllowedPresence)
BY DEF PresenceOf

LEMMA FieldCompiles ==
    ASSUME NEW s \in Schemas, NEW id \in DOMAIN FieldsOf(s.doc), NEW context,
           IsMapping(FieldsOf(s.doc)[id]),
           NEW presence, StrIn(presence, AllowedPresence),
           CompileField(FieldsOf(s.doc)[id], id, presence, context).diags = {}
    PROVE  LinkedField(CompileField(FieldsOf(s.doc)[id], id, presence, context).plan, context)
<1> DEFINE field      == FieldsOf(s.doc)[id]
           source     == Get(field, "source", None)
           path       == Get(source, "path", None)
           transforms == Get(field, "transforms", List(<<>>))
           list       == IF transforms.t = "list" THEN transforms.e ELSE <<>>
           chain      == ChainOf(list, id, context)
           plan       == [path |-> IF IsStr(path) THEN path.segs ELSE <<>>,
                          calls |-> chain.calls, presence |-> PresenceOf(field, presence).s]
<1>1. /\ CompileField(field, id, presence, context).plan = plan
      /\ chain.diags \subseteq CompileField(field, id, presence, context).diags
  BY DEF CompileField, ChainOf
<1>2. list \in Seq(Data)
  <2>1. Get(field, "transforms", None) \in ListsOf(s.doc)
    BY DEF ListsOf
  <2>2. \/ transforms = Get(field, "transforms", None)
        \/ transforms = List(<<>>)
    BY DEF Get
  <2>3. <<>> \in Seq(Data) /\ List(<<>>).e = <<>>
    BY DEF List
  <2> HIDE DEF transforms, field
  <2> QED BY <2>1, <2>2, <2>3, ItemAssumption
<1>3. chain \in Chains(id, context)
  <2> HIDE DEF list
  <2> QED BY <1>2, ChainIs
<1>4. IsStr(path) => path.segs \in Seq(STRING)
  <2>1. source \in Data
    BY ItemAssumption DEF SourcesOf
  <2> HIDE DEF source
  <2>2. path = None \/ (Has(source, "path") /\ path = source.m["path"])
    BY DEF Get
  <2> HIDE DEF path
  <2> QED BY <2>1, <2>2, ItemAssumption DEF IsParsed, None, IsStr
<1>5. PresenceOf(field, presence).s \in AllowedPresence
  BY PresenceIs DEF StrIn
<1>6. chain.diags = {} /\ chain.calls \in Seq(LinkedCalls(context)) /\ Linked(chain.calls, chain.type)
  <2> HIDE DEF chain
  <2> QED BY <1>1, <1>3 DEF Chains
<1>7. plan.path \in Seq(STRING) /\ plan.presence \in AllowedPresence /\ plan.calls = chain.calls
  <2> HIDE DEF chain, path, field
  <2>1. <<>> \in Seq(STRING)
    OBVIOUS
  <2> QED BY <1>4, <1>5, <2>1
<1> HIDE DEF chain, plan, field
<1> QED BY <1>1, <1>6, <1>7 DEF LinkedField, Linked, field
\* A plan that the executors can follow: the output order of rows lists every field once.
LinkedPlan(plan, context) ==
    /\ \A id \in DOMAIN plan.fields : LinkedField(plan.fields[id], context)
    /\ DOMAIN plan.fields \subseteq ToSet(Alphabet)
    /\ plan.kind = "csv_row" =>
          /\ plan.ordered /\ plan.order \in Seq(DOMAIN plan.fields)
          /\ Len(plan.order) = Cardinality(DOMAIN plan.fields)
          /\ \A id \in DOMAIN plan.fields : \E i \in DOMAIN plan.order : plan.order[i] = id

LEMMA MappingCompiles ==
    ASSUME NEW s \in Schemas, NEW context, CompileMapping(s.doc, context).diags = {}
    PROVE  /\ LinkedPlan(CompileMapping(s.doc, context).plan, context)
           /\ DOMAIN CompileMapping(s.doc, context).types
                 = DOMAIN CompileMapping(s.doc, context).plan.fields
<1> DEFINE mapping  == Get(s.doc, "mapping", None)
           presence == PresenceOf(mapping, S("omit_missing"))
           kind     == Get(mapping, "output_kind", None)
           byId     == FieldsOf(s.doc)
           known    == {id \in DOMAIN byId : IsMapping(byId[id])}
           each     == [id \in known |-> CompileField(byId[id], id, presence, context)]
           order    == Get(mapping, "output_order", None)
           output_kind == IF StrIn(kind, {"csv_row", "json_object"}) THEN kind.s ELSE "json_object"
           plan     == [kind   |-> output_kind,
                        order  |-> IF output_kind = "csv_row" /\ HasType(order, "array[string]")
                                   THEN [i \in DOMAIN order.e |-> order.e[i].s] ELSE <<>>,
                        ordered |-> output_kind = "csv_row" /\ HasType(order, "array[string]"),
                        fields |-> [id \in known |-> each[id].plan],
                        tombstone |-> Tombstone(mapping)]
           made     == CompileMapping(s.doc, context)
<1>1. made.plan = plan /\ DOMAIN made.types = known
  BY DEF CompileMapping, FieldsOf
<1> DEFINE orderErrors == OutputOrderErrors(output_kind, order, known)
           fieldErrors == UNION {each[id].diags : id \in known}
<1>2. fieldErrors \subseteq made.diags /\ orderErrors \subseteq made.diags
  <2>1. CASE IsMapping(mapping)
    <3> DEFINE a == GlobalPresenceErrors(mapping)
               b == Tombstone(mapping).diags
               c == ErrorIf(~StrIn(kind, {"csv_row", "json_object"}),
                            "COMPILER_MAPPING_OUTPUT_KIND_INVALID", "mapping")
               d == ErrorIf(~IsMapping(Get(mapping, "fields", None)),
                            "COMPILER_MAPPING_FIELDS_INVALID", "mapping")
               e == ErrorIf(known # DOMAIN byId, "COMPILER_MAPPING_FIELD_INVALID", "mapping")
    <3> DEFINE all == fieldErrors \cup a \cup orderErrors \cup b \cup c \cup d \cup e
               alone == {Diag("COMPILER_MAPPING_OUTPUT_KIND_INVALID", "mapping")}
    <3>1. made.diags = all
      BY <2>1 DEF CompileMapping, FieldsOf
    <3> HIDE DEF fieldErrors, orderErrors, a, b, c, d, e, made
    <3> QED BY <3>1
  <2>2. CASE ~IsMapping(mapping)
    <3>1. made.diags # {}
      BY <2>2 DEF CompileMapping
    <3> QED BY <3>1
  <2> QED BY <2>1, <2>2
<1>3. plan.fields = [id \in known |-> each[id].plan] /\ plan.kind = output_kind
  OBVIOUS
<1>4. /\ output_kind = "csv_row" /\ HasType(order, "array[string]") =>
            plan.order = [i \in DOMAIN order.e |-> order.e[i].s]
      /\ output_kind = "csv_row" /\ HasType(order, "array[string]") => plan.ordered
  OBVIOUS
<1>5. OutputOrderErrors(output_kind, order, known) = {} /\ \A id \in known : each[id].diags = {}
  <2>1. orderErrors = {} /\ fieldErrors = {}
    <3> HIDE DEF orderErrors, fieldErrors, made
    <3>1. made.diags = {}
      BY DEF made
    <3> QED BY <1>2, <3>1
  <2> HIDE DEF each, known
  <2>2. ASSUME NEW id \in known PROVE each[id].diags = {}
    <3>1. each[id].diags \subseteq fieldErrors
      OBVIOUS
    <3> HIDE DEF fieldErrors
    <3> QED BY <2>1, <3>1
  <2> HIDE DEF fieldErrors, order, output_kind
  <2> QED BY <2>1, <2>2
<1> HIDE DEF plan, made
<1>6. ASSUME NEW id \in known PROVE LinkedField(plan.fields[id], context)
  <2>1. StrIn(presence, AllowedPresence)
    <3>1. StrIn(S("omit_missing"), AllowedPresence)
      BY DEF StrIn, S, Str, IsStr, AllowedPresence
    <3> QED BY <3>1, PresenceIs
  <2> HIDE DEF presence
  <2>2. CompileField(byId[id], id, presence, context).diags = {}
    BY <1>5
  <2>3. plan.fields[id] = CompileField(byId[id], id, presence, context).plan
    BY <1>3
  <2> QED BY <2>1, <2>2, <2>3, FieldCompiles
<1>7. known \subseteq ToSet(Alphabet)
  BY ItemAssumption
<1>8. ASSUME output_kind = "csv_row"
      PROVE  /\ plan.ordered /\ plan.order \in Seq(known)
             /\ Len(plan.order) = Cardinality(known)
             /\ \A id \in known : \E i \in DOMAIN plan.order : plan.order[i] = id
  <2> DEFINE ids == {order.e[i].s : i \in DOMAIN order.e}
  <2> HIDE DEF known, output_kind
  <2>1. HasType(order, "array[string]") /\ ids \subseteq known /\ known \subseteq ids
        /\ Len(order.e) = Cardinality(ids)
    BY <1>5, <1>8 DEF OutputOrderErrors, ErrorIf
  <2>2. order.e \in Seq(Data)
    <3>1. order.t = "list" /\ order \in ListsOf(s.doc)
      BY <2>1 DEF HasType, ListsOf
    <3> HIDE DEF order
    <3> QED BY <3>1, ItemAssumption
  <2>3. plan.order = [i \in DOMAIN order.e |-> order.e[i].s] /\ plan.ordered
    BY <1>4, <1>8, <2>1
  <2> HIDE DEF order
  <2>4. DOMAIN order.e = 1..Len(order.e) /\ Len(order.e) \in Nat
    BY <2>2
  <2>5. plan.order \in [1..Len(order.e) -> known]
    BY <2>1, <2>3, <2>4
  <2>6. plan.order \in Seq(known) /\ Len(plan.order) = Len(order.e)
    BY <2>4, <2>5, IsASeq, LenProperties
  <2>7. ids = known
    BY <2>1
  <2>8. \A id \in known : \E i \in DOMAIN plan.order : plan.order[i] = id
    <3>1. DOMAIN plan.order = DOMAIN order.e /\ \A i \in DOMAIN order.e : plan.order[i] = order.e[i].s
      BY <2>3
    <3>2. \A id \in ids : \E i \in DOMAIN order.e : order.e[i].s = id
      OBVIOUS
    <3> HIDE DEF ids
    <3> QED BY <2>7, <3>1, <3>2
  <2> HIDE DEF ids
  <2> QED BY <2>1, <2>3, <2>6, <2>7, <2>8
<1> HIDE DEF known, output_kind, each
<1> QED BY <1>1, <1>3, <1>6, <1>7, <1>8 DEF LinkedPlan, made

\* A rule as compiled, and the rules compiled so far from a list.
RuleOf(rule) ==
    [module |-> Get(rule, "module_id", None).s, field |-> RuleField(rule),
     config |-> AsMapping(Get(rule, "config", Dict(NoEntries))).m,
     hint |-> RuleHint(rule)]

RuleCodes == {"COMPILER_VALIDATION_INVALID", "SCHEMA_LINK_MODULE_INVALID",
              "SCHEMA_LINK_MODULE_NOT_ALLOWED", "SCHEMA_LINK_MODULE_NOT_FOUND",
              "COMPILER_FIELD_UNDEFINED", "SCHEMA_TYPE_VALIDATION_MISMATCH"}

RuleLists(list, types) ==
    {acc \in [rules    : Seq({RuleOf(list[i]) : i \in DOMAIN list}),
              required : SUBSET {RuleField(list[i]) : i \in DOMAIN list},
              diags    : SUBSET {Diag(code, "rules") : code \in RuleCodes}] :
        acc.diags = {} => acc.required \subseteq DOMAIN types}

LEMMA RuleKeeps ==
    ASSUME NEW list, NEW types, NEW acc \in RuleLists(list, types), NEW i \in DOMAIN list
    PROVE  CompileRule(acc, list[i], types) \in RuleLists(list, types)
<1> DEFINE rule   == list[i]
           module == Get(rule, "module_id", None)
           field  == RuleField(rule)
           config == Get(rule, "config", Dict(NoEntries))
           Reject(code) == [acc EXCEPT !.diags = @ \cup {Diag(code, "rules")}]
           wanted == acc.required \cup
                  IF module.s = "required_if_profile" /\ field # "none" THEN {field} ELSE {}
           found  == acc.diags
                  \cup ErrorIf(field # "none" /\ field \notin DOMAIN types,
                               "COMPILER_FIELD_UNDEFINED", "rules")
                  \cup ErrorIf(/\ field \in DOMAIN types
                               /\ TypeMismatch(types[field], ModuleTypes[module.s]),
                               "SCHEMA_TYPE_VALIDATION_MISMATCH", "rules")
                  \cup ErrorIf(~IsMapping(config), "COMPILER_VALIDATION_INVALID", "rules")
           longer == [rules |-> Append(acc.rules, RuleOf(rule)), required |-> wanted, diags |-> found]
           D      == {Diag(code, "rules") : code \in RuleCodes}
           made   == CompileRule(acc, rule, types)
<1>1. \/ made = Reject("COMPILER_VALIDATION_INVALID")
      \/ made = Reject("SCHEMA_LINK_MODULE_INVALID")
      \/ made = Reject("SCHEMA_LINK_MODULE_NOT_ALLOWED")
      \/ made = Reject("SCHEMA_LINK_MODULE_NOT_FOUND")
      \/ made = longer
  BY Zenon DEF CompileRule, RuleOf
<1>2. /\ acc \in [rules    : Seq({RuleOf(list[k]) : k \in DOMAIN list}),
                  required : SUBSET {RuleField(list[k]) : k \in DOMAIN list},
                  diags    : SUBSET D]
      /\ acc.diags = {} => acc.required \subseteq DOMAIN types
  BY DEF RuleLists
<1>3. \A code \in RuleCodes : Reject(code) \in RuleLists(list, types)
  BY <1>2 DEF RuleLists
<1>4. longer \in RuleLists(list, types)
  <2>1. Append(acc.rules, RuleOf(rule)) \in Seq({RuleOf(list[k]) : k \in DOMAIN list})
    <3> DEFINE R == {RuleOf(list[k]) : k \in DOMAIN list}
    <3>1. acc.rules \in Seq(R) /\ RuleOf(rule) \in R
      BY <1>2
    <3> HIDE DEF R, rule
    <3>2. Append(acc.rules, RuleOf(rule)) \in Seq(R)
      BY <3>1
    <3> QED BY <3>2 DEF R
  <2>2. wanted \in SUBSET {RuleField(list[k]) : k \in DOMAIN list}
    BY <1>2
  <2>3. found \in SUBSET D
    <3>1. /\ Diag("COMPILER_FIELD_UNDEFINED", "rules") \in D
          /\ Diag("SCHEMA_TYPE_VALIDATION_MISMATCH", "rules") \in D
          /\ Diag("COMPILER_VALIDATION_INVALID", "rules") \in D
      BY DEF RuleCodes
    <3>2. acc.diags \in SUBSET D
      BY <1>2
    <3> HIDE DEF D, module, field, config
    <3> QED BY <3>1, <3>2 DEF ErrorIf
  <2>4. found = {} => wanted \subseteq DOMAIN types
    <3>1. found = {} => acc.diags = {} /\ (field # "none" => field \in DOMAIN types)
      BY DEF ErrorIf
    <3> HIDE DEF found, field, module
    <3> QED BY <1>2, <3>1
  <2> HIDE DEF wanted, found, rule
  <2> QED BY <2>1, <2>2, <2>3, <2>4 DEF RuleLists
<1> HIDE DEF made, longer, Reject
<1>5. made \in RuleLists(list, types)
  BY <1>1, <1>3, <1>4 DEF RuleCodes
<1> QED BY <1>5 DEF made

\* What the rules of a list compile to.
RulesFrom(list, types) ==
    FoldLeft(LAMBDA acc, rule : CompileRule(acc, rule, types), NoRules({}), list)

LEMMA RulesAre ==
    ASSUME NEW n \in Nat, NEW list, DOMAIN list = 1..n, NEW types
    PROVE  RulesFrom(list, types) \in RuleLists(list, types)
<1> DEFINE A == RuleLists(list, types)
           none == NoRules({})
           Step(f, s) == IF s = {} THEN none
                         ELSE CompileRule(f[s \ {Max(s)}], list[Max(s)], types)
           folded == CHOOSE f : f = [s \in SUBSET (DOMAIN list) |-> Step(f, s)]
           g == [a \in A |-> [i \in 1..n |-> CompileRule(a, list[i], types)]]
<1>1. RulesFrom(list, types) = folded[DOMAIN list]
  BY DEF RulesFrom, FoldLeft, MapThenFoldSet
<1>2. ASSUME NEW a \in A, NEW i \in 1..n PROVE CompileRule(a, list[i], types) \in A
  BY RuleKeeps
<1>3. g \in [A -> [1..n -> A]]
  <2> HIDE DEF A
  <2> QED BY <1>2
<1>4. none \in A
  BY DEF RuleLists, NoRules
<1> HIDE DEF A, none
<1>5. PICK f \in [SUBSET (1..n) -> A] : Folds(f, none, g, n)
  <2> HIDE DEF g
  <2> QED BY <1>3, <1>4, FoldExists
<1>6. \A s \in SUBSET (1..n) : f[s] = Step(f, s)
  <2> SUFFICES ASSUME NEW s \in SUBSET (1..n) PROVE f[s] = Step(f, s)
    OBVIOUS
  <2>1. f[s] = IF s = {} THEN none ELSE g[f[s \ {Max(s)}]][Max(s)]
    BY <1>5 DEF Folds
  <2>2. s # {} => f[s \ {Max(s)}] \in A /\ Max(s) \in 1..n
    BY MaxIs
  <2> QED BY <2>1, <2>2
<1>7. f = [s \in SUBSET (DOMAIN list) |-> Step(f, s)]
  <2> HIDE DEF Step
  <2> QED BY <1>6
<1>8. folded = [s \in SUBSET (DOMAIN list) |-> Step(folded, s)]
  <2> HIDE DEF Step
  <2> QED BY <1>7
<1>9. \A s \in SUBSET (1..n) : folded[s] = Step(folded, s)
  <2> HIDE DEF Step, folded
  <2> QED BY <1>8
<1> HIDE DEF folded
<1>10. folded[1..n] \in A
  <2>1. folded[{}] \in A
    BY <1>4, <1>9
  <2>2. ASSUME NEW s \in SUBSET (1..n), s # {}, folded[s \ {Max(s)}] \in A PROVE folded[s] \in A
    <3>1. Max(s) \in 1..n
      BY <2>2, MaxIs
    <3>2. folded[s] = CompileRule(folded[s \ {Max(s)}], list[Max(s)], types)
      BY <1>9, <2>2
    <3> HIDE DEF Max
    <3> QED BY <1>2, <2>2, <3>1, <3>2
  <2> QED BY <2>1, <2>2, FoldStays
<1> QED BY <1>1, <1>10 DEF A

\* The rules of a document are a list of values.
LEMMA RulesAreData ==
    ASSUME NEW s \in Schemas, RulesOf(s.doc).t = "list"
    PROVE  RulesOf(s.doc).e \in Seq(Data)
<1>1. RulesOf(s.doc) \in ListsOf(s.doc)
  BY DEF ListsOf
<1> QED BY <1>1, ItemAssumption

LEMMA ValidationCompiles ==
    ASSUME NEW s \in Schemas, NEW types, CompileValidation(s.doc, types).diags = {}
    PROVE  CompileValidation(s.doc, types).required \subseteq DOMAIN types
<1> DEFINE rules == RulesOf(s.doc)
           list  == OrderedRules(rules.e)
           made  == CompileValidation(s.doc, types)
<1>1. rules.t = "list" /\ made = RulesFrom(list, types)
  BY DEF CompileValidation, CompileRules, RulesFrom, NoRules
<1>2. rules.e \in Seq(Data)
  BY <1>1, RulesAreData
<1>3. Len(rules.e) \in Nat /\ DOMAIN list = 1..Len(rules.e)
  BY <1>2 DEF OrderedRules
<1> HIDE DEF list
<1>4. RulesFrom(list, types) \in RuleLists(list, types)
  BY <1>3, RulesAre
<1> HIDE DEF made, rules
<1> QED BY <1>1, <1>4 DEF RuleLists, made

\* A compiled schema that is valid has a plan to follow, and demands no field that is
\* missing from the plan or may be left out of a record by its presence.
LinkedSchema(c, context) ==
    /\ LinkedPlan(c.mapping, context)
    /\ c.required \subseteq DOMAIN c.mapping.fields
    /\ \A id \in c.required : c.mapping.fields[id].presence # "omit_missing"

LEMMA ValidIsLinked ==
    ASSUME NEW s \in Schemas, NEW context, Compile(s.doc, context).valid
    PROVE  LinkedSchema(Compile(s.doc, context), context)
<1> DEFINE mapping    == CompileMapping(s.doc, context)
           validation == CompileValidation(s.doc, mapping.types)
           made       == Compile(s.doc, context)
           diags == CompileWriterSpec(s.doc).diags \cup mapping.diags \cup validation.diags
                    \cup Contradictions(mapping.plan.fields, validation.required)
<1>1. made.valid <=> diags = {}
  BY Zenon DEF Compile
<1>2. made.mapping = mapping.plan /\ made.required = validation.required
  BY DEF Compile
<1> HIDE DEF made, mapping, validation
<1>3. mapping.diags = {} /\ validation.diags = {}
      /\ Contradictions(mapping.plan.fields, validation.required) = {}
  BY <1>1 DEF made
<1>4. LinkedPlan(mapping.plan, context) /\ DOMAIN mapping.types = DOMAIN mapping.plan.fields
  BY <1>3, MappingCompiles DEF mapping
<1>5. validation.required \subseteq DOMAIN mapping.types
  BY <1>3, ValidationCompiles DEF validation
<1>6. \A id \in validation.required : mapping.plan.fields[id].presence # "omit_missing"
  BY <1>3, <1>4, <1>5 DEF Contradictions
<1> QED BY <1>2, <1>4, <1>5, <1>6 DEF LinkedSchema, made

-----------------------------------------------------------------------------
(* The order of the rules *)

\* A strict total order on positions gives each of them a place of its own: the number of
\* those before it.
OrdersPositions(R, n) ==
    /\ \A i \in 1..n : <<i, i>> \notin R
    /\ \A i, j \in 1..n : i # j => <<i, j>> \in R \/ <<j, i>> \in R
    /\ \A i, j, k \in 1..n : <<i, j>> \in R /\ <<j, k>> \in R => <<i, k>> \in R

Places(R, n) == [i \in 1..n |-> Cardinality({j \in 1..n : <<j, i>> \in R})]

LEMMA PlacesAre ==
    ASSUME NEW n \in Nat, NEW R, OrdersPositions(R, n)
    PROVE  Places(R, n) \in Bijection(1..n, 0..(n - 1))
<1> DEFINE Earlier(i) == {j \in 1..n : <<j, i>> \in R}
           place == [i \in 1..n |-> Cardinality(Earlier(i))]
<1>0. /\ \A i \in 1..n : <<i, i>> \notin R
      /\ \A i, j \in 1..n : i # j => <<i, j>> \in R \/ <<j, i>> \in R
      /\ \A i, j, k \in 1..n : <<i, j>> \in R /\ <<j, k>> \in R => <<i, k>> \in R
  BY DEF OrdersPositions
<1>1. IsFiniteSet(1..n) /\ Cardinality(1..n) = n
  BY FS_Interval
<1>2. ASSUME NEW i \in 1..n
      PROVE  IsFiniteSet(Earlier(i)) /\ Cardinality(Earlier(i)) \in 0..(n - 1)
  <2>1. IsFiniteSet((1..n) \ {i}) /\ Cardinality((1..n) \ {i}) = n - 1
    BY <1>1, FS_RemoveElement
  <2>2. Earlier(i) \in SUBSET ((1..n) \ {i})
    BY <1>0
  <2>3. IsFiniteSet(Earlier(i)) /\ Cardinality(Earlier(i)) <= n - 1
    <3> HIDE DEF Earlier
    <3>1. IsFiniteSet(Earlier(i)) /\ Cardinality(Earlier(i)) <= Cardinality((1..n) \ {i})
      BY <2>1, <2>2, FS_Subset
    <3> QED BY <2>1, <3>1
  <2>4. Cardinality(Earlier(i)) \in Nat
    <3> HIDE DEF Earlier
    <3> QED BY <2>3, FS_CardinalityType
  <2> HIDE DEF Earlier
  <2> QED BY <2>3, <2>4
<1>3. ASSUME NEW i \in 1..n, NEW j \in 1..n, <<i, j>> \in R
      PROVE  Cardinality(Earlier(i)) # Cardinality(Earlier(j))
  <2>1. Earlier(i) \in SUBSET Earlier(j) /\ i \in Earlier(j) /\ i \notin Earlier(i)
    BY <1>0, <1>3
  <2>2. IsFiniteSet(Earlier(j))
    BY <1>2
  <2> HIDE DEF Earlier
  <2>3. Cardinality(Earlier(i)) = Cardinality(Earlier(j)) => Earlier(j) = Earlier(i)
    BY <2>1, <2>2, FS_Subset
  <2> QED BY <2>1, <2>3
<1> HIDE DEF Earlier
<1>4. place \in Injection(1..n, 0..(n - 1))
  <2>1. place \in [1..n -> 0..(n - 1)]
    BY <1>2
  <2>2. \A i, j \in 1..n : place[i] = place[j] => i = j
    BY <1>0, <1>3
  <2> HIDE DEF place
  <2> DEFINE I == 1..n
             J == 0..(n - 1)
  <2>3. place \in [I -> J] /\ \A i, j \in I : place[i] = place[j] => i = j
    BY <2>1, <2>2
  <2> HIDE DEF I, J
  <2>4. place \in Injection(I, J)
    BY <2>3 DEF Injection, IsInjective
  <2> QED BY <2>4 DEF I, J
<1>5. IsFiniteSet(0..(n - 1)) /\ Cardinality(0..(n - 1)) = n
  BY FS_Interval
<1> HIDE DEF place
<1>6. place \in Surjection(1..n, 0..(n - 1))
  BY <1>1, <1>4, <1>5, FS_Injection
<1>7. place \in Bijection(1..n, 0..(n - 1))
  BY <1>4, <1>6 DEF Bijection
<1> QED BY <1>7 DEF place, Earlier, Places

\* Keys are compared from the left.
LEMMA KeyBeforeIs ==
    ASSUME NEW a1, NEW a2, NEW a3, NEW a4, NEW b1, NEW b2, NEW b3, NEW b4
    PROVE  KeyBefore(<<a1, a2, a3, a4>>, <<b1, b2, b3, b4>>) <=>
               \/ a1 < b1
               \/ a1 = b1 /\ a2 < b2
               \/ a1 = b1 /\ a2 = b2 /\ a3 < b3
               \/ a1 = b1 /\ a2 = b2 /\ a3 = b3 /\ a4 < b4
<1>1. 1..4 = {1, 2, 3, 4} /\ 1..0 = {} /\ 1..1 = {1} /\ 1..2 = {1, 2} /\ 1..3 = {1, 2, 3}
  OBVIOUS
<1> DEFINE a == <<a1, a2, a3, a4>>
           b == <<b1, b2, b3, b4>>
           Decides(n) == a[n] < b[n] /\ \A m \in 1..(n - 1) : a[m] = b[m]
<1>2. a[1] = a1 /\ a[2] = a2 /\ a[3] = a3 /\ a[4] = a4
  OBVIOUS
<1>3. b[1] = b1 /\ b[2] = b2 /\ b[3] = b3 /\ b[4] = b4
  OBVIOUS
<1>4. KeyBefore(a, b) <=> Decides(1) \/ Decides(2) \/ Decides(3) \/ Decides(4)
  <2>1. KeyBefore(a, b) <=> \E n \in 1..4 : Decides(n)
    BY DEF KeyBefore
  <2> HIDE DEF Decides
  <2> QED BY <1>1, <2>1
<1> HIDE DEF a, b
<1>5. 1 - 1 = 0 /\ 2 - 1 = 1 /\ 3 - 1 = 2 /\ 4 - 1 = 3
  OBVIOUS
<1>6. /\ Decides(1) <=> a[1] < b[1]
      /\ Decides(2) <=> a[1] = b[1] /\ a[2] < b[2]
      /\ Decides(3) <=> a[1] = b[1] /\ a[2] = b[2] /\ a[3] < b[3]
      /\ Decides(4) <=> a[1] = b[1] /\ a[2] = b[2] /\ a[3] = b[3] /\ a[4] < b[4]
  BY <1>1, <1>5
<1> HIDE DEF Decides
<1> QED BY <1>2, <1>3, <1>4, <1>6 DEF a, b

\* The words of a list of rules have a rank.
Sortable(rules) ==
    \A i \in DOMAIN rules : RuleWords(rules[i]) \subseteq ToSet(Alphabet) \cup {"empty"}

LEMMA RankIs ==
    ASSUME NEW word \in ToSet(Alphabet) \cup {"empty"}
    PROVE  /\ Rank(word) \in Nat
           /\ word # "empty" => Rank(word) # 0 /\ Alphabet[Rank(word)] = word
<1>1. Len(Alphabet) \in Nat /\ DOMAIN Alphabet = 1..Len(Alphabet)
  BY ItemAssumption
<1>2. CASE word = "empty"
  BY <1>2 DEF Rank
<1>3. CASE word # "empty"
  <2>1. \E i \in DOMAIN Alphabet : Alphabet[i] = word
    BY <1>3 DEF ToSet
  <2>2. Rank(word) = CHOOSE i \in DOMAIN Alphabet : Alphabet[i] = word
    BY <1>3 DEF Rank
  <2> HIDE DEF Rank
  <2>3. Rank(word) \in DOMAIN Alphabet /\ Alphabet[Rank(word)] = word
    BY <2>1, <2>2
  <2> QED BY <1>1, <2>3
<1> QED BY <1>2, <1>3

\* The keys of rules are numbers, the last of which is the position.
LEMMA KeysAre ==
    ASSUME NEW rules, NEW n \in Nat, DOMAIN rules = 1..n, Sortable(rules)
    PROVE  \A i \in 1..n : \E a, b, c \in Nat : RuleKey(rules, i) = <<a, b, c, i>>
<1> SUFFICES ASSUME NEW i \in 1..n
             PROVE  \E a, b, c \in Nat : RuleKey(rules, i) = <<a, b, c, i>>
  OBVIOUS
<1> DEFINE rule   == rules[i]
           id     == Get(rule, "id", None)
           module == Word(Get(rule, "module_id", None), "empty")
           field  == RuleField(rule)
           A      == ToSet(Alphabet) \cup {"empty"}
<1>1. Word(id, "empty") \in A /\ module \in A
      /\ Word(Get(Get(rule, "applies_to", None), "field", None), "empty") \in A
  BY DEF Sortable, RuleWords
<1>2. field # "none" => field \in A
  BY <1>1 DEF RuleField, Word
<1>3. NonEmptyStr(id) => id = rule.m["id"] /\ rule.m["id"].s \in A
  BY <1>1 DEF NonEmptyStr, IsStr, Get, None, Word
<1>4. \/ RuleKey(rules, i) = <<2, 0, 0, i>>
      \/ NonEmptyStr(id) /\ RuleKey(rules, i) = <<0, Rank(rule.m["id"].s), 0, i>>
      \/ RuleKey(rules, i) = <<1, Rank(module), 0, i>>
      \/ field # "none" /\ RuleKey(rules, i) = <<1, Rank(module), Rank(field), i>>
  BY Zenon DEF RuleKey
<1> HIDE DEF rule, id, module, field
<1>5. \A word \in A : Rank(word) \in Nat
  BY RankIs
<1> HIDE DEF A
<1> QED BY <1>1, <1>2, <1>3, <1>4, <1>5

\* Whose key is before whose.
Before(rules) ==
    {pair \in (DOMAIN rules) \X (DOMAIN rules) :
        KeyBefore(RuleKey(rules, pair[1]), RuleKey(rules, pair[2]))}

PlaceIn(rules) ==
    [i \in DOMAIN rules |-> Cardinality({j \in DOMAIN rules :
                                KeyBefore(RuleKey(rules, j), RuleKey(rules, i))})]

LEMMA PlaceIsUnique ==
    ASSUME NEW rules, NEW n \in Nat, DOMAIN rules = 1..n, Sortable(rules)
    PROVE  PlaceIn(rules) \in Bijection(1..n, 0..(n - 1))
<1> DEFINE R == Before(rules)
           Key(i) == RuleKey(rules, i)
<1>1. \A i, j \in 1..n : <<i, j>> \in R <=> KeyBefore(Key(i), Key(j))
  BY DEF Before
<1>2. \A i \in 1..n : \E a, b, c \in Nat : Key(i) = <<a, b, c, i>>
  BY KeysAre
<1> HIDE DEF R, Key
<1>3. ASSUME NEW i \in 1..n PROVE <<i, i>> \notin R
  <2>1. PICK a, b, c \in Nat : Key(i) = <<a, b, c, i>>
    BY <1>2
  <2> QED BY <1>1, <2>1, KeyBeforeIs
<1>4. ASSUME NEW i \in 1..n, NEW j \in 1..n, i # j PROVE <<i, j>> \in R \/ <<j, i>> \in R
  <2>1. PICK a1, b1, c1 \in Nat : Key(i) = <<a1, b1, c1, i>>
    BY <1>2
  <2>2. PICK a2, b2, c2 \in Nat : Key(j) = <<a2, b2, c2, j>>
    BY <1>2
  <2>3. <<i, j>> \in R <=> \/ a1 < a2
                           \/ a1 = a2 /\ b1 < b2
                           \/ a1 = a2 /\ b1 = b2 /\ c1 < c2
                           \/ a1 = a2 /\ b1 = b2 /\ c1 = c2 /\ i < j
    BY <1>1, <2>1, <2>2, KeyBeforeIs
  <2>4. <<j, i>> \in R <=> \/ a2 < a1
                           \/ a2 = a1 /\ b2 < b1
                           \/ a2 = a1 /\ b2 = b1 /\ c2 < c1
                           \/ a2 = a1 /\ b2 = b1 /\ c2 = c1 /\ j < i
    BY <1>1, <2>1, <2>2, KeyBeforeIs
  <2> QED BY <1>4, <2>3, <2>4
<1>5. ASSUME NEW i \in 1..n, NEW j \in 1..n, NEW k \in 1..n, <<i, j>> \in R, <<j, k>> \in R
      PROVE  <<i, k>> \in R
  <2>1. PICK a1, b1, c1 \in Nat : Key(i) = <<a1, b1, c1, i>>
    BY <1>2
  <2>2. PICK a2, b2, c2 \in Nat : Key(j) = <<a2, b2, c2, j>>
    BY <1>2
  <2>3. PICK a3, b3, c3 \in Nat : Key(k) = <<a3, b3, c3, k>>
    BY <1>2
  <2>4. \/ a1 < a2
        \/ a1 = a2 /\ b1 < b2
        \/ a1 = a2 /\ b1 = b2 /\ c1 < c2
        \/ a1 = a2 /\ b1 = b2 /\ c1 = c2 /\ i < j
    BY <1>1, <1>5, <2>1, <2>2, KeyBeforeIs
  <2>5. \/ a2 < a3
        \/ a2 = a3 /\ b2 < b3
        \/ a2 = a3 /\ b2 = b3 /\ c2 < c3
        \/ a2 = a3 /\ b2 = b3 /\ c2 = c3 /\ j < k
    BY <1>1, <1>5, <2>2, <2>3, KeyBeforeIs
  <2>6. <<i, k>> \in R <=> \/ a1 < a3
                           \/ a1 = a3 /\ b1 < b3
                           \/ a1 = a3 /\ b1 = b3 /\ c1 < c3
                           \/ a1 = a3 /\ b1 = b3 /\ c1 = c3 /\ i < k
    BY <1>1, <2>1, <2>3, KeyBeforeIs
  <2> QED BY <2>4, <2>5, <2>6
<1>6. Places(R, n) \in Bijection(1..n, 0..(n - 1))
  <2>1. \A i \in 1..n : <<i, i>> \notin R
    BY <1>3
  <2>2. \A i, j \in 1..n : i # j => <<i, j>> \in R \/ <<j, i>> \in R
    BY <1>4
  <2>3. \A i, j, k \in 1..n : <<i, j>> \in R /\ <<j, k>> \in R => <<i, k>> \in R
    BY <1>5
  <2>4. OrdersPositions(R, n)
    BY <2>1, <2>2, <2>3 DEF OrdersPositions
  <2> QED BY <2>4, PlacesAre
<1>7. PlaceIn(rules) = Places(R, n)
  <2>1. \A i \in 1..n : {j \in 1..n : KeyBefore(RuleKey(rules, j), RuleKey(rules, i))}
                            = {j \in 1..n : <<j, i>> \in R}
    BY <1>1 DEF Key
  <2> QED BY <2>1 DEF PlaceIn, Places
<1> QED BY <1>6, <1>7

\* The ordered rules are the rules: the rule at position n is the one with n - 1 before it.
PlacedAt(rules, n, m) ==
    \E i \in 1..n : PlaceIn(rules)[i] = m - 1 /\ OrderedRules(rules)[m] = rules[i]

LEMMA OrderedRulesAre ==
    ASSUME NEW rules, NEW n \in Nat, DOMAIN rules = 1..n, Sortable(rules)
    PROVE  DOMAIN OrderedRules(rules) = 1..n /\ \A m \in 1..n : PlacedAt(rules, n, m)
<1> DEFINE place == PlaceIn(rules)
<1>1. place \in Bijection(1..n, 0..(n - 1))
  BY PlaceIsUnique
<1>2. \A i \in 1..n :
        place[i] = Cardinality({j \in DOMAIN rules : KeyBefore(RuleKey(rules, j), RuleKey(rules, i))})
  BY DEF PlaceIn
<1> HIDE DEF place
<1>3. OrderedRules(rules)
          = [m \in 1..n |-> rules[CHOOSE i \in 1..n :
                Cardinality({j \in DOMAIN rules : KeyBefore(RuleKey(rules, j), RuleKey(rules, i))})
                    = m - 1]]
  BY DEF OrderedRules
<1>4. ASSUME NEW m \in 1..n
      PROVE  \E i \in 1..n : place[i] = m - 1 /\ OrderedRules(rules)[m] = rules[i]
  <2> DEFINE Card(i) == Cardinality({j \in DOMAIN rules :
                                        KeyBefore(RuleKey(rules, j), RuleKey(rules, i))})
  <2>1. OrderedRules(rules)[m] = rules[CHOOSE i \in 1..n : Card(i) = m - 1]
    BY <1>3
  <2>2. \A i \in 1..n : place[i] = Card(i)
    BY <1>2
  <2> HIDE DEF Card
  <2>3. m - 1 \in 0..(n - 1)
    OBVIOUS
  <2>4. \E i \in 1..n : Card(i) = m - 1
    BY <1>1, <2>2, <2>3 DEF Bijection, Surjection
  <2>5. PICK i \in 1..n : Card(i) = m - 1 /\ OrderedRules(rules)[m] = rules[i]
    BY <2>1, <2>4
  <2> QED BY <2>2, <2>5
<1> QED BY <1>3, <1>4 DEF place, PlacedAt

\* The keys of rules with ids are the ids, wherever in a list they are.
KeyedBy(rule, rank) == \A list, j : list[j] = rule => RuleKey(list, j) = <<0, rank, 0, j>>

Ranked(rules, n, rank) ==
    /\ \A i \in 1..n : KeyedBy(rules[i], rank[i])
    /\ \A i, j \in 1..n : rank[i] = rank[j] => i = j

LEMMA IdKeys ==
    ASSUME NEW rules, NEW n \in Nat, DOMAIN rules = 1..n, Sortable(rules), HaveIds(rules)
    PROVE  \E rank \in [1..n -> Nat] : Ranked(rules, n, rank)
<1> DEFINE A == ToSet(Alphabet) \cup {"empty"}
           rank == [i \in 1..n |-> Rank(rules[i].m["id"].s)]
<1>1. ASSUME NEW i \in 1..n
      PROVE  /\ IsMapping(rules[i]) /\ NonEmptyStr(Get(rules[i], "id", None))
             /\ rules[i].m["id"].s \in A
  <2>1. NonEmptyStr(Get(rules[i], "id", None))
    BY DEF HaveIds
  <2>2. IsMapping(rules[i]) /\ Get(rules[i], "id", None) = rules[i].m["id"]
        /\ IsStr(Get(rules[i], "id", None))
    BY <2>1 DEF NonEmptyStr, IsStr, Get, None, Has
  <2>3. Word(Get(rules[i], "id", None), "empty") \in A
    BY DEF Sortable, RuleWords
  <2> QED BY <2>1, <2>2, <2>3 DEF Word
<1>2. \A word \in A : /\ Rank(word) \in Nat
                      /\ word # "empty" => Rank(word) # 0 /\ Alphabet[Rank(word)] = word
  BY RankIs
<1>3. Rank("empty") = 0
  BY DEF Rank
<1> HIDE DEF A
<1>4. rank \in [1..n -> Nat]
  BY <1>1, <1>2
<1>5. ASSUME NEW i \in 1..n PROVE KeyedBy(rules[i], rank[i])
  <2> SUFFICES ASSUME NEW list, NEW j, list[j] = rules[i]
               PROVE  RuleKey(list, j) = <<0, rank[i], 0, j>>
    BY DEF KeyedBy
  <2> QED BY <1>1, Zenon DEF RuleKey
<1>6. ASSUME NEW i \in 1..n, NEW j \in 1..n, rank[i] = rank[j] PROVE i = j
  <2>1. rules[i].m["id"].s = rules[j].m["id"].s
    <3> DEFINE v == rules[i].m["id"].s
               w == rules[j].m["id"].s
    <3>1. v \in A /\ w \in A /\ Rank(v) = Rank(w)
      BY <1>1, <1>6
    <3> HIDE DEF v, w
    <3>2. v = w
      BY <1>2, <1>3, <3>1
    <3> QED BY <3>2 DEF v, w
  <2> QED BY <2>1 DEF HaveIds
<1> HIDE DEF rank
<1> QED BY <1>4, <1>5, <1>6 DEF Ranked

\* Rules that have ids are in the order of their ids, however they are listed.
LEMMA OrderIsCanonical ==
    ASSUME NEW rules, NEW n \in Nat, DOMAIN rules = 1..n, Sortable(rules), HaveIds(rules),
           NEW p \in Bijection(1..n, 1..n),
           NEW moved, DOMAIN moved = 1..n, \A i \in 1..n : moved[i] = rules[p[i]]
    PROVE  OrderedRules(moved) = OrderedRules(rules)
<1> DEFINE First(i) == {j \in 1..n : KeyBefore(RuleKey(rules, j), RuleKey(rules, i))}
           Then(i)  == {j \in 1..n : KeyBefore(RuleKey(moved, j), RuleKey(moved, i))}
<1>1. p \in [1..n -> 1..n] /\ \A i, j \in 1..n : p[i] = p[j] => i = j
  BY DEF Bijection, Injection, IsInjective
<1>2. \A i \in 1..n : \E j \in 1..n : p[j] = i
  BY DEF Bijection, Surjection
<1>3. DOMAIN moved = 1..n /\ \A i \in 1..n : p[i] \in 1..n /\ moved[i] = rules[p[i]]
  BY <1>1
<1>4. Sortable(moved)
  BY <1>3 DEF Sortable
<1>5. PICK rank \in [1..n -> Nat] : Ranked(rules, n, rank)
  BY IdKeys
<1>6. ASSUME NEW i \in 1..n, NEW j \in 1..n
      PROVE  KeyBefore(RuleKey(rules, i), RuleKey(rules, j)) <=> rank[i] < rank[j]
  <2>1. RuleKey(rules, i) = <<0, rank[i], 0, i>> /\ RuleKey(rules, j) = <<0, rank[j], 0, j>>
    BY <1>5, Zenon DEF Ranked, KeyedBy
  <2>2. rank[i] \in Nat /\ rank[j] \in Nat /\ (rank[i] = rank[j] => i = j)
    BY <1>5 DEF Ranked
  <2> QED BY <2>1, <2>2, KeyBeforeIs
<1>7. ASSUME NEW i \in 1..n, NEW j \in 1..n
      PROVE  KeyBefore(RuleKey(moved, i), RuleKey(moved, j)) <=> rank[p[i]] < rank[p[j]]
  <2>1. RuleKey(moved, i) = <<0, rank[p[i]], 0, i>> /\ RuleKey(moved, j) = <<0, rank[p[j]], 0, j>>
    <3>1. KeyedBy(rules[p[i]], rank[p[i]]) /\ KeyedBy(rules[p[j]], rank[p[j]])
      BY <1>3, <1>5 DEF Ranked
    <3>2. moved[i] = rules[p[i]] /\ moved[j] = rules[p[j]]
      BY <1>3
    <3> QED BY <3>1, <3>2, Zenon DEF KeyedBy
  <2>2. rank[p[i]] \in Nat /\ rank[p[j]] \in Nat /\ (rank[p[i]] = rank[p[j]] => i = j)
    BY <1>1, <1>3, <1>5 DEF Ranked
  <2> DEFINE v == rank[p[i]]
             w == rank[p[j]]
  <2> HIDE DEF v, w
  <2>3. KeyBefore(<<0, v, 0, i>>, <<0, w, 0, j>>) <=>
            v < w \/ (v = w /\ i < j)
    BY KeyBeforeIs
  <2> QED BY <2>1, <2>2, <2>3 DEF v, w
<1>8. ASSUME NEW i \in 1..n PROVE Cardinality(Then(i)) = Cardinality(First(p[i]))
  <2> DEFINE q == [j \in Then(i) |-> p[j]]
  <2>1. Then(i) \subseteq 1..n /\ \A j \in Then(i) : p[j] \in First(p[i])
    BY <1>3, <1>6, <1>7
  <2>2. \A k \in First(p[i]) : \E j \in Then(i) : p[j] = k
    BY <1>2, <1>3, <1>6, <1>7
  <2>3. IsFiniteSet(Then(i))
    <3>1. IsFiniteSet(1..n)
      BY FS_Interval
    <3> QED BY <2>1, <3>1, FS_Subset
  <2> HIDE DEF First, Then
  <2>4. q \in Injection(Then(i), First(p[i]))
    BY <1>1, <2>1 DEF Injection, IsInjective
  <2>5. q \in Surjection(Then(i), First(p[i]))
    BY <2>1, <2>2 DEF Surjection
  <2>6. ExistsBijection(Then(i), First(p[i]))
    BY <2>4, <2>5 DEF ExistsBijection, Bijection
  <2> QED BY <2>3, <2>6, FS_Bijection
<1>9. ASSUME NEW i \in 1..n PROVE PlaceIn(moved)[i] = PlaceIn(rules)[p[i]]
  BY <1>3, <1>8 DEF PlaceIn
<1>10. PlaceIn(rules) \in Injection(1..n, 0..(n - 1))
  BY PlaceIsUnique DEF Bijection
<1>11. ASSUME NEW m \in 1..n PROVE OrderedRules(moved)[m] = OrderedRules(rules)[m]
  <2>0. PlacedAt(rules, n, m) /\ PlacedAt(moved, n, m)
    <3>1. DOMAIN moved = 1..n
      BY <1>3
    <3>2. \A k \in 1..n : PlacedAt(rules, n, k)
      BY OrderedRulesAre
    <3>3. \A k \in 1..n : PlacedAt(moved, n, k)
      BY <1>4, <3>1, OrderedRulesAre
    <3> QED BY <3>2, <3>3
  <2>1. PICK i \in 1..n : PlaceIn(rules)[i] = m - 1 /\ OrderedRules(rules)[m] = rules[i]
    BY <2>0 DEF PlacedAt
  <2>2. PICK j \in 1..n : PlaceIn(moved)[j] = m - 1 /\ OrderedRules(moved)[m] = moved[j]
    BY <2>0 DEF PlacedAt
  <2>3. PlaceIn(rules)[p[j]] = PlaceIn(rules)[i] /\ p[j] \in 1..n
    BY <1>3, <1>9, <2>1, <2>2
  <2>4. p[j] = i
    BY <1>10, <2>3 DEF Injection, IsInjective
  <2> QED BY <1>3, <2>1, <2>2, <2>4
<1>12. /\ OrderedRules(rules) = [m \in 1..n |-> OrderedRules(rules)[m]]
       /\ OrderedRules(moved) = [m \in 1..n |-> OrderedRules(moved)[m]]
  BY <1>3 DEF OrderedRules
<1> QED BY <1>11, <1>12

\* The rules of a document are sorted by words that have a rank.
LEMMA RulesAreSortable ==
    ASSUME NEW s \in Schemas, RulesOf(s.doc).t = "list"
    PROVE  LET rules == RulesOf(s.doc).e
           IN  /\ rules \in Seq(Data) /\ Len(rules) \in Nat /\ DOMAIN rules = 1..Len(rules)
               /\ Sortable(rules)
               /\ \A i \in DOMAIN rules : RuleHint(rules[i]) \in Hints
<1> DEFINE rules == RulesOf(s.doc).e
<1>1. rules \in Seq(Data)
  BY RulesAreData
<1>2. \A i \in DOMAIN rules : rules[i] \in ToSet(rules)
  BY DEF ToSet
<1>3. \A rule \in ToSet(rules) : /\ RuleWords(rule) \subseteq ToSet(Alphabet) \cup {"empty"}
                                 /\ RuleHint(rule) \in Hints
  BY ItemAssumption
<1> HIDE DEF rules
<1>4. Len(rules) \in Nat /\ DOMAIN rules = 1..Len(rules)
  BY <1>1
<1>5. Sortable(rules) /\ \A i \in DOMAIN rules : RuleHint(rules[i]) \in Hints
  BY <1>2, <1>3 DEF Sortable
<1> QED BY <1>1, <1>4, <1>5 DEF rules

\* Rules as a plan holds them.
PlanRules == {RuleOf(rule) : rule \in {v \in Data : RuleHint(v) \in Hints}}

LEMMA PlanRulesAre ==
    ASSUME NEW s \in Schemas, NEW types
    PROVE  CompileValidation(s.doc, types).rules \in Seq(PlanRules)
<1> DEFINE rules == RulesOf(s.doc).e
           list  == OrderedRules(rules)
           made  == CompileValidation(s.doc, types)
           n     == Len(rules)
<1>1. CASE made = NoRules({Diag("COMPILER_VALIDATION_INVALID", "validation")})
  BY <1>1 DEF NoRules
<1>2. CASE RulesOf(s.doc).t = "list" /\ made = CompileRules(rules, types)
  <2>1. /\ rules \in Seq(Data) /\ n \in Nat /\ DOMAIN rules = 1..n /\ Sortable(rules)
        /\ \A i \in DOMAIN rules : RuleHint(rules[i]) \in Hints
    BY <1>2, RulesAreSortable
  <2>2. made = RulesFrom(list, types)
    BY <1>2 DEF CompileRules, RulesFrom
  <2> HIDE DEF made, rules, n
  <2>3. DOMAIN list = 1..n /\ \A m \in 1..n : \E i \in 1..n : list[m] = rules[i]
    BY <2>1, OrderedRulesAre DEF PlacedAt
  <2> HIDE DEF list
  <2>4. RulesFrom(list, types) \in RuleLists(list, types)
    BY <2>1, <2>3, RulesAre
  <2>5. {RuleOf(list[m]) : m \in DOMAIN list} \subseteq PlanRules
    <3>1. \A i \in 1..n : rules[i] \in Data
      BY <2>1
    <3>2. \A m \in 1..n : list[m] \in Data /\ RuleHint(list[m]) \in Hints
      BY <2>1, <2>3, <3>1
    <3> QED BY <2>3, <3>2 DEF PlanRules
  <2>6. RulesFrom(list, types).rules \in Seq({RuleOf(list[m]) : m \in DOMAIN list})
    BY <2>4 DEF RuleLists
  <2>7. made.rules \in Seq(PlanRules)
    <3> DEFINE R == {RuleOf(list[m]) : m \in DOMAIN list}
               sequence == RulesFrom(list, types).rules
    <3>1. sequence \in Seq(R) /\ R \subseteq PlanRules
      BY <2>5, <2>6
    <3> HIDE DEF R, sequence
    <3>2. sequence \in Seq(PlanRules)
      BY <3>1
    <3> QED BY <2>2, <3>2 DEF sequence
  <2> QED BY <2>7 DEF made
<1>3. \/ made = NoRules({Diag("COMPILER_VALIDATION_INVALID", "validation")})
      \/ RulesOf(s.doc).t = "list" /\ made = CompileRules(rules, types)
  BY DEF CompileValidation
<1> QED BY <1>1, <1>2, <1>3

-----------------------------------------------------------------------------
(* The inductive invariant *)

Source(id) == ExtractBySourcePath(item, Plan.fields[id].path)
Issued(id) == \E issue \in issues : issue.field = id
Projecting == phase \in {"fields", "shipped"}
Started    == phase = "fields" /\ step # Idle

\* The schema is the one that was chosen, compiled; the item is one of its items; and no
\* field is mapped before the mapping starts.
SchemaInv ==
    /\ schema \in Schemas
    /\ phase \in {"writer", "no_writer", "ready", "validate", "rejected", "map"} \/ Projecting =>
          /\ compiled = Compile(schema.doc, schema.context)
          /\ compiled.valid
    /\ phase \in {"validate", "rejected", "map"} \/ Projecting => item \in schema.items
    /\ ~Projecting => cells = NoEntries /\ step = Idle

\* The chain of the field that is being mapped: where it stands, and what has become of
\* the value so far, unless there is an issue.
ChainInv ==
    Started =>
        /\ step \in 0..Len(Calls)
        /\ Carried(current)
        /\ (/\ ~Absent(Source(Head(fields)))
            /\ ~UsesAny(Head(fields), Emptying)
            /\ ~Issued(Head(fields)))
           => ~Absent(current) /\ current \notin {Omit, Null}
        /\ (~UsesAny(Head(fields), {"omit_if_missing", "emit_if_present"}) /\ ~Issued(Head(fields)))
           => current # Omit
        /\ (step > 0 /\ step < Len(Calls) /\ Calls[step].on_missing # "default")
           => Absent(current) \/ HasType(current, Calls[step].out)

\* What has become of a field that has been mapped.
CellOk(id) ==
    /\ (cells[id] \in {Omit, Null} /\ ~Absent(Source(id))) =>
          \/ IsDeletion /\ id # Plan.tombstone.id
          \/ UsesAny(id, Emptying)
          \/ Issued(id)
    /\ (cells[id] = Omit /\ Plan.fields[id].presence # "omit_missing") =>
          \/ IsDeletion
          \/ UsesAny(id, {"omit_if_missing", "emit_if_present"})
          \/ Issued(id)

CellsInv == Projecting => \A id \in DOMAIN cells : CellOk(id)

\* The fields of the plan are mapped, or about to be, and nothing else is.
FieldsInv ==
    Projecting =>
        /\ fields \in Seq(DOMAIN Plan.fields)
        /\ DOMAIN cells \cup ToSet(fields) = DOMAIN Plan.fields
        /\ Started => fields # <<>>
        /\ Shipped => fields = <<>>

Unlinked == {"EXEC_MAPPING_FIELD_NOT_FOUND", "EXEC_MAPPING_OP_NOT_FOUND",
             "EXEC_MAPPING_OUTPUT_ORDER_MISSING"}

\* What the compiler has linked is found, and a row has a cell for every field.
LinkInv ==
    /\ Projecting => \A issue \in issues : issue.code \notin Unlinked
    /\ (Shipped /\ Plan.kind = "csv_row") => Len(record) = Cardinality(DOMAIN Plan.fields)

\* A tombstone has its id only, and the other way round for an unsupported delete.
DeleteInv ==
    (Projecting /\ Plan.kind = "csv_row") =>
        /\ AsksDelete /\ Plan.tombstone.enabled =>
              /\ \A id \in DOMAIN cells \ {Plan.tombstone.id} : cells[id] = Omit
              /\ Started => Head(fields) = Plan.tombstone.id
        /\ (\E issue \in issues : issue.code = "CONTRACT.DELETE_UNSUPPORTED")
              <=> AsksDelete /\ ~Plan.tombstone.enabled

IInv == SchemaInv /\ ChainInv /\ CellsInv /\ FieldsInv /\ LinkInv /\ DeleteInv

-----------------------------------------------------------------------------
(* One transform, and the order of the fields *)

IssueCodes == {"none", "EXEC_MAPPING_ON_MISSING_DEFAULT_REQUIRED", "EXEC_MAPPING_MISSING_ERROR",
               "EXEC_MAPPING_OP_FAILED"}

\* What a linked transform does to a value.
LEMMA TransformIs ==
    ASSUME NEW context, NEW call \in LinkedCalls(context), NEW v, Carried(v)
    PROVE  LET done == ApplyTransform(call, v)
           IN  /\ Carried(done.value)
               /\ done.issue \in IssueCodes
               /\ v # Omit /\ call.op \notin {"omit_if_missing", "emit_if_present"}
                     => done.value # Omit
               /\ (/\ ~Absent(v) /\ v \notin {Omit, Null}
                   /\ call.op \notin Emptying /\ done.issue = "none")
                  => ~Absent(done.value) /\ done.value \notin {Omit, Null}
               /\ call.on_missing # "default" =>
                     Absent(done.value) \/ HasType(done.value, call.out)
<1> DEFINE done == ApplyTransform(call, v)
           returned == Call(call.op, v, call.args)
<1>1. call.op \in DOMAIN Catalog /\ call.out = Catalog[call.op].out /\ IsArgs(call.args)
  BY DEF LinkedCalls
<1>2. \/ v = Missing /\ done = Stops("none")
      \/ v = Missing /\ done = Goes(Missing)
      \/ /\ v = Missing /\ call.on_missing = "default" /\ "default" \in DOMAIN call.args
         /\ done = Goes(call.args["default"])
      \/ v = Missing /\ done = Stops("EXEC_MAPPING_ON_MISSING_DEFAULT_REQUIRED")
      \/ v = Missing /\ done = Stops("EXEC_MAPPING_MISSING_ERROR")
      \/ returned = Raised /\ done = Stops("EXEC_MAPPING_OP_FAILED")
      \/ returned # Raised /\ done = Goes(returned)
  BY <1>1, Zenon DEF ApplyTransform
<1>3. Absent(Missing) /\ Carried(Missing) /\ Missing # Omit
  BY DEF Absent, Missing, Carried, Omit
<1>4. returned # Raised => Returns(call.op, v, returned)
  BY <1>1, CallIs
<1>5. "default" \in DOMAIN call.args =>
          Carried(call.args["default"]) /\ call.args["default"] # Omit
  BY <1>1, ParsedCarried DEF IsArgs
<1> SUFFICES /\ Carried(done.value)
             /\ done.issue \in IssueCodes
             /\ v # Omit /\ call.op \notin {"omit_if_missing", "emit_if_present"}
                   => done.value # Omit
             /\ (/\ ~Absent(v) /\ v \notin {Omit, Null}
                 /\ call.op \notin Emptying /\ done.issue = "none")
                => ~Absent(done.value) /\ done.value \notin {Omit, Null}
             /\ call.on_missing # "default" =>
                   Absent(done.value) \/ HasType(done.value, call.out)
  OBVIOUS
<1>6. \A x, code : /\ Goes(x).value = x /\ Goes(x).issue = "none"
                   /\ Stops(code).value = Missing /\ Stops(code).issue = code
  BY DEF Goes, Stops
<1> HIDE DEF done, returned
<1>7. CASE v = Missing /\ done.value = Missing /\ done.issue \in IssueCodes
  BY <1>3, <1>7
<1>8. CASE /\ v = Missing /\ call.on_missing = "default" /\ "default" \in DOMAIN call.args
           /\ done = Goes(call.args["default"])
  BY <1>3, <1>5, <1>6, <1>8 DEF IssueCodes
<1>9. CASE returned = Raised /\ done = Stops("EXEC_MAPPING_OP_FAILED")
  BY <1>3, <1>6, <1>9 DEF IssueCodes
<1>10. CASE returned # Raised /\ done = Goes(returned)
  BY <1>1, <1>4, <1>6, <1>10 DEF IssueCodes, Returns
<1> QED BY <1>2, <1>6, <1>7, <1>8, <1>9, <1>10 DEF IssueCodes

\* The ids of a set, in the order of the alphabet.
SortedIds(T) ==
    FoldLeft(LAMBDA ids, id : IF id \in T THEN Append(ids, id) ELSE ids, <<>>, Alphabet)

LEMMA SortedIdsAre ==
    ASSUME NEW T, T \subseteq ToSet(Alphabet)
    PROVE  SortedIds(T) \in Seq(T) /\ ToSet(SortedIds(T)) = T
<1> DEFINE n == Len(Alphabet)
           A == Seq(T)
           Add(ids, id) == IF id \in T THEN Append(ids, id) ELSE ids
           Step(f, s) == IF s = {} THEN <<>> ELSE Add(f[s \ {Max(s)}], Alphabet[Max(s)])
           folded == CHOOSE f : f = [s \in SUBSET (DOMAIN Alphabet) |-> Step(f, s)]
           g == [a \in A |-> [i \in 1..n |-> Add(a, Alphabet[i])]]
<1>1. n \in Nat /\ DOMAIN Alphabet = 1..n
  BY ItemAssumption
<1>2. SortedIds(T) = folded[DOMAIN Alphabet]
  BY DEF SortedIds, FoldLeft, MapThenFoldSet
<1>3. ASSUME NEW a \in A, NEW id PROVE Add(a, id) \in A
  OBVIOUS
<1>4. g \in [A -> [1..n -> A]]
  <2> HIDE DEF A, Add
  <2> QED BY <1>3
<1>5. <<>> \in A
  OBVIOUS
<1> HIDE DEF n, A, Add
<1>6. PICK f \in [SUBSET (1..n) -> A] : Folds(f, <<>>, g, n)
  <2> HIDE DEF g
  <2> QED BY <1>1, <1>4, <1>5, FoldExists
<1>7. \A s \in SUBSET (1..n) : f[s] = Step(f, s)
  <2> SUFFICES ASSUME NEW s \in SUBSET (1..n) PROVE f[s] = Step(f, s)
    OBVIOUS
  <2>1. f[s] = IF s = {} THEN <<>> ELSE g[f[s \ {Max(s)}]][Max(s)]
    BY <1>6 DEF Folds
  <2>2. s # {} => f[s \ {Max(s)}] \in A /\ Max(s) \in 1..n
    BY <1>1, MaxIs
  <2> QED BY <2>1, <2>2
<1>8. f = [s \in SUBSET (DOMAIN Alphabet) |-> Step(f, s)]
  <2> HIDE DEF Step
  <2> QED BY <1>1, <1>7
<1>9. folded = [s \in SUBSET (DOMAIN Alphabet) |-> Step(folded, s)]
  <2> HIDE DEF Step
  <2> QED BY <1>8
<1>10. \A s \in SUBSET (1..n) : folded[s] = Step(folded, s)
  <2> HIDE DEF Step, folded
  <2> QED BY <1>1, <1>9
<1> HIDE DEF folded
<1> DEFINE Listed(ids, i) == Alphabet[i] \in T => \E k \in DOMAIN ids : ids[k] = Alphabet[i]
           h == [s \in SUBSET (1..n) |->
                    IF folded[s] \in A /\ \A i \in s : Listed(folded[s], i) THEN 1 ELSE 0]
<1>11. h[{}] \in {1}
  BY <1>5, <1>10
<1>12. ASSUME NEW s \in SUBSET (1..n), s # {}, h[s \ {Max(s)}] \in {1} PROVE h[s] \in {1}
  <2> DEFINE m    == Max(s)
             rest == s \ {m}
             ids  == folded[rest]
  <2>1. m \in 1..n
    BY <1>1, <1>12, MaxIs
  <2> HIDE DEF m
  <2>2. rest \in SUBSET (1..n)
    OBVIOUS
  <2>3. folded[s] = Add(ids, Alphabet[m])
    BY <1>10, <1>12 DEF m
  <2>4. h[rest] = IF ids \in A /\ \A i \in rest : Listed(ids, i) THEN 1 ELSE 0
    <3> HIDE DEF Listed, rest
    <3> QED BY <2>2
  <2>5. ids \in A /\ \A i \in rest : Listed(ids, i)
    <3> HIDE DEF Listed, h, ids
    <3>1. h[rest] = 1
      BY <1>12 DEF m
    <3> HIDE DEF rest
    <3> QED BY <2>4, <3>1
  <2>6. folded[s] \in A
    BY <1>3, <2>3, <2>5
  <2>7. ASSUME NEW i \in s PROVE Listed(folded[s], i)
    <3>1. CASE Alphabet[m] \in T
      <4> DEFINE longer == Append(ids, Alphabet[m])
      <4>1. folded[s] = longer
        BY <2>3, <3>1 DEF Add
      <4>2. /\ Len(ids) \in Nat /\ DOMAIN ids = 1..Len(ids)
            /\ DOMAIN longer = 1..(Len(ids) + 1)
            /\ longer[Len(ids) + 1] = Alphabet[m]
            /\ \A k \in 1..Len(ids) : longer[k] = ids[k]
        <5> HIDE DEF ids
        <5>1. ids \in Seq(T)
          BY <2>5 DEF A
        <5>2. longer \in Seq(T) /\ Len(longer) = Len(ids) + 1
          BY <3>1, <5>1, AppendProperties
        <5> QED BY <3>1, <5>1, <5>2, AppendProperties
      <4> HIDE DEF longer, ids
      <4>3. CASE i = m
        BY <4>1, <4>2, <4>3
      <4>4. CASE i # m
        BY <2>5, <4>1, <4>2, <4>4
      <4> QED BY <4>3, <4>4
    <3>2. CASE Alphabet[m] \notin T
      BY <2>3, <2>5, <3>2 DEF Add
    <3> QED BY <3>1, <3>2
  <2> HIDE DEF Listed
  <2> QED BY <2>6, <2>7
<1>13. folded[1..n] \in A /\ \A i \in 1..n : Listed(folded[1..n], i)
  <2> DEFINE Good(s) == folded[s] \in A /\ \A i \in s : Listed(folded[s], i)
  <2>1. h = [s \in SUBSET (1..n) |-> IF Good(s) THEN 1 ELSE 0]
    OBVIOUS
  <2>2. h[1..n] \in {1}
    <3> HIDE DEF h
    <3>1. \A s \in SUBSET (1..n) : s # {} /\ h[s \ {Max(s)}] \in {1} => h[s] \in {1}
      BY <1>12
    <3> DEFINE One == {1}
    <3>2. /\ h[{}] \in One
          /\ \A s \in SUBSET (1..n) : s # {} /\ h[s \ {Max(s)}] \in One => h[s] \in One
      BY <1>11, <3>1
    <3> HIDE DEF One
    <3>3. h[1..n] \in One
      BY <1>1, <3>2, FoldStays
    <3> QED BY <3>3 DEF One
  <2> HIDE DEF Good, h
  <2>3. Good(1..n)
    BY <2>1, <2>2
  <2> QED BY <2>3 DEF Good
<1>14. \A id \in T : \E i \in 1..n : Alphabet[i] = id
  BY <1>1 DEF ToSet
<1>15. folded[1..n] \in Seq(T)
  BY <1>13 DEF A
<1>16. ToSet(folded[1..n]) \subseteq T
  <2> HIDE DEF Listed
  <2> QED BY <1>15 DEF ToSet
<1>17. T \subseteq ToSet(folded[1..n])
  BY <1>13, <1>14 DEF ToSet
<1> QED BY <1>1, <1>2, <1>15, <1>16, <1>17

\* The executor goes through every field of a plan it can follow.
LEMMA FieldSequenceIs ==
    ASSUME NEW context, LinkedPlan(Plan, context)
    PROVE  /\ FieldSequence \in Seq(DOMAIN Plan.fields)
           /\ ToSet(FieldSequence) = DOMAIN Plan.fields
           /\ Plan.kind = "csv_row" => Len(FieldSequence) = Cardinality(DOMAIN Plan.fields)
<1>1. CASE Plan.kind = "csv_row"
  <2>1. /\ Plan.ordered /\ Plan.order \in Seq(DOMAIN Plan.fields)
        /\ Len(Plan.order) = Cardinality(DOMAIN Plan.fields)
        /\ \A id \in DOMAIN Plan.fields : \E i \in DOMAIN Plan.order : Plan.order[i] = id
    BY <1>1 DEF LinkedPlan
  <2>2. FieldSequence = Plan.order
    BY <1>1, <2>1 DEF FieldSequence
  <2> HIDE DEF Plan
  <2> QED BY <2>1, <2>2 DEF ToSet
<1>2. CASE Plan.kind # "csv_row"
  <2>1. FieldSequence = SortedIds(DOMAIN Plan.fields)
    BY <1>2 DEF FieldSequence, SortedFields, SortedIds
  <2>2. DOMAIN Plan.fields \subseteq ToSet(Alphabet)
    BY DEF LinkedPlan
  <2> QED BY <1>2, <2>1, <2>2, SortedIdsAre
<1> QED BY <1>1, <1>2

-----------------------------------------------------------------------------
(* The steps before the first field leave nothing to show for the mapping. *)

Early ==
    \/ Register \/ CompileSchema \/ CompileRaises \/ BuildWriter \/ TakeItem
    \/ RulePasses \/ RuleFails \/ RuleRaises \/ Conclude

\* The steps while fields are mapped.
Maps == SkipField \/ StartField \/ Transform \/ FinishField \/ Ship

LEMMA EarlyIs ==
    ASSUME Early
    PROVE  ~Projecting' /\ UNCHANGED mappingVars
<1>1. CASE Register
  BY <1>1 DEF Register, Projecting, mappingVars
<1>2. CASE CompileSchema
  BY <1>2 DEF CompileSchema, Projecting, mappingVars
<1>3. CASE CompileRaises
  BY <1>3 DEF CompileRaises, Projecting, mappingVars
<1>4. CASE BuildWriter
  BY <1>4 DEF BuildWriter, Projecting, mappingVars
<1>5. CASE TakeItem
  BY <1>5 DEF TakeItem, Projecting, mappingVars
<1>6. CASE RulePasses
  BY <1>6 DEF RulePasses, Projecting, mappingVars
<1>7. CASE RuleFails
  BY <1>7 DEF RuleFails, Projecting, mappingVars
<1>8. CASE RuleRaises
  BY <1>8 DEF RuleRaises, Projecting, mappingVars
<1>9. CASE Conclude
  BY <1>9 DEF Conclude, Projecting, mappingVars
<1> QED BY <1>1, <1>2, <1>3, <1>4, <1>5, <1>6, <1>7, <1>8, <1>9 DEF Early

LEMMA EarlyPhases ==
    ASSUME Early
    PROVE  phase \in {"register", "compile", "writer", "ready", "validate"}
BY DEF Early, Register, CompileSchema, CompileRaises, BuildWriter, TakeItem, RulePasses,
       RuleFails, RuleRaises, Conclude

LEMMA MapsIs ==
    ASSUME Maps
    PROVE  phase = "fields" /\ Projecting' /\ UNCHANGED <<schema, compiled, item>>
BY DEF Maps, SkipField, StartField, Transform, FinishField, Ship, Projecting

LEMMA StepIs ==
    ASSUME [Next]_vars
    PROVE  Early \/ StartMapping \/ Maps \/ UNCHANGED vars
BY DEF Next, Early, Maps

LEMMA SchemaKept ==
    ASSUME SchemaInv, [Next]_vars
    PROVE  SchemaInv'
<1>1. CASE Register
  BY <1>1 DEF SchemaInv, Register, mappingVars, Projecting
<1>2. CASE CompileSchema
  BY <1>2 DEF SchemaInv, CompileSchema, mappingVars, Projecting
<1>3. CASE CompileRaises
  BY <1>3 DEF SchemaInv, CompileRaises, mappingVars, Projecting
<1>4. CASE BuildWriter
  BY <1>4 DEF SchemaInv, BuildWriter, mappingVars, Projecting
<1>5. CASE TakeItem
  BY <1>5 DEF SchemaInv, TakeItem, mappingVars, Projecting
<1>6. CASE RulePasses
  BY <1>6 DEF SchemaInv, RulePasses, mappingVars, Projecting
<1>7. CASE RuleFails
  BY <1>7 DEF SchemaInv, RuleFails, mappingVars, Projecting
<1>8. CASE RuleRaises
  BY <1>8 DEF SchemaInv, RuleRaises, mappingVars, Projecting
<1>9. CASE Conclude
  BY <1>9 DEF SchemaInv, Conclude, mappingVars, Projecting
<1>10. CASE StartMapping
  BY <1>10 DEF SchemaInv, StartMapping, Projecting
<1>11. CASE Maps
  BY <1>11, MapsIs DEF SchemaInv, Projecting
<1>12. CASE UNCHANGED vars
  BY <1>12 DEF SchemaInv, vars, Projecting
<1> QED BY <1>1, <1>2, <1>3, <1>4, <1>5, <1>6, <1>7, <1>8, <1>9, <1>10, <1>11, <1>12, StepIs DEF Early

\* The plan that is followed is linked, and so is every field of it.
LEMMA PlanIs ==
    ASSUME SchemaInv, Projecting \/ phase = "map"
    PROVE  LinkedSchema(compiled, schema.context) /\ item \in Data
<1>1. schema \in Schemas /\ compiled = Compile(schema.doc, schema.context) /\ compiled.valid
  BY DEF SchemaInv
<1>2. item \in schema.items
  BY DEF SchemaInv
<1>3. item \in Data
  BY <1>1, <1>2, ItemAssumption
<1>4. \A s \in Schemas : \A context :
          Compile(s.doc, context).valid => LinkedSchema(Compile(s.doc, context), context)
  BY ValidIsLinked
<1> HIDE DEF SchemaInv
<1> QED BY <1>1, <1>3, <1>4

LEMMA FieldIs ==
    ASSUME SchemaInv, Projecting, NEW id \in DOMAIN Plan.fields
    PROVE  /\ LinkedField(Plan.fields[id], schema.context)
           /\ Carried(Source(id)) /\ Source(id) \notin {Omit, Null}
<1>1. LinkedField(Plan.fields[id], schema.context) /\ item \in Data
  BY PlanIs DEF LinkedSchema, LinkedPlan, Plan
<1>2. Plan.fields[id].path \in Seq(STRING)
  BY <1>1 DEF LinkedField
<1>3. Source(id) \in {Missing} \cup Data
  <2>1. \A v \in Data, segments \in Seq(STRING) : Walk(v, segments) \in {v, Missing} \cup Data
    BY WalkIs, ParsedCarried
  <2> HIDE DEF Plan
  <2> QED BY <1>1, <1>2, <2>1 DEF Source, ExtractBySourcePath
<1>4. Carried(Missing) /\ Missing \notin {Omit, Null}
  BY DEF Carried, Missing, Omit, Null
<1> HIDE DEF Source, Plan
<1> QED BY <1>1, <1>3, <1>4, ParsedCarried

\* The field that is being mapped, and its calls.
LEMMA StartedIs ==
    ASSUME SchemaInv, FieldsInv, phase = "fields", fields # <<>>
    PROVE  /\ Head(fields) \in DOMAIN Plan.fields
           /\ Calls \in Seq(LinkedCalls(schema.context)) /\ Len(Calls) \in Nat
           /\ \A k \in 1..(Len(Calls) - 1) : ~TypeMismatch(Calls[k].out, Calls[k + 1].in)
           /\ Plan.fields[Head(fields)].presence \in AllowedPresence
<1>1. Projecting
  BY DEF Projecting
<1>2. Head(fields) \in DOMAIN Plan.fields
  BY <1>1 DEF FieldsInv
<1>3. LinkedField(Plan.fields[Head(fields)], schema.context)
  <2> HIDE DEF Plan
  <2> QED BY <1>1, <1>2, FieldIs
<1>4. Calls \in Seq(LinkedCalls(schema.context))
      /\ (\A k \in 1..(Len(Calls) - 1) : ~TypeMismatch(Calls[k].out, Calls[k + 1].in))
      /\ Plan.fields[Head(fields)].presence \in AllowedPresence
  BY <1>3 DEF LinkedField, Calls
<1> HIDE DEF Calls, Plan
<1> QED BY <1>2, <1>4

-----------------------------------------------------------------------------
(* Every part of the invariant is kept. *)

\* A sequence is its head and the rest.
LEMMA TailIs ==
    ASSUME NEW X, NEW s \in Seq(X), s # <<>>
    PROVE  Tail(s) \in Seq(X) /\ ToSet(s) = {Head(s)} \cup ToSet(Tail(s))
<1>1. /\ Len(s) \in Nat \ {0} /\ DOMAIN s = 1..Len(s) /\ Head(s) = s[1]
      /\ Tail(s) \in Seq(X) /\ Len(Tail(s)) = Len(s) - 1
      /\ DOMAIN Tail(s) = 1..(Len(s) - 1)
      /\ \A i \in 1..(Len(s) - 1) : Tail(s)[i] = s[i + 1]
  BY EmptySeq, HeadTailProperties
<1> DEFINE n == Len(s)
           r == Tail(s)
<1>2. ToSet(s) \subseteq {s[1]} \cup ToSet(r)
  <2> SUFFICES ASSUME NEW i \in 1..n, i # 1 PROVE s[i] \in ToSet(r)
    BY <1>1 DEF ToSet
  <2>1. i - 1 \in 1..(n - 1) /\ (i - 1) + 1 = i
    BY <1>1
  <2>2. r[i - 1] = s[i]
    BY <1>1, <2>1
  <2> QED BY <1>1, <2>1, <2>2 DEF ToSet
<1>3. {s[1]} \cup ToSet(r) \subseteq ToSet(s)
  <2>1. \A i \in 1..(n - 1) : i + 1 \in 1..n
    BY <1>1
  <2>2. 1 \in 1..n
    BY <1>1
  <2> QED BY <1>1, <2>1, <2>2 DEF ToSet
<1> QED BY <1>1, <1>2, <1>3

LEMMA FieldsKept ==
    ASSUME SchemaInv, FieldsInv, [Next]_vars
    PROVE  FieldsInv'
<1>1. CASE Early
  BY <1>1, EarlyIs DEF FieldsInv, Projecting, Started, Shipped
<1>2. CASE StartMapping
  <2>1. /\ fields' = FieldSequence /\ cells' = NoEntries /\ step' = Idle /\ phase' = "fields"
        /\ Plan' = Plan
    BY <1>2 DEF StartMapping, SchemaInv, Projecting, Plan
  <2>2. LinkedPlan(Plan, schema.context)
    BY <1>2, PlanIs DEF LinkedSchema, Plan, StartMapping
  <2>3. FieldSequence \in Seq(DOMAIN Plan.fields) /\ ToSet(FieldSequence) = DOMAIN Plan.fields
    BY <2>2, FieldSequenceIs
  <2>4. DOMAIN NoEntries = {}
    BY DEF NoEntries
  <2> HIDE DEF Plan, FieldSequence, NoEntries
  <2> QED BY <2>1, <2>3, <2>4 DEF FieldsInv, Started, Shipped, Idle
<1>3. CASE SkipField \/ FinishField
  <2>1. /\ phase = "fields" /\ phase' = "fields" /\ step' = Idle /\ Plan' = Plan
        /\ fields' = Tail(fields) /\ DOMAIN cells' = DOMAIN cells \cup {Head(fields)}
    BY <1>3 DEF SkipField, FinishField, Leave, Plan
  <2>2. fields # <<>>
    BY <1>3 DEF SkipField, FinishField, FieldsInv, Started, Projecting
  <2>3. fields \in Seq(DOMAIN Plan.fields) /\ DOMAIN cells \cup ToSet(fields) = DOMAIN Plan.fields
    BY <2>1 DEF FieldsInv, Projecting
  <2> HIDE DEF Plan
  <2>4. Tail(fields) \in Seq(DOMAIN Plan.fields)
        /\ ToSet(fields) = {Head(fields)} \cup ToSet(Tail(fields))
    BY <2>2, <2>3, TailIs
  <2> QED BY <2>1, <2>3, <2>4 DEF FieldsInv, Started, Shipped, Idle
<1>4. CASE StartField \/ Transform
  <2>1. /\ phase = "fields" /\ phase' = "fields" /\ Plan' = Plan
        /\ fields' = fields /\ cells' = cells
    BY <1>4 DEF StartField, Transform, Plan
  <2>2. fields # <<>>
    BY <1>4 DEF StartField, Transform, FieldsInv, Started, Projecting
  <2> HIDE DEF Plan
  <2> QED BY <2>1, <2>2 DEF FieldsInv, Started, Shipped, Projecting
<1>5. CASE Ship
  <2>1. /\ phase = "fields" /\ phase' = "shipped" /\ Plan' = Plan
        /\ fields = <<>> /\ fields' = fields /\ cells' = cells
    BY <1>5 DEF Ship, Plan
  <2> HIDE DEF Plan
  <2> QED BY <2>1 DEF FieldsInv, Started, Shipped, Projecting
<1>6. CASE UNCHANGED vars
  BY <1>6 DEF vars, FieldsInv, Projecting, Started, Shipped, Plan
<1> QED BY <1>1, <1>2, <1>3, <1>4, <1>5, <1>6, StepIs DEF Maps

\* The codes of the issues that the mapping of a field may raise.
LEMMA CodesAre ==
    ASSUME NEW code, NEW id
    PROVE  \A issue \in IssueAt(code, id) : issue.code = code /\ issue.field = id /\ code # "none"
BY DEF IssueAt

LEMMA LinkKept ==
    ASSUME SchemaInv, FieldsInv, ChainInv, LinkInv, [Next]_vars
    PROVE  LinkInv'
<1>1. CASE Early
  BY <1>1, EarlyIs DEF LinkInv, Projecting, Shipped
<1>2. CASE StartMapping
  <2>1. LinkedPlan(Plan, schema.context)
    BY <1>2, PlanIs DEF LinkedSchema, Plan, StartMapping
  <2>2. Plan.kind = "csv_row" => Plan.ordered
    BY <2>1 DEF LinkedPlan
  <2>3. \A issue \in issues' : issue.code = "CONTRACT.DELETE_UNSUPPORTED"
    <3> HIDE DEF Plan
    <3> QED BY <1>2, <2>2 DEF StartMapping, IssueAt
  <2>4. phase' = "fields"
    BY <1>2 DEF StartMapping
  <2> QED BY <2>3, <2>4 DEF LinkInv, Unlinked, Shipped
<1>3. CASE SkipField \/ FinishField \/ Transform
  <2>1. phase = "fields" /\ phase' = "fields" /\ fields # <<>> /\ Projecting
    BY <1>3 DEF SkipField, FinishField, Transform, FieldsInv, Started, Projecting
  <2>2. Head(fields) \in DOMAIN Plan.fields /\ Calls \in Seq(LinkedCalls(schema.context))
        /\ Len(Calls) \in Nat
    BY <2>1, StartedIs
  <2>3. ASSUME Transform
        PROVE  \A issue \in issues' \ issues : issue.code \in IssueCodes
    <3>1. /\ step < Len(Calls) /\ step # Idle
          /\ issues' = issues \cup IssueAt(ApplyTransform(Calls[step + 1], current).issue, Head(fields))
      BY <2>3 DEF Transform
    <3>2. step \in 0..Len(Calls) /\ Carried(current)
      BY <2>1, <3>1 DEF ChainInv, Started
    <3> HIDE DEF Calls
    <3>3. Calls[step + 1] \in LinkedCalls(schema.context)
      BY <2>2, <3>1, <3>2
    <3>4. ApplyTransform(Calls[step + 1], current).issue \in IssueCodes
      BY <3>2, <3>3, TransformIs
    <3> QED BY <3>1, <3>4, CodesAre
  <2>4. ASSUME SkipField
        PROVE  issues' = issues
    BY <2>2, <2>4 DEF SkipField, Leave, IssueAt
  <2>5. ASSUME FinishField
        PROVE  \A issue \in issues' \ issues : issue.code = "EXEC_MAPPING_PRESENCE_ERROR"
    BY <2>5 DEF FinishField, Leave, IssueAt, PresenceIssue
  <2>6. \A issue \in issues' \ issues : issue.code \notin Unlinked
    BY <1>3, <2>3, <2>4, <2>5 DEF Unlinked, IssueCodes
  <2> QED BY <2>1, <2>6 DEF LinkInv, Shipped
<1>4. CASE StartField
  BY <1>4 DEF StartField, LinkInv, Projecting, Shipped
<1>5. CASE Ship
  <2>1. phase = "fields" /\ issues' = issues /\ Plan' = Plan /\ record' = WriterRecord
    BY <1>5 DEF Ship, Plan
  <2>2. LinkedPlan(Plan, schema.context)
    BY <2>1, PlanIs DEF LinkedSchema, Plan, Projecting
  <2>3. FieldSequence \in Seq(DOMAIN Plan.fields)
        /\ (Plan.kind = "csv_row" => Len(FieldSequence) = Cardinality(DOMAIN Plan.fields))
    BY <2>2, FieldSequenceIs
  <2> HIDE DEF FieldSequence, Plan
  <2>4. ASSUME Plan.kind = "csv_row"
        PROVE  Len(record') = Cardinality(DOMAIN Plan.fields)
    <3> DEFINE n == Len(FieldSequence)
               row == [i \in DOMAIN FieldSequence |-> WriterValue(cells[FieldSequence[i]])]
    <3>1. n \in Nat /\ DOMAIN FieldSequence = 1..n
      BY <2>3
    <3>2. record' = row
      BY <2>1, <2>4 DEF WriterRecord
    <3> HIDE DEF n
    <3>3. row \in [1..n -> {WriterValue(cells[FieldSequence[i]]) : i \in 1..n}]
      BY <3>1
    <3> HIDE DEF row
    <3>4. Len(row) = n
      BY <3>1, <3>3, IsASeq, LenProperties
    <3> QED BY <2>3, <2>4, <3>2, <3>4 DEF n
  <2>5. phase' = "shipped"
    BY <1>5 DEF Ship
  <2> QED BY <2>1, <2>4, <2>5 DEF LinkInv, Projecting, Shipped
<1>6. CASE UNCHANGED vars
  BY <1>6 DEF vars, LinkInv, Projecting, Shipped, Plan
<1> QED BY <1>1, <1>2, <1>3, <1>4, <1>5, <1>6, StepIs DEF Maps

LEMMA DeleteKept ==
    ASSUME SchemaInv, FieldsInv, ChainInv, DeleteInv, [Next]_vars
    PROVE  DeleteInv'
<1>1. CASE Early
  BY <1>1, EarlyIs DEF DeleteInv, Projecting
<1>2. CASE StartMapping
  <2>1. /\ Plan' = Plan /\ (AsksDelete' <=> AsksDelete)
        /\ DOMAIN cells' = {} /\ step' = Idle
    BY <1>2 DEF StartMapping, SchemaInv, Projecting, NoEntries, AsksDelete, FlagValue, Plan
  <2>2. ASSUME Plan.kind = "csv_row"
        PROVE  (\E issue \in issues' : issue.code = "CONTRACT.DELETE_UNSUPPORTED")
                  <=> AsksDelete /\ ~Plan.tombstone.enabled
    <3>1. IsDeleteIntent(FlagValue) <=> AsksDelete
      BY DEF IsDeleteIntent, AsksDelete, Means
    <3> HIDE DEF Plan, FlagValue, AsksDelete
    <3> DEFINE missing == IssueAt(IF Plan.ordered THEN "none"
                                  ELSE "EXEC_MAPPING_OUTPUT_ORDER_MISSING", "mapping")
               unsupported == IssueAt(IF IsDeleteIntent(FlagValue) /\ ~Plan.tombstone.enabled
                                      THEN "CONTRACT.DELETE_UNSUPPORTED" ELSE "none", "build")
    <3>2. issues' = unsupported \cup missing
      BY <1>2, <2>2 DEF StartMapping
    <3>3. \A issue \in missing : issue.code # "CONTRACT.DELETE_UNSUPPORTED"
      BY DEF IssueAt
    <3>4. (\E issue \in unsupported : issue.code = "CONTRACT.DELETE_UNSUPPORTED")
             <=> IsDeleteIntent(FlagValue) /\ ~Plan.tombstone.enabled
      BY DEF IssueAt
    <3> HIDE DEF missing, unsupported
    <3> QED BY <3>1, <3>2, <3>3, <3>4
  <2> HIDE DEF Plan, AsksDelete
  <2> QED BY <2>1, <2>2 DEF DeleteInv, Started
<1>3. CASE Maps
  <2>1. /\ phase = "fields" /\ Projecting /\ Plan' = Plan /\ (AsksDelete' <=> AsksDelete)
    BY <1>3, MapsIs DEF Projecting, AsksDelete, FlagValue, Plan
  <2>2. \A issue \in issues' \ issues : issue.code # "CONTRACT.DELETE_UNSUPPORTED"
    <3>1. CASE SkipField
      BY <3>1 DEF SkipField, Leave, IssueAt
    <3>2. CASE StartField \/ Ship
      BY <3>2 DEF StartField, Ship
    <3>3. CASE Transform
      <4>1. /\ step < Len(Calls) /\ step # Idle
            /\ issues' = issues
                  \cup IssueAt(ApplyTransform(Calls[step + 1], current).issue, Head(fields))
        BY <3>3 DEF Transform
      <4>2. step \in 0..Len(Calls) /\ Carried(current) /\ fields # <<>>
        BY <2>1, <4>1 DEF ChainInv, FieldsInv, Started
      <4>3. Calls \in Seq(LinkedCalls(schema.context)) /\ Len(Calls) \in Nat
        BY <2>1, <4>2, StartedIs
      <4> HIDE DEF Calls
      <4>4. Calls[step + 1] \in LinkedCalls(schema.context)
        BY <4>1, <4>2, <4>3
      <4>5. ApplyTransform(Calls[step + 1], current).issue \in IssueCodes
        BY <4>2, <4>4, TransformIs
      <4> QED BY <4>1, <4>5, CodesAre DEF IssueCodes
    <3>4. CASE FinishField
      BY <3>4 DEF FinishField, Leave, IssueAt, PresenceIssue
    <3> QED BY <1>3, <3>1, <3>2, <3>3, <3>4 DEF Maps
  <2>3. issues \subseteq issues'
    BY <1>3 DEF Maps, SkipField, StartField, Transform, FinishField, Ship, Leave
  <2>4. ASSUME Plan.kind = "csv_row", AsksDelete, Plan.tombstone.enabled
        PROVE  /\ \A id \in DOMAIN cells' \ {Plan.tombstone.id} : cells'[id] = Omit
               /\ Started' => Head(fields') = Plan.tombstone.id
    <3>1. IsTombstone
      BY <2>4 DEF IsTombstone, ProjectsTombstone, AsksDelete, Means
    <3>2. \A id \in DOMAIN cells \ {Plan.tombstone.id} : cells[id] = Omit
      BY <2>1, <2>4 DEF DeleteInv
    <3>3. Started => Head(fields) = Plan.tombstone.id
      BY <2>1, <2>4 DEF DeleteInv
    <3> HIDE DEF Plan, IsTombstone
    <3>4. CASE SkipField
      BY <3>2, <3>4 DEF SkipField, Leave, Started
    <3>5. CASE StartField
      BY <3>1, <3>2, <3>5 DEF StartField
    <3>6. CASE Transform
      BY <2>1, <3>2, <3>3, <3>6 DEF Transform, Started
    <3>7. CASE FinishField
      <4>1. Head(fields) = Plan.tombstone.id
        BY <2>1, <3>3, <3>7 DEF FinishField, Started
      <4>2. DOMAIN cells' = DOMAIN cells \cup {Head(fields)} /\ step' = Idle
            /\ \A id \in DOMAIN cells \ {Head(fields)} : cells'[id] = cells[id]
        BY <3>7 DEF FinishField, Leave
      <4> QED BY <3>2, <4>1, <4>2 DEF Started
    <3>8. CASE Ship
      BY <3>2, <3>8 DEF Ship, Started
    <3> QED BY <1>3, <3>4, <3>5, <3>6, <3>7, <3>8 DEF Maps
  <2>5. Plan.kind = "csv_row" =>
           ((\E issue \in issues' : issue.code = "CONTRACT.DELETE_UNSUPPORTED")
              <=> AsksDelete /\ ~Plan.tombstone.enabled)
    <3> HIDE DEF Plan, AsksDelete
    <3> QED BY <2>1, <2>2, <2>3 DEF DeleteInv
  <2> HIDE DEF Plan, AsksDelete
  <2> QED BY <2>1, <2>4, <2>5 DEF DeleteInv
<1>4. CASE UNCHANGED vars
  <2>1. /\ Plan' = Plan /\ (AsksDelete' <=> AsksDelete) /\ (Projecting' <=> Projecting)
        /\ (Started' <=> Started) /\ cells' = cells /\ issues' = issues /\ fields' = fields
    BY <1>4 DEF vars, AsksDelete, FlagValue, Plan, Projecting, Started
  <2> HIDE DEF Plan, AsksDelete, Projecting, Started
  <2> QED BY <2>1 DEF DeleteInv
<1> QED BY <1>1, <1>2, <1>3, <1>4, StepIs

LEMMA ChainKept ==
    ASSUME SchemaInv, FieldsInv, ChainInv, [Next]_vars
    PROVE  ChainInv'
<1>1. CASE Early \/ StartMapping \/ SkipField \/ FinishField \/ Ship
  <2>1. ~Started'
    <3>1. CASE Early
      BY <3>1, EarlyIs DEF Projecting, Started
    <3>2. CASE StartMapping
      BY <3>2 DEF StartMapping, SchemaInv, Projecting, Started
    <3>3. CASE SkipField \/ FinishField \/ Ship
      BY <3>3 DEF SkipField, FinishField, Ship, Started
    <3> QED BY <1>1, <3>1, <3>2, <3>3
  <2> QED BY <2>1 DEF ChainInv
<1>2. CASE StartField
  <2>1. /\ phase = "fields" /\ fields # <<>> /\ Plan' = Plan /\ fields' = fields /\ item' = item
        /\ current' = Source(Head(fields)) /\ step' = 0
    BY <1>2 DEF StartField, Source, Plan
  <2>2. /\ Head(fields) \in DOMAIN Plan.fields /\ Len(Calls) \in Nat
    BY <2>1, StartedIs
  <2>3. Carried(Source(Head(fields))) /\ Source(Head(fields)) \notin {Omit, Null}
    <3> HIDE DEF Plan
    <3> QED BY <2>1, <2>2, FieldIs DEF Projecting
  <2>4. Source(Head(fields))' = Source(Head(fields)) /\ Calls' = Calls
    BY <2>1 DEF Source, Calls, Plan
  <2> HIDE DEF Source, Calls, Plan
  <2>5. /\ step' \in 0..Len(Calls') /\ Carried(current') /\ current' \notin {Omit, Null}
        /\ ~Absent(Source(Head(fields))') => ~Absent(current')
        /\ ~(step' > 0)
    BY <2>1, <2>2, <2>3, <2>4
  <2> QED BY <2>5 DEF ChainInv
<1>3. CASE Transform
  <2> DEFINE id   == Head(fields)
             call == Calls[step + 1]
             done == ApplyTransform(call, current)
  <2>1. /\ phase = "fields" /\ step < Len(Calls) /\ step # Idle /\ Plan' = Plan
        /\ fields' = fields /\ item' = item
        /\ current' = done.value
        /\ step' = IF done.stops THEN Len(Calls) ELSE step + 1
        /\ issues' = issues \cup IssueAt(done.issue, id)
    BY <1>3 DEF Transform, Plan
  <2>2. Started
    BY <2>1 DEF Started
  <2>3. step \in 0..Len(Calls) /\ Carried(current) /\ fields # <<>>
    BY <2>2 DEF ChainInv, FieldsInv, Projecting, Started
  <2>4. Calls \in Seq(LinkedCalls(schema.context)) /\ Len(Calls) \in Nat
    BY <2>1, <2>3, StartedIs
  <2>5. Calls' = Calls /\ Source(Head(fields))' = Source(id)
        /\ (UsesAny(Head(fields), Emptying)' <=> UsesAny(id, Emptying))
        /\ (UsesAny(Head(fields), {"omit_if_missing", "emit_if_present"})'
               <=> UsesAny(id, {"omit_if_missing", "emit_if_present"}))
        /\ (Issued(Head(fields))' <=> \E issue \in issues' : issue.field = id)
    BY <2>1 DEF Calls, Source, UsesAny, Issued, Plan
  <2>6. \A ops : ~UsesAny(id, ops) => call.op \notin ops
    <3>1. Plan.fields[id].calls = Calls
      BY DEF Calls
    <3>2. step + 1 \in DOMAIN Calls
      BY <2>1, <2>3, <2>4
    <3> HIDE DEF Calls, Plan
    <3> QED BY <3>1, <3>2 DEF UsesAny
  <2>7. /\ ~Absent(Source(id)) /\ ~UsesAny(id, Emptying) /\ ~Issued(id)
              => ~Absent(current) /\ current \notin {Omit, Null}
        /\ ~UsesAny(id, {"omit_if_missing", "emit_if_present"}) /\ ~Issued(id)
              => current # Omit
    BY <2>2 DEF ChainInv
  <2> HIDE DEF Calls, Plan, Source
  <2>8. call \in LinkedCalls(schema.context)
    BY <2>1, <2>3, <2>4
  <2> HIDE DEF call
  <2>9. /\ Carried(done.value)
        /\ done.issue \in IssueCodes
        /\ current # Omit /\ call.op \notin {"omit_if_missing", "emit_if_present"}
              => done.value # Omit
        /\ (/\ ~Absent(current) /\ current \notin {Omit, Null}
            /\ call.op \notin Emptying /\ done.issue = "none")
           => ~Absent(done.value) /\ done.value \notin {Omit, Null}
        /\ call.on_missing # "default" =>
              Absent(done.value) \/ HasType(done.value, call.out)
    BY <2>3, <2>8, TransformIs
  <2> HIDE DEF done
  <2>10. step' \in 0..Len(Calls)
    BY <2>1, <2>3, <2>4
  <2>11. ASSUME ~\E issue \in issues' : issue.field = id
         PROVE  ~Issued(id) /\ done.issue = "none"
    <3>1. \A issue \in issues : issue.field # id
      BY <2>1, <2>11
    <3>2. done.issue # "none" => [code |-> done.issue, field |-> id] \in issues'
      BY <2>1 DEF IssueAt
    <3>3. [code |-> done.issue, field |-> id].field = id
      OBVIOUS
    <3> HIDE DEF id
    <3> QED BY <2>11, <3>1, <3>2, <3>3 DEF Issued
  <2>12. ASSUME step' > 0, step' < Len(Calls), Calls[step'].on_missing # "default"
         PROVE  Absent(current') \/ HasType(current', Calls[step'].out)
    <3>1. step' = step + 1
      BY <2>1, <2>12
    <3> QED BY <2>1, <2>9, <2>12, <3>1 DEF call
  <2>13. ASSUME ~Absent(Source(id)), ~UsesAny(id, Emptying), ~\E issue \in issues' : issue.field = id
         PROVE  ~Absent(current') /\ current' \notin {Omit, Null}
    BY <2>1, <2>6, <2>7, <2>9, <2>11, <2>13
  <2>14. ASSUME ~UsesAny(id, {"omit_if_missing", "emit_if_present"}),
                ~\E issue \in issues' : issue.field = id
         PROVE  current' # Omit
    BY <2>1, <2>6, <2>7, <2>9, <2>11, <2>14
  <2>15. Carried(current')
    BY <2>1, <2>9
  <2> HIDE DEF id
  <2> QED BY <2>5, <2>10, <2>12, <2>13, <2>14, <2>15 DEF ChainInv
<1>4. CASE UNCHANGED vars
  <2>1. /\ (Started' <=> Started) /\ Calls' = Calls /\ step' = step /\ current' = current
        /\ Source(Head(fields))' = Source(Head(fields))
        /\ (UsesAny(Head(fields), Emptying)' <=> UsesAny(Head(fields), Emptying))
        /\ (UsesAny(Head(fields), {"omit_if_missing", "emit_if_present"})'
               <=> UsesAny(Head(fields), {"omit_if_missing", "emit_if_present"}))
        /\ (Issued(Head(fields))' <=> Issued(Head(fields)))
    BY <1>4 DEF vars, Started, Calls, Source, UsesAny, Issued, Plan
  <2> HIDE DEF Started, Calls, Source, UsesAny, Issued
  <2> QED BY <2>1 DEF ChainInv
<1> QED BY <1>1, <1>2, <1>3, <1>4, StepIs DEF Maps

LEMMA CellsKept ==
    ASSUME SchemaInv, FieldsInv, ChainInv, CellsInv, [Next]_vars
    PROVE  CellsInv'
<1>1. CASE Early
  BY <1>1, EarlyIs DEF CellsInv, Projecting
<1>2. CASE StartMapping
  BY <1>2 DEF StartMapping, SchemaInv, Projecting, NoEntries, CellsInv
<1>3. ASSUME NEW id, CellOk(id), cells'[id] = cells[id], issues \subseteq issues',
             UNCHANGED <<compiled, item>>
      PROVE  CellOk(id)'
  <2>1. /\ Plan' = Plan /\ (IsDeletion' <=> IsDeletion) /\ Source(id)' = Source(id)
        /\ (UsesAny(id, Emptying)' <=> UsesAny(id, Emptying))
        /\ (UsesAny(id, {"omit_if_missing", "emit_if_present"})'
               <=> UsesAny(id, {"omit_if_missing", "emit_if_present"}))
        /\ (Issued(id) => Issued(id)')
    BY <1>3 DEF Plan, IsDeletion, AsksDelete, FlagValue, Source, UsesAny, Issued
  <2> HIDE DEF Plan, IsDeletion, Source, UsesAny, Issued
  <2> QED BY <1>3, <2>1 DEF CellOk
<1>4. CASE SkipField
  <2>1. /\ phase = "fields" /\ Projecting /\ fields # <<>> /\ Plan' = Plan
        /\ UNCHANGED <<compiled, item>>
        /\ DOMAIN cells' = DOMAIN cells \cup {Head(fields)}
        /\ \A id \in DOMAIN cells \ {Head(fields)} : cells'[id] = cells[id]
        /\ issues \subseteq issues'
    BY <1>4 DEF SkipField, Leave, Projecting, Plan
  <2>2. Head(fields) \in DOMAIN Plan.fields
    BY <2>1, StartedIs
  <2>3. IsTombstone /\ Head(fields) # Plan.tombstone.id
    BY <1>4, <2>2 DEF SkipField
  <2>4. IsDeletion' /\ Plan' = Plan
    BY <2>1, <2>3 DEF IsDeletion, IsTombstone, ProjectsTombstone, AsksDelete, FlagValue, Means, Plan
  <2>5. ASSUME NEW x, x = Head(fields) PROVE CellOk(x)'
    <3>1. x # Plan'.tombstone.id
      BY <2>3, <2>4, <2>5
    <3> HIDE DEF Plan, IsDeletion
    <3> QED BY <2>4, <3>1 DEF CellOk
  <2>6. ASSUME NEW x \in DOMAIN cells' PROVE CellOk(x)'
    <3>1. CASE x = Head(fields)
      BY <2>5, <3>1
    <3>2. CASE x # Head(fields)
      <4>1. x \in DOMAIN cells /\ cells'[x] = cells[x]
        BY <2>1, <2>6, <3>2
      <4>2. CellOk(x)
        BY <2>1, <4>1 DEF CellsInv
      <4> QED BY <1>3, <2>1, <4>1, <4>2
    <3> QED BY <3>1, <3>2
  <2> QED BY <2>6 DEF CellsInv
<1>5. CASE StartField \/ Transform \/ Ship
  <2>1. /\ Projecting /\ cells' = cells /\ issues \subseteq issues'
        /\ UNCHANGED <<compiled, item>>
    BY <1>5 DEF StartField, Transform, Ship, Projecting
  <2> QED BY <1>3, <2>1 DEF CellsInv
<1>6. CASE FinishField
  <2> DEFINE id == Head(fields)
             presence == Plan.fields[id].presence
  <2>1. /\ phase = "fields" /\ step # Idle /\ Plan' = Plan /\ UNCHANGED <<compiled, item>>
        /\ DOMAIN cells' = DOMAIN cells \cup {id}
        /\ cells'[id] = ApplyPresence(current, presence)
        /\ \A other \in DOMAIN cells \ {id} : cells'[other] = cells[other]
        /\ issues' = issues \cup IssueAt(PresenceIssue(current, presence), id)
    BY <1>6 DEF FinishField, Leave, Plan
  <2>2. Started /\ Projecting
    BY <2>1 DEF Started, Projecting
  <2>3. presence \in AllowedPresence
    BY <2>1, <2>2, StartedIs DEF FieldsInv
  <2>4. /\ ~Absent(Source(id)) /\ ~UsesAny(id, Emptying) /\ ~Issued(id)
              => ~Absent(current) /\ current \notin {Omit, Null}
        /\ ~UsesAny(id, {"omit_if_missing", "emit_if_present"}) /\ ~Issued(id)
              => current # Omit
    BY <2>2 DEF ChainInv
  <2>5. ASSUME NEW x, x = id PROVE CellOk(x)'
    <3>1. /\ Source(x)' = Source(id) /\ (UsesAny(x, Emptying)' <=> UsesAny(id, Emptying))
          /\ (UsesAny(x, {"omit_if_missing", "emit_if_present"})'
                 <=> UsesAny(id, {"omit_if_missing", "emit_if_present"}))
          /\ (Issued(id) => Issued(x)')
          /\ cells'[x] = ApplyPresence(current, presence)
          /\ Plan.fields[x].presence = presence
      BY <2>1, <2>5 DEF Source, UsesAny, Issued, Plan
    <3>2. ~Absent(current) /\ current \notin {Omit, Null}
             => ApplyPresence(current, presence) \notin {Omit, Null}
      BY DEF ApplyPresence, Absent, Omit, Null, Value
    <3>3. ApplyPresence(current, presence) = Omit =>
             \/ current = Omit
             \/ presence = "omit_missing"
             \/ PresenceIssue(current, presence) = "EXEC_MAPPING_PRESENCE_ERROR"
      BY <2>3 DEF ApplyPresence, PresenceIssue, AllowedPresence, Omit, Null, Value
    <3>4. PresenceIssue(current, presence) = "EXEC_MAPPING_PRESENCE_ERROR" => Issued(x)'
      <4> DEFINE issue == [code |-> "EXEC_MAPPING_PRESENCE_ERROR", field |-> id]
      <4>1. PresenceIssue(current, presence) = "EXEC_MAPPING_PRESENCE_ERROR" => issue \in issues'
        BY <2>1 DEF IssueAt
      <4>2. issue.field = x
        BY <2>5
      <4> HIDE DEF issue, id, presence
      <4> QED BY <4>1, <4>2 DEF Issued
    <3> HIDE DEF Source, UsesAny, Issued, Plan, id, presence
    <3> QED BY <2>1, <2>4, <3>1, <3>2, <3>3, <3>4 DEF CellOk
  <2>6. ASSUME NEW x \in DOMAIN cells' PROVE CellOk(x)'
    <3>1. CASE x = id
      BY <2>5, <3>1
    <3>2. CASE x # id
      <4>1. x \in DOMAIN cells /\ cells'[x] = cells[x] /\ issues \subseteq issues'
        BY <2>1, <2>6, <3>2
      <4>2. CellOk(x)
        BY <2>2, <4>1 DEF CellsInv
      <4> QED BY <1>3, <2>1, <4>1, <4>2
    <3> QED BY <3>1, <3>2
  <2> QED BY <2>6 DEF CellsInv
<1>7. CASE UNCHANGED vars
  <2>1. cells' = cells /\ issues' = issues /\ (Projecting' <=> Projecting) /\ UNCHANGED <<compiled, item>>
    BY <1>7 DEF vars, Projecting
  <2> QED BY <1>3, <2>1 DEF CellsInv
<1> QED BY <1>1, <1>2, <1>4, <1>5, <1>6, <1>7, StepIs DEF Maps

-----------------------------------------------------------------------------
(* Theorems *)

\* The invariant holds throughout every run of a schema on an item.
THEOREM MappingInvariant == Spec => []IInv
<1>1. Init => IInv
  BY DEF Init, IInv, SchemaInv, ChainInv, CellsInv, FieldsInv, LinkInv, DeleteInv, Projecting,
         Started, Shipped, Idle
<1>2. IInv /\ [Next]_vars => IInv'
  BY SchemaKept, ChainKept, CellsKept, FieldsKept, LinkKept, DeleteKept DEF IInv
<1> QED BY <1>1, <1>2, PTL DEF Spec

\* Whatever the schema and the item are: a schema that compiled without diagnostics never
\* runs into an operation, a field or an output order that is not there, and its rows have
\* one cell for every field (SchemaCompiler.compile against MappingExecutor.run_one).
THEOREM PlansAlwaysLink == Spec => []PlansLink
<1>1. IInv => PlansLink
  <2> SUFFICES ASSUME IInv, Shipped PROVE PlansLink
    BY DEF PlansLink
  <2>1. Projecting
    BY DEF Shipped, Projecting
  <2>2. fields = <<>> /\ DOMAIN cells \cup ToSet(fields) = DOMAIN Plan.fields
    BY <2>1 DEF IInv, FieldsInv
  <2>3. ToSet(<<>>) = {}
    BY DEF ToSet
  <2> HIDE DEF Plan
  <2> QED BY <2>1, <2>2, <2>3 DEF IInv, LinkInv, Unlinked, PlansLink
<1> QED BY <1>1, MappingInvariant, PTL

\* A value the item has never disappears without a trace between the item and the record:
\* only a tombstone, an operation that empties it or an issue about the field leave its
\* cell empty (the transforms and the presence policy of MappingExecutor.run_one).
THEOREM NoFieldIsLostSilently == Spec => []NoSilentFieldLoss
<1>1. IInv => NoSilentFieldLoss
  <2> SUFFICES ASSUME IInv, Shipped, NEW id \in DOMAIN cells,
                      cells[id] \in {Omit, Null},
                      ~Absent(ExtractBySourcePath(item, Plan.fields[id].path))
               PROVE  \/ IsDeletion /\ id # Plan.tombstone.id
                      \/ UsesAny(id, Emptying)
                      \/ \E issue \in issues : issue.field = id
    BY DEF NoSilentFieldLoss
  <2>1. CellOk(id)
    BY DEF IInv, CellsInv, Shipped, Projecting
  <2> QED BY <2>1 DEF CellOk, Source, Issued
<1> QED BY <1>1, MappingInvariant, PTL

\* An item that asks for its deletion becomes a tombstone or is reported, and no other item
\* does: the two readings of the delete flag agree (run_one projects the tombstone, the
\* builder reports the unsupported delete).
THEOREM DeletionIsNeverSilent == Spec => []DeleteIsNotSilent
<1>1. IInv => DeleteIsNotSilent
  <2> HIDE DEF Plan, AsksDelete
  <2> QED BY DEF IInv, DeleteInv, DeleteIsNotSilent, Shipped, Projecting
<1> QED BY <1>1, MappingInvariant, PTL

\* A field that required_if_profile demands is left out of a record by a tombstone, with an
\* issue, or by an operation that omits explicitly, and in no other way: what the compiler's
\* contradiction check promises, kept for every item.
THEOREM RequiredIsNeverSilentlyOmitted == Spec => []RequiredIsNotSilentlyOmitted
<1>1. IInv => RequiredIsNotSilentlyOmitted
  <2> SUFFICES ASSUME IInv, Shipped, NEW id \in compiled.required, cells[id] = Omit
               PROVE  \/ IsDeletion
                      \/ UsesAny(id, {"omit_if_missing", "emit_if_present"})
                      \/ \E issue \in issues : issue.field = id
    BY DEF RequiredIsNotSilentlyOmitted
  <2>1. Projecting
    BY DEF Shipped, Projecting
  <2>2. id \in DOMAIN Plan.fields /\ Plan.fields[id].presence # "omit_missing"
    BY <2>1, PlanIs DEF IInv, LinkedSchema, Plan
  <2>3. fields = <<>> /\ DOMAIN cells \cup ToSet(fields) = DOMAIN Plan.fields
    BY <2>1 DEF IInv, FieldsInv
  <2>4. ToSet(<<>>) = {}
    BY DEF ToSet
  <2> HIDE DEF Plan
  <2>5. CellOk(id)
    BY <2>1, <2>2, <2>3, <2>4 DEF IInv, CellsInv
  <2> QED BY <2>2, <2>5 DEF CellOk, Issued
<1> QED BY <1>1, MappingInvariant, PTL

\* What the compiler knows of the types of a chain is true of the values: an operation is
\* handed nothing, or a value of the type it declares for its input, and what it returns
\* has the type it declares, unless a default from on_missing came in between (the type
\* check of compile_field_mapping against _apply_transform).
THEOREM ChainTypesAreAlwaysSound == Spec => ChainTypesAreSound
<1>1. IInv /\ [Next]_vars =>
        [ LET call == Calls[step + 1]
              previous == Calls[step]
              Typed(v, type) == Absent(v) \/ HasType(v, type)
          IN  (phase = "fields" /\ step # Idle /\ step < Len(Calls) /\ step' = step + 1
               /\ call.on_missing # "default") =>
                  /\ Typed(current', call.out)
                  /\ (step > 0 /\ previous.out # "any" /\ previous.on_missing # "default")
                        => Typed(current, call.in)
        ]_vars
  <2> SUFFICES ASSUME IInv, Next, phase = "fields", step # Idle, step < Len(Calls),
                      step' = step + 1, Calls[step + 1].on_missing # "default"
               PROVE  /\ Absent(current') \/ HasType(current', Calls[step + 1].out)
                      /\ (step > 0 /\ Calls[step].out # "any" /\ Calls[step].on_missing # "default")
                            => Absent(current) \/ HasType(current, Calls[step + 1].in)
    OBVIOUS
  <2>1. Started /\ Projecting
    BY DEF Started, Projecting
  <2>2. step \in 0..Len(Calls) /\ Carried(current) /\ fields # <<>>
    BY <2>1 DEF IInv, ChainInv, FieldsInv
  <2>3. /\ Calls \in Seq(LinkedCalls(schema.context)) /\ Len(Calls) \in Nat
        /\ \A k \in 1..(Len(Calls) - 1) : ~TypeMismatch(Calls[k].out, Calls[k + 1].in)
    BY <2>2, StartedIs DEF IInv
  <2>4. current' = ApplyTransform(Calls[step + 1], current).value
    <3>1. Transform
      <4>1. ~Early
        BY EarlyPhases
      <4>2. ~StartMapping /\ ~SkipField /\ ~StartField /\ ~Ship
        BY DEF StartMapping, SkipField, StartField, Ship
      <4>3. ~FinishField
        BY DEF FinishField
      <4> QED BY <4>1, <4>2, <4>3 DEF Next, Early
    <3> QED BY <3>1 DEF Transform
  <2>5. (step > 0 /\ Calls[step].on_missing # "default")
           => Absent(current) \/ HasType(current, Calls[step].out)
    BY <2>1 DEF IInv, ChainInv
  <2> HIDE DEF Calls
  <2>6. Calls[step + 1] \in LinkedCalls(schema.context)
    BY <2>2, <2>3
  <2>7. Absent(current') \/ HasType(current', Calls[step + 1].out)
    BY <2>2, <2>4, <2>6, TransformIs
  <2>8. ASSUME step > 0, Calls[step].out # "any", Calls[step].on_missing # "default"
        PROVE  Absent(current) \/ HasType(current, Calls[step + 1].in)
    <3>1. ~TypeMismatch(Calls[step].out, Calls[step + 1].in)
      BY <2>2, <2>3, <2>8
    <3>2. Calls[step + 1].in = "any" \/ Calls[step + 1].in = Calls[step].out
      BY <2>8, <3>1 DEF TypeMismatch
    <3> QED BY <2>5, <2>8, <3>2 DEF HasType
  <2> QED BY <2>7, <2>8
<1> QED BY <1>1, MappingInvariant, PTL DEF Spec, ChainTypesAreSound

\* A schema that compiles has the same plan of rules however it lists those that have ids.
LEMMA CompiledIsCanonical ==
    ASSUME NEW s \in Schemas, NEW context, Compile(s.doc, context).valid,
           HaveIds(RulesOf(s.doc).e),
           NEW p \in Bijection(DOMAIN RulesOf(s.doc).e, DOMAIN RulesOf(s.doc).e)
    PROVE  LET rules == RulesOf(s.doc).e
               made  == Compile(s.doc, context)
           IN  CompileRules([i \in DOMAIN rules |-> rules[p[i]]],
                            CompileMapping(s.doc, context).types)
                   = [rules |-> made.rules, required |-> made.required, diags |-> {}]
<1> DEFINE rules == RulesOf(s.doc).e
           n     == Len(rules)
           types == CompileMapping(s.doc, context).types
           list  == OrderedRules(rules)
           made  == Compile(s.doc, context)
           valid == CompileValidation(s.doc, types)
           moved == [i \in DOMAIN rules |-> rules[p[i]]]
<1>1. made.rules = valid.rules /\ made.required = valid.required /\ valid.diags = {}
  BY DEF Compile
<1>2. RulesOf(s.doc).t = "list" /\ valid = RulesFrom(list, types)
  BY <1>1 DEF CompileValidation, CompileRules, RulesFrom, NoRules
<1>3. n \in Nat /\ DOMAIN rules = 1..n /\ Sortable(rules)
  BY <1>2, RulesAreSortable
<1>4. CompileRules(moved, types) = RulesFrom(OrderedRules(moved), types)
  BY DEF CompileRules, RulesFrom
<1>5. DOMAIN moved = 1..n /\ \A i \in 1..n : moved[i] = rules[p[i]]
  BY <1>3
<1> HIDE DEF moved, made, valid, types, rules
<1>6. HaveIds(rules) /\ p \in Bijection(1..n, 1..n)
  BY <1>3 DEF rules
<1> HIDE DEF n
<1>7. OrderedRules(moved) = list
  BY <1>3, <1>5, <1>6, OrderIsCanonical
<1>8. DOMAIN list = 1..n
  BY <1>3, OrderedRulesAre
<1> HIDE DEF list
<1>9. valid \in RuleLists(list, types)
  BY <1>2, <1>3, <1>8, RulesAre
<1>10. valid = [rules |-> valid.rules, required |-> valid.required, diags |-> valid.diags]
  BY <1>9 DEF RuleLists
<1>11. CompileRules(moved, types) = valid
  BY <1>2, <1>4, <1>7
<1>12. CompileRules(moved, types)
           = [rules |-> made.rules, required |-> made.required, diags |-> {}]
  BY <1>1, <1>10, <1>11
<1> QED BY <1>12 DEF moved, made, types, rules

\* The issues of an item do not depend on where in a schema its rules are listed: rules
\* with ids of their own compile to one plan in every order, the one that is followed
\* (ordered_rules of the validation compiler, the rules of ValidationExecutor.run_one).
THEOREM RuleOrderIsAlwaysCanonical == Spec => []RuleOrderIsCanonical
<1>1. IInv => RuleOrderIsCanonical
  <2> SUFFICES ASSUME IInv, phase = "ready", HaveIds(RulesOf(schema.doc).e),
                      NEW p \in Bijection(DOMAIN RulesOf(schema.doc).e,
                                          DOMAIN RulesOf(schema.doc).e)
               PROVE  CompileRules([i \in DOMAIN RulesOf(schema.doc).e |->
                                       RulesOf(schema.doc).e[p[i]]],
                                   CompileMapping(schema.doc, schema.context).types)
                          = [rules |-> compiled.rules, required |-> compiled.required,
                             diags |-> {}]
    BY Zenon DEF RuleOrderIsCanonical
  <2>1. /\ schema \in Schemas /\ compiled = Compile(schema.doc, schema.context)
        /\ Compile(schema.doc, schema.context).valid
    BY DEF IInv, SchemaInv
  <2> QED BY <2>1, CompiledIsCanonical
<1> QED BY <1>1, MappingInvariant, PTL

-----------------------------------------------------------------------------
(* ItemProcessing implements ItemValidation *)

\* The rules that are left are rules of a plan, and there is no result before they have run.
ValidationInv ==
    /\ strategy \in StrictnessMode
    /\ phase \notin {"register", "refused", "compile", "raised"} => todo \in Seq(PlanRules)
    /\ phase \notin {"rejected", "map", "fields", "shipped"} => result = Unfinished

\* The plan as item validation sees it.
Hinted(rules) == [i \in DOMAIN rules |-> rules[i].hint]
Planned == IF phase \in {"register", "refused", "compile", "raised"} THEN <<"pending">>
           ELSE Hinted(todo)

LEMMA HintsAre ==
    ASSUME NEW rules \in Seq(PlanRules)
    PROVE  /\ Hinted(rules) \in Seq(Hints) /\ Hinted(rules) # <<"pending">>
           /\ Hinted(rules) = <<>> <=> rules = <<>>
           /\ rules # <<>> => /\ Head(Hinted(rules)) = Head(rules).hint
                              /\ Tail(Hinted(rules)) = Hinted(Tail(rules))
                              /\ Tail(rules) \in Seq(PlanRules)
<1>1. \A rule \in PlanRules : rule.hint \in Hints
  BY DEF PlanRules, RuleOf
<1>2. Len(rules) \in Nat /\ DOMAIN rules = 1..Len(rules)
  OBVIOUS
<1>3. Hinted(rules) \in [1..Len(rules) -> Hints]
  BY <1>1, <1>2 DEF Hinted
<1>4. Hinted(rules) \in Seq(Hints) /\ Len(Hinted(rules)) = Len(rules)
  BY <1>2, <1>3
<1>5. Hinted(rules) # <<"pending">>
  <2> SUFFICES ASSUME Hinted(rules) = <<"pending">> PROVE FALSE
    OBVIOUS
  <2>1. Len(rules) = 1 /\ Hinted(rules)[1] = "pending"
    BY <1>4
  <2>2. Hinted(rules)[1] \in Hints
    BY <1>3, <2>1
  <2> QED BY <2>1, <2>2, ItemAssumption
<1>6. Hinted(rules) = <<>> <=> rules = <<>>
  BY <1>2, <1>4
<1>7. ASSUME rules # <<>>
      PROVE  /\ Head(Hinted(rules)) = Head(rules).hint
             /\ Tail(Hinted(rules)) = Hinted(Tail(rules))
             /\ Tail(rules) \in Seq(PlanRules)
  <2>1. Head(Hinted(rules)) = Head(rules).hint
    BY <1>2, <1>7 DEF Hinted
  <2>2. Tail(Hinted(rules)) = [i \in 1..(Len(rules) - 1) |-> rules[i + 1].hint]
    BY <1>2, <1>4, <1>7 DEF Hinted
  <2>3. Hinted(Tail(rules)) = [i \in 1..(Len(rules) - 1) |-> rules[i + 1].hint]
    BY <1>2, <1>7 DEF Hinted
  <2>4. Tail(rules) \in Seq(PlanRules)
    BY <1>7
  <2> QED BY <2>1, <2>2, <2>3, <2>4
<1> QED BY <1>4, <1>5, <1>6, <1>7

LEMMA ValidationKept ==
    ASSUME IInv, ValidationInv, [Next]_vars
    PROVE  ValidationInv'
<1> USE DEF ValidationInv
<1>1. CASE Register
  BY <1>1 DEF Register, validationVars
<1>2. CASE CompileSchema
  <2>1. schema \in Schemas
    BY DEF IInv, SchemaInv
  <2>2. Compile(schema.doc, schema.context).rules \in Seq(PlanRules)
    <3>1. Compile(schema.doc, schema.context).rules
              = CompileValidation(schema.doc, CompileMapping(schema.doc, schema.context).types).rules
      BY DEF Compile
    <3> QED BY <2>1, <3>1, PlanRulesAre
  <2> QED BY <1>2, <2>2 DEF CompileSchema
<1>3. CASE CompileRaises
  BY <1>3 DEF CompileRaises, validationVars
<1>4. CASE BuildWriter
  BY <1>4 DEF BuildWriter, validationVars
<1>5. CASE TakeItem
  BY <1>5 DEF TakeItem, validationVars
<1>6. CASE RulePasses
  BY <1>6, HintsAre DEF RulePasses
<1>7. CASE RuleFails
  BY <1>7, HintsAre DEF RuleFails
<1>8. CASE RuleRaises
  BY <1>8, HintsAre DEF RuleRaises
<1>9. CASE Conclude
  BY <1>9 DEF Conclude
<1>10. CASE StartMapping
  BY <1>10 DEF StartMapping, validationVars
<1>11. CASE Maps
  BY <1>11 DEF Maps, SkipField, StartField, Transform, FinishField, Leave, Ship, validationVars
<1>12. CASE UNCHANGED vars
  BY <1>12 DEF vars
<1> QED BY <1>1, <1>2, <1>3, <1>4, <1>5, <1>6, <1>7, <1>8, <1>9, <1>10, <1>11, <1>12, StepIs DEF Early

\* The judgement of item validation is the one of the executor.
LEMMA SameJudgement ==
    ASSUME NEW mode, NEW severities, NEW hint
    PROVE  /\ V!Validate(mode, severities) = Validate(mode, severities)
           /\ V!NormalizeRuleSeverity(hint) = NormalizeRuleSeverity(hint)
BY DEF V!Validate, Validate, V!ApplyStrictness, ApplyStrictness, V!DowngradeErrors,
       DowngradeErrors, V!Occurs, Occurs, V!FromStrictnessDiagnostic, FromStrictnessDiagnostic,
       V!DecisionWithoutPolicies, DecisionWithoutPolicies, V!DecisionFromStrictness,
       DecisionFromStrictness, V!ToDiagnosticSeverity, ToDiagnosticSeverity,
       V!NormalizeRuleSeverity, NormalizeRuleSeverity

\* Every step of the item is a step of its validation, or does not concern it.
LEMMA ValidationStep ==
    ASSUME ValidationInv, ValidationInv', [Next]_vars
    PROVE  [V!Next]_(V!vars)
<1> DEFINE early == phase \in {"register", "refused", "compile", "raised"}
           Same  == UNCHANGED <<strategy, raw_items, result>>
<1>1. /\ (early => Planned = <<"pending">>) /\ (~early => Planned = Hinted(todo))
      /\ (early' => Planned' = <<"pending">>) /\ (~early' => Planned' = Hinted(todo)')
  BY DEF Planned
<1>2. /\ V!vars = <<strategy, Planned, raw_items, result>>
      /\ V!vars' = <<strategy', Planned', raw_items', result'>>
  BY DEF V!vars, Planned, Hinted
<1>3. V!Receive <=> Planned = <<"pending">> /\ Planned' \in Seq(Hints) /\ Same
  BY DEF V!Receive, V!Pending, Planned, Hinted
<1>4. V!RulePasses <=> Planned \notin {<<"pending">>, <<>>} /\ Planned' = Tail(Planned) /\ Same
  BY DEF V!RulePasses, V!Pending, Planned, Hinted
<1>5. V!RuleFails <=> /\ Planned \notin {<<"pending">>, <<>>} /\ Planned' = Tail(Planned)
                      /\ raw_items' = Append(raw_items, V!NormalizeRuleSeverity(Head(Planned)))
                      /\ UNCHANGED <<strategy, result>>
  BY Zenon DEF V!RuleFails, V!Pending, Planned, Hinted
<1>6. V!RuleBreaks <=> /\ Planned \notin {<<"pending">>, <<>>} /\ Planned' = Tail(Planned)
                       /\ raw_items' = Append(raw_items, "FAIL")
                       /\ UNCHANGED <<strategy, result>>
  BY Zenon DEF V!RuleBreaks, V!Pending, Planned, Hinted
<1>7. V!Conclude <=> /\ Planned = <<>> /\ result = Unfinished
                     /\ result' = V!Validate(strategy, raw_items)
                     /\ Planned' = Planned /\ UNCHANGED <<strategy, raw_items>>
  BY Zenon DEF V!Conclude, V!Unfinished, Unfinished, Planned, Hinted
<1>8. V!Next <=> V!Receive \/ V!RulePasses \/ V!RuleFails \/ V!RuleBreaks \/ V!Conclude
  BY DEF V!Next
<1>9. CASE CompileSchema
  <2>1. early /\ ~early' /\ todo' \in Seq(PlanRules) /\ Same
    BY <1>9 DEF CompileSchema, ValidationInv
  <2>2. Hinted(todo') \in Seq(Hints)
    BY <2>1, HintsAre
  <2>3. Hinted(todo)' = Hinted(todo')
    BY DEF Hinted
  <2> QED BY <1>1, <1>3, <1>8, <2>1, <2>2, <2>3
<1>10. ASSUME phase = "validate", phase' \notin {"register", "refused", "compile", "raised"}
       PROVE  /\ todo \in Seq(PlanRules) /\ Planned = Hinted(todo) /\ Planned' = Hinted(todo')
              /\ result = Unfinished
  <2>1. Hinted(todo)' = Hinted(todo')
    BY DEF Hinted
  <2> QED BY <1>1, <1>10, <2>1 DEF ValidationInv
<1>11. ASSUME phase = "validate", phase' = phase, todo # <<>>, todo' = Tail(todo)
       PROVE  /\ Planned \notin {<<"pending">>, <<>>} /\ Planned' = Tail(Planned)
              /\ Head(Planned) = Head(todo).hint
  <2>1. todo \in Seq(PlanRules) /\ Planned = Hinted(todo) /\ Planned' = Hinted(todo')
    BY <1>10, <1>11
  <2> QED BY <1>11, <2>1, HintsAre
<1>12. CASE RulePasses
  <2>1. phase = "validate" /\ phase' = phase /\ todo # <<>> /\ todo' = Tail(todo) /\ Same
    BY <1>12 DEF RulePasses
  <2> QED BY <1>4, <1>8, <1>11, <2>1
<1>13. CASE RuleFails
  <2>1. /\ phase = "validate" /\ phase' = phase /\ todo # <<>> /\ todo' = Tail(todo)
        /\ raw_items' = Append(raw_items, NormalizeRuleSeverity(Head(todo).hint))
        /\ UNCHANGED <<strategy, result>>
    BY <1>13 DEF RuleFails
  <2> QED BY <1>5, <1>8, <1>11, <2>1, SameJudgement
<1>14. CASE RuleRaises
  <2>1. /\ phase = "validate" /\ phase' = phase /\ todo # <<>> /\ todo' = Tail(todo)
        /\ raw_items' = Append(raw_items, "FAIL") /\ UNCHANGED <<strategy, result>>
    BY <1>14 DEF RuleRaises
  <2> QED BY <1>6, <1>8, <1>11, <2>1
<1>15. CASE Conclude
  <2>1. /\ phase = "validate" /\ phase' \in {"rejected", "map"} /\ todo = <<>>
        /\ todo' = todo /\ result' = Validate(strategy, raw_items)
        /\ UNCHANGED <<strategy, raw_items>>
    BY <1>15 DEF Conclude
  <2>2. /\ todo \in Seq(PlanRules) /\ Planned = Hinted(todo) /\ Planned' = Hinted(todo')
        /\ result = Unfinished
    BY <1>10, <2>1
  <2>3. Planned = <<>> /\ Planned' = Planned
    BY <2>1, <2>2, HintsAre
  <2> QED BY <1>7, <1>8, <2>1, <2>2, <2>3, SameJudgement
<1>16. CASE Same /\ todo' = todo /\ (early' <=> early)
  <2>1. Hinted(todo)' = Hinted(todo)
    BY <1>16 DEF Hinted
  <2> QED BY <1>1, <1>2, <1>16, <2>1
<1>17. CASE Register
  BY <1>16, <1>17 DEF Register, validationVars
<1>18. CASE CompileRaises
  BY <1>16, <1>18 DEF CompileRaises, validationVars
<1>19. CASE BuildWriter
  BY <1>16, <1>19 DEF BuildWriter, validationVars
<1>20. CASE TakeItem
  BY <1>16, <1>20 DEF TakeItem, validationVars
<1>21. CASE StartMapping
  BY <1>16, <1>21 DEF StartMapping, validationVars
<1>22. CASE Maps
  BY <1>16, <1>22 DEF Maps, SkipField, StartField, Transform, FinishField, Leave, Ship,
                      validationVars
<1>23. CASE UNCHANGED vars
  BY <1>16, <1>23 DEF vars
<1> QED
  BY <1>9, <1>12, <1>13, <1>14, <1>15, <1>17, <1>18, <1>19, <1>20, <1>21, <1>22, <1>23, StepIs
  DEF Early

\* The executor runs every rule of the plan once, in its order, and then judges what they
\* reported by the policy: run_one implements item validation, whatever the schema, the
\* item and the strictness policy are.
THEOREM ValidationIsImplemented == Spec => ValidationContract
<1>1. Init => ValidationInv /\ V!Init
  <2>1. Init => ValidationInv
    BY ItemAssumption DEF Init, ValidationInv
  <2>2. Init => V!Init
    BY ItemAssumption DEF Init, V!Init, V!Pending, V!Unfinished, Unfinished, V!StrictnessMode,
                          StrictnessMode
  <2> QED BY <2>1, <2>2
<1>2. IInv /\ ValidationInv /\ [Next]_vars => ValidationInv'
  BY ValidationKept
<1>3. ValidationInv /\ ValidationInv' /\ [Next]_vars => [V!Next]_(V!vars)
  BY ValidationStep
<1> QED BY <1>1, <1>2, <1>3, MappingInvariant, PTL DEF Spec, ValidationContract, V!Spec

-----------------------------------------------------------------------------
(* The rows that the CSV reader makes of lines, one line after the other.                *)

Row(C) == [n : Nat, cells : Seq(C), open : BOOLEAN, bad : BOOLEAN]

NextRows(rows, line) ==
    IF rows # <<>> /\ Last(rows).open
    THEN Append(Front(rows), Joined(Last(rows), line)) ELSE Append(rows, line)

\* A line that is joined to a row leaves its number alone, and some cell in it.
LEMMA JoinedIs ==
    ASSUME NEW C, S("joined") \in C, NEW row \in Row(C), NEW line \in Row(C)
    PROVE  /\ Joined(row, line) \in Row(C)
           /\ Joined(row, line).n = row.n
           /\ Joined(row, line).cells # <<>>
           /\ Joined(row, line).open = IF line.cells = <<>> THEN row.open ELSE line.open
<1> DEFINE front == Front(row.cells)
           x == S("joined")
<1>1. /\ row \in [n : Nat, cells : Seq(C), open : BOOLEAN, bad : BOOLEAN]
      /\ line \in [n : Nat, cells : Seq(C), open : BOOLEAN, bad : BOOLEAN]
  BY DEF Row
<1>2. front \in Seq(C)
  BY <1>1 DEF Front
<1>3. Append(front, x) \in Seq(C) /\ Append(front, x) # <<>>
  BY <1>2
<1>4. line.cells # <<>> => /\ front \o <<x>> \o Tail(line.cells) \in Seq(C)
                           /\ front \o <<x>> \o Tail(line.cells) # <<>>
  <2> SUFFICES ASSUME line.cells # <<>>
               PROVE  /\ front \o <<x>> \o Tail(line.cells) \in Seq(C)
                      /\ front \o <<x>> \o Tail(line.cells) # <<>>
    OBVIOUS
  <2>1. Tail(line.cells) \in Seq(C)
    BY <1>1
  <2>2. front \o <<x>> \in Seq(C) /\ Len(front \o <<x>>) > 0
    BY <1>2
  <2>3. ASSUME NEW a \in Seq(C), NEW b \in Seq(C), Len(a) > 0
        PROVE  a \o b \in Seq(C) /\ a \o b # <<>>
    <3>1. a \o b \in Seq(C) /\ Len(a \o b) = Len(a) + Len(b)
      OBVIOUS
    <3>2. Len(a \o b) > 0
      BY <2>3, <3>1
    <3> QED BY <3>1, <3>2
  <2> HIDE DEF front, x
  <2> QED BY <2>1, <2>2, <2>3
<1>5. Joined(row, line) =
        IF line.cells = <<>> THEN [row EXCEPT !.cells = Append(front, x)]
        ELSE [row EXCEPT !.cells = front \o <<x>> \o Tail(line.cells),
                         !.open = line.open, !.bad = row.bad \/ line.bad]
  BY DEF Joined
<1> HIDE DEF front, x
<1> QED BY <1>1, <1>3, <1>4, <1>5 DEF Row

\* The reader adds a line to the last row where that is open, and begins a row otherwise.
LEMMA NextRowsIs ==
    ASSUME NEW C, S("joined") \in C, NEW rows \in Seq(Row(C)), NEW line \in Row(C)
    PROVE  /\ NextRows(rows, line) \in Seq(Row(C))
           /\ (rows # <<>> /\ rows[Len(rows)].open) =>
                 /\ Len(NextRows(rows, line)) = Len(rows)
                 /\ \A i \in 1..(Len(rows) - 1) : NextRows(rows, line)[i] = rows[i]
                 /\ NextRows(rows, line)[Len(rows)] = Joined(rows[Len(rows)], line)
           /\ ~(rows # <<>> /\ rows[Len(rows)].open) =>
                 NextRows(rows, line) = Append(rows, line)
<1>1. CASE rows # <<>> /\ rows[Len(rows)].open
  <2>1. Len(rows) \in Nat \ {0} /\ rows[Len(rows)] \in Row(C)
    BY <1>1
  <2>2. Joined(rows[Len(rows)], line) \in Row(C)
    BY <2>1, JoinedIs
  <2>3. /\ Front(rows) \in Seq(Row(C)) /\ Len(Front(rows)) = Len(rows) - 1
        /\ \A i \in 1..(Len(rows) - 1) : Front(rows)[i] = rows[i]
    <3> DEFINE m == Len(rows) - 1
    <3>1. rows \in Seq(Row(C)) /\ m \in Nat /\ m <= Len(rows)
      BY <2>1
    <3>2. /\ SubSeq(rows, 1, m) \in Seq(Row(C)) /\ Len(SubSeq(rows, 1, m)) = m
          /\ \A i \in 1..m : SubSeq(rows, 1, m)[i] = rows[i]
      <4> HIDE DEF m
      <4> QED BY <3>1
    <3> QED BY <3>2 DEF Front
  <2>4. NextRows(rows, line) = Append(Front(rows), Joined(rows[Len(rows)], line))
    BY <1>1 DEF NextRows, Last
  <2> QED BY <1>1, <2>1, <2>2, <2>3, <2>4
<1>2. CASE ~(rows # <<>> /\ rows[Len(rows)].open)
  <2>1. NextRows(rows, line) = Append(rows, line)
    BY <1>2 DEF NextRows, Last
  <2> QED BY <1>2, <2>1
<1> QED BY <1>1, <1>2

\* What the reader has after each line.
AreRows(C, rows, lines) ==
    /\ rows \in [0..Len(lines) -> Seq(Row(C))]
    /\ rows[0] = <<>>
    /\ \A k \in 0..(Len(lines) - 1) : rows[k + 1] = NextRows(rows[k], lines[k + 1])

\* ReaderRows reads the lines one after the other.
LEMMA RowsExist ==
    ASSUME NEW C, S("joined") \in C, NEW lines \in Seq(Row(C))
    PROVE  \E rows : AreRows(C, rows, lines) /\ ReaderRows(lines) = rows[Len(lines)]
<1> DEFINE n == Len(lines)
           A == Seq(Row(C))
           Step(f, s) == IF s = {} THEN <<>> ELSE NextRows(f[s \ {Max(s)}], lines[Max(s)])
           walked == CHOOSE f : f = [s \in SUBSET (DOMAIN lines) |-> Step(f, s)]
           g == [a \in A |-> [i \in 1..n |-> NextRows(a, lines[i])]]
<1>1. n \in Nat /\ DOMAIN lines = 1..n /\ \A i \in 1..n : lines[i] \in Row(C)
  OBVIOUS
<1>2. ReaderRows(lines) = walked[DOMAIN lines]
  BY DEF ReaderRows, FoldLeft, MapThenFoldSet, NextRows
<1>3. ASSUME NEW a \in A, NEW i \in 1..n PROVE NextRows(a, lines[i]) \in A
  BY <1>1, NextRowsIs
<1>4. g \in [A -> [1..n -> A]]
  BY <1>3
<1> HIDE DEF n
<1>0. <<>> \in A
  OBVIOUS
<1>5. PICK f \in [SUBSET (1..n) -> A] : Folds(f, <<>>, g, n)
  <2> HIDE DEF A, g
  <2> QED BY <1>0, <1>1, <1>4, FoldExists
<1>6. \A s \in SUBSET (1..n) : f[s] = Step(f, s)
  <2> SUFFICES ASSUME NEW s \in SUBSET (1..n) PROVE f[s] = Step(f, s)
    OBVIOUS
  <2>1. f[s] = IF s = {} THEN <<>> ELSE g[f[s \ {Max(s)}]][Max(s)]
    BY <1>5 DEF Folds
  <2>2. s # {} => f[s \ {Max(s)}] \in A /\ Max(s) \in 1..n
    BY <1>1, MaxIs
  <2> HIDE DEF A
  <2> QED BY <2>1, <2>2
<1>7. f = [s \in SUBSET (DOMAIN lines) |-> Step(f, s)]
  <2> HIDE DEF Step, A
  <2> QED BY <1>1, <1>6
<1>8. walked = [s \in SUBSET (DOMAIN lines) |-> Step(walked, s)]
  <2> HIDE DEF Step, A
  <2> QED BY <1>7
<1>9. \A s \in SUBSET (1..n) : walked[s] = Step(walked, s)
  <2> HIDE DEF Step, walked
  <2> QED BY <1>1, <1>8
<1> HIDE DEF walked
<1> DEFINE rows == [k \in 0..n |-> walked[1..k]]
<1>10. rows[0] = <<>>
  <2>1. 1..0 = {} /\ 0 \in 0..n /\ {} \in SUBSET (1..n)
    BY <1>1
  <2>2. walked[{}] = Step(walked, {})
    <3> HIDE DEF Step
    <3> QED BY <1>9, <2>1
  <2>3. walked[{}] = <<>>
    BY <2>2
  <2> QED BY <2>1, <2>3
<1>11. ASSUME NEW k \in 0..(n - 1) PROVE rows[k + 1] = NextRows(rows[k], lines[k + 1])
  <2>1. k \in Nat /\ k + 1 \in Nat /\ k \in 0..n /\ k + 1 \in 0..n /\ k + 1 <= n
    BY <1>1
  <2>6. (1..(k + 1)) \in SUBSET (1..n) /\ (1..(k + 1)) # {} /\ k + 1 \in 1..(k + 1)
    <3>1. \A i \in 1..(k + 1) : i \in 1..n
      BY <1>1, <2>1
    <3>2. k + 1 \in 1..(k + 1)
      BY <2>1
    <3> QED BY <3>1, <3>2
  <2>2. Max(1..(k + 1)) = k + 1
    <3>1. Max(1..(k + 1)) \in 1..(k + 1) /\ \A i \in 1..(k + 1) : i <= Max(1..(k + 1))
      BY <1>1, <2>6, MaxIs
    <3> HIDE DEF Max
    <3> QED BY <2>1, <2>6, <3>1
  <2>3. (1..(k + 1)) \ {k + 1} = 1..k
    BY <2>1
  <2>4. walked[1..(k + 1)] = Step(walked, 1..(k + 1))
    <3> HIDE DEF Step
    <3> QED BY <1>9, <2>6
  <2> HIDE DEF Max
  <2>5. walked[1..(k + 1)] = NextRows(walked[1..k], lines[k + 1])
    BY <2>2, <2>3, <2>4, <2>6
  <2> QED BY <2>1, <2>5
<1>12. \A k \in 0..n : rows[k] \in A
  <2> DEFINE N == {k \in Nat : k <= n => rows[k] \in A}
  <2>1. 0 \in N
    <3> HIDE DEF A, rows
    <3> QED BY <1>0, <1>10
  <2>2. ASSUME NEW k \in Nat, k \in N PROVE k + 1 \in N
    <3> HIDE DEF rows
    <3>1. CASE k + 1 <= n
      <4>1. k \in 0..(n - 1) /\ k + 1 \in 1..n /\ rows[k] \in A
        BY <1>1, <2>2, <3>1
      <4>2. rows[k + 1] = NextRows(rows[k], lines[k + 1])
        BY <1>11, <4>1
      <4>3. rows[k + 1] \in A
        <5> HIDE DEF A
        <5> QED BY <1>3, <4>1, <4>2
      <4> QED BY <4>3
    <3>2. CASE ~(k + 1 <= n)
      BY <3>2
    <3> QED BY <3>1, <3>2
  <2> HIDE DEF N
  <2>3. \A k \in Nat : k \in N
    BY <2>1, <2>2, SetInduction
  <2> HIDE DEF rows, A
  <2> QED BY <1>1, <2>3 DEF N
<1>13. rows \in [0..n -> A]
  <2>1. rows = [k \in 0..n |-> rows[k]]
    OBVIOUS
  <2> HIDE DEF rows, A
  <2> QED BY <1>12, <2>1
<1>14. rows[n] = walked[1..n]
  BY <1>1
<1> HIDE DEF rows
<1>15. AreRows(C, rows, lines)
  BY <1>10, <1>11, <1>13 DEF AreRows, n
<1>16. ReaderRows(lines) = rows[Len(lines)]
  BY <1>1, <1>2, <1>14 DEF n
<1> QED BY <1>15, <1>16
\* The rows of the first k of numbered lines: their numbers increase, and the first one
\* is the first line unless that is open.
NumberedTo(rows, lines, k) ==
    /\ k > 0 => /\ rows[k] # <<>> /\ rows[k][1].n = 1
                /\ ~lines[1].open => rows[k][1] = lines[1]
    /\ \A i \in DOMAIN rows[k] : rows[k][i].n \in 1..k
    /\ \A i, j \in DOMAIN rows[k] : i < j => rows[k][i].n < rows[k][j].n

LEMMA RowsAreNumbered ==
    ASSUME NEW C, S("joined") \in C, NEW lines \in Seq(Row(C)), NEW rows, AreRows(C, rows, lines),
           \A j \in DOMAIN lines : lines[j].n = j
    PROVE  \A k \in 0..Len(lines) : NumberedTo(rows, lines, k)
<1> DEFINE N == {k \in Nat : k <= Len(lines) => NumberedTo(rows, lines, k)}
<1>0. Len(lines) \in Nat
  OBVIOUS
<1>1. 0 \in N
  <2>1. rows[0] = <<>>
    BY DEF AreRows
  <2> QED BY <2>1 DEF NumberedTo
<1>2. ASSUME NEW k \in Nat, k \in N PROVE k + 1 \in N
  <2> SUFFICES ASSUME k + 1 <= Len(lines) PROVE NumberedTo(rows, lines, k + 1)
    OBVIOUS
  <2> DEFINE before == rows[k]
             after  == rows[k + 1]
             line   == lines[k + 1]
             m      == Len(before)
  <2>1. /\ k \in 0..Len(lines) /\ k \in 0..(Len(lines) - 1)
        /\ before \in Seq(Row(C)) /\ line \in Row(C) /\ line.n = k + 1
    BY DEF AreRows
  <2>2. after = NextRows(before, line)
    BY <2>1 DEF AreRows
  <2>3. NumberedTo(rows, lines, k)
    BY <1>2, <2>1
  <2>4. k = 0 => before = <<>>
    BY DEF AreRows
  <2>5. m \in Nat /\ DOMAIN before = 1..m /\ (before # <<>> => m \in 1..m)
    BY <2>1
  <2>6. CASE before # <<>> /\ before[m].open
    <3>1. /\ after \in Seq(Row(C)) /\ Len(after) = m
          /\ \A i \in 1..(m - 1) : after[i] = before[i]
          /\ after[m] = Joined(before[m], line)
      <4> HIDE DEF before, after, line
      <4> QED BY <2>1, <2>2, <2>6, NextRowsIs
    <3>2. before[m] \in Row(C)
      BY <2>1, <2>5, <2>6
    <3>3. after[m].n = before[m].n
      BY <2>1, <3>1, <3>2, JoinedIs
    <3>4. DOMAIN after = 1..m /\ after # <<>> /\ \A i \in 1..m : after[i].n = before[i].n
      <4>1. \A i \in 1..m : i \in 1..(m - 1) \/ i = m
        BY <2>5
      <4>2. DOMAIN after = 1..m /\ after # <<>>
        <5> HIDE DEF after
        <5> QED BY <2>5, <2>6, <3>1
      <4> HIDE DEF after, before, m
      <4> QED BY <3>1, <3>3, <4>1, <4>2
    <3>5. k > 0
      BY <2>4, <2>6
    <3>6. ASSUME ~lines[1].open PROVE after[1] = lines[1]
      <4>1. before[1] = lines[1]
        BY <2>3, <3>5, <3>6 DEF NumberedTo
      <4>2. 1 \in 1..(m - 1)
        BY <2>5, <2>6, <3>6, <4>1
      <4> QED BY <3>1, <4>1, <4>2
    <3>7. after[1].n = 1
      BY <2>3, <2>5, <2>6, <3>4, <3>5 DEF NumberedTo
    <3>8. \A i \in 1..m : after[i].n \in 1..(k + 1)
      BY <2>3, <2>5, <3>4 DEF NumberedTo
    <3>9. \A i, j \in 1..m : i < j => after[i].n < after[j].n
      BY <2>3, <2>5, <3>4 DEF NumberedTo
    <3> HIDE DEF before, after, line
    <3> QED BY <3>4, <3>6, <3>7, <3>8, <3>9 DEF NumberedTo, after
  <2>7. CASE ~(before # <<>> /\ before[m].open)
    <3>1. after = Append(before, line)
      <4> HIDE DEF before, after, line
      <4> QED BY <2>1, <2>2, <2>7, NextRowsIs
    <3>2. /\ DOMAIN after = 1..(m + 1) /\ after # <<>> /\ after[m + 1] = line
          /\ \A i \in 1..m : after[i] = before[i]
      BY <2>1, <2>5, <3>1
    <3>3. k > 0 => before # <<>> /\ before[1].n = 1 /\ (~lines[1].open => before[1] = lines[1])
      BY <2>3 DEF NumberedTo
    <3>4. after[1].n = 1 /\ (~lines[1].open => after[1] = lines[1])
      <4>1. CASE k = 0
        BY <2>1, <2>4, <2>5, <3>2, <4>1
      <4>2. CASE k > 0
        BY <2>5, <3>2, <3>3, <4>2
      <4> QED BY <4>1, <4>2
    <3>5. \A i \in 1..m : before[i].n \in 1..k
      BY <2>3, <2>5 DEF NumberedTo
    <3>6. \A i, j \in 1..m : i < j => before[i].n < before[j].n
      BY <2>3, <2>5 DEF NumberedTo
    <3> HIDE DEF before, after, line
    <3>7. \A i \in 1..(m + 1) : after[i].n \in 1..(k + 1)
      BY <2>1, <2>5, <3>2, <3>5
    <3>8. ASSUME NEW i \in 1..(m + 1), NEW j \in 1..(m + 1), i < j PROVE after[i].n < after[j].n
      <4>1. i \in 1..m /\ (j \in 1..m \/ j = m + 1)
        BY <2>5, <3>8
      <4>2. CASE j \in 1..m
        BY <3>2, <3>6, <3>8, <4>1, <4>2
      <4>3. CASE j = m + 1
        <5>1. after[j].n = k + 1 /\ after[i].n \in 1..k
          BY <2>1, <3>2, <3>5, <4>1, <4>3
        <5> QED BY <5>1
      <4> QED BY <4>1, <4>2, <4>3
    <3> QED BY <3>2, <3>4, <3>7, <3>8 DEF NumberedTo, after
  <2> QED BY <2>6, <2>7
<1> HIDE DEF N
<1>3. \A k \in Nat : k \in N
  BY <1>1, <1>2, SetInduction
<1> QED BY <1>0, <1>3 DEF N

\* Two lines, or rows, that differ in the text of their cells only.
Alike(line, other) ==
    /\ line.n = other.n /\ line.open = other.open
    /\ line.cells = <<>> <=> other.cells = <<>>

AllAlike(s, r) == Len(s) = Len(r) /\ \A i \in DOMAIN s : Alike(s[i], r[i])

\* The rows of lines that are alike are alike.
LEMMA AlikeRows ==
    ASSUME NEW C, S("joined") \in C,
           NEW lines \in Seq(Row(C)), NEW rows, AreRows(C, rows, lines),
           NEW others \in Seq(Row(C)), NEW rest, AreRows(C, rest, others),
           AllAlike(lines, others)
    PROVE  \A k \in 0..Len(lines) : AllAlike(rows[k], rest[k])
<1> DEFINE N == {k \in Nat : k <= Len(lines) => AllAlike(rows[k], rest[k])}
<1>0. Len(lines) \in Nat /\ Len(others) = Len(lines)
  BY DEF AllAlike
<1>1. 0 \in N
  <2>1. rows[0] = <<>> /\ rest[0] = <<>>
    BY DEF AreRows
  <2> QED BY <2>1 DEF AllAlike
<1>2. ASSUME NEW k \in Nat, k \in N PROVE k + 1 \in N
  <2> SUFFICES ASSUME k + 1 <= Len(lines) PROVE AllAlike(rows[k + 1], rest[k + 1])
    OBVIOUS
  <2> DEFINE a == rows[k]
             b == rest[k]
             x == lines[k + 1]
             y == others[k + 1]
             m == Len(a)
  <2>1. /\ k \in 0..Len(lines) /\ k \in 0..(Len(lines) - 1)
        /\ a \in Seq(Row(C)) /\ x \in Row(C) /\ b \in Seq(Row(C)) /\ y \in Row(C)
    <3>1. k \in 0..Len(lines) /\ k \in 0..(Len(lines) - 1) /\ k + 1 \in 1..Len(lines)
      BY <1>0
    <3>2. a \in Seq(Row(C)) /\ b \in Seq(Row(C))
      BY <1>0, <3>1 DEF AreRows
    <3>3. x \in Row(C) /\ y \in Row(C)
      BY <1>0, <3>1
    <3> QED BY <3>1, <3>2, <3>3
  <2>2. rows[k + 1] = NextRows(a, x) /\ rest[k + 1] = NextRows(b, y)
    BY <1>0, <2>1 DEF AreRows
  <2>3. AllAlike(a, b) /\ Alike(x, y)
    BY <1>2, <2>1 DEF AllAlike
  <2>4. m \in Nat /\ Len(b) = m /\ DOMAIN a = 1..m /\ DOMAIN b = 1..m
    BY <2>1, <2>3 DEF AllAlike
  <2> HIDE DEF a, b, x, y
  <2>5. \A i \in 1..m : Alike(a[i], b[i])
    BY <2>3, <2>4 DEF AllAlike
  <2>6. CASE a # <<>> /\ a[m].open
    <3>1. m \in 1..m /\ a[m] \in Row(C) /\ b[m] \in Row(C)
      BY <2>1, <2>4, <2>6
    <3>2. b # <<>> /\ b[m].open
      BY <2>4, <2>5, <2>6, <3>1 DEF Alike
    <3>3. /\ NextRows(a, x) \in Seq(Row(C)) /\ Len(NextRows(a, x)) = m
          /\ \A i \in 1..(m - 1) : NextRows(a, x)[i] = a[i]
          /\ NextRows(a, x)[m] = Joined(a[m], x)
      BY <2>1, <2>6, NextRowsIs
    <3>4. /\ NextRows(b, y) \in Seq(Row(C)) /\ Len(NextRows(b, y)) = m
          /\ \A i \in 1..(m - 1) : NextRows(b, y)[i] = b[i]
          /\ NextRows(b, y)[m] = Joined(b[m], y)
      BY <2>1, <2>4, <3>2, NextRowsIs
    <3>5. /\ Joined(a[m], x).n = a[m].n /\ Joined(a[m], x).cells # <<>>
          /\ Joined(a[m], x).open = IF x.cells = <<>> THEN a[m].open ELSE x.open
      BY <2>1, <3>1, JoinedIs
    <3>6. /\ Joined(b[m], y).n = b[m].n /\ Joined(b[m], y).cells # <<>>
          /\ Joined(b[m], y).open = IF y.cells = <<>> THEN b[m].open ELSE y.open
      BY <2>1, <3>1, JoinedIs
    <3>7. Alike(Joined(a[m], x), Joined(b[m], y))
      BY <2>3, <2>5, <3>1, <3>5, <3>6 DEF Alike
    <3>8. \A i \in 1..m : Alike(NextRows(a, x)[i], NextRows(b, y)[i])
      BY <2>4, <2>5, <3>3, <3>4, <3>7
    <3>9. DOMAIN NextRows(a, x) = 1..m
      BY <3>3
    <3> QED BY <2>2, <3>3, <3>4, <3>8, <3>9 DEF AllAlike
  <2>7. CASE ~(a # <<>> /\ a[m].open)
    <3>1. ~(b # <<>> /\ b[m].open)
      BY <2>1, <2>4, <2>5, <2>7 DEF Alike
    <3>2. NextRows(a, x) = Append(a, x) /\ NextRows(b, y) = Append(b, y)
      BY <2>1, <2>4, <2>7, <3>1, NextRowsIs
    <3>3. /\ Len(Append(a, x)) = m + 1 /\ Len(Append(b, y)) = m + 1
          /\ DOMAIN Append(a, x) = 1..(m + 1)
          /\ Append(a, x)[m + 1] = x /\ Append(b, y)[m + 1] = y
          /\ \A i \in 1..m : Append(a, x)[i] = a[i] /\ Append(b, y)[i] = b[i]
      BY <2>1, <2>4
    <3>4. \A i \in 1..(m + 1) : Alike(Append(a, x)[i], Append(b, y)[i])
      BY <2>3, <2>4, <2>5, <3>3
    <3> QED BY <2>2, <3>2, <3>3, <3>4 DEF AllAlike
  <2> QED BY <2>6, <2>7
<1> HIDE DEF N
<1>3. \A k \in Nat : k \in N
  BY <1>1, <1>2, SetInduction
<1> QED BY <1>0, <1>3 DEF N

\* A closed line in front of the lines is a row in front of the rows.
LEMMA PrefixedRows ==
    ASSUME NEW C, S("joined") \in C,
           NEW lines \in Seq(Row(C)), NEW rest, AreRows(C, rest, lines),
           NEW x \in Row(C), ~x.open, NEW rows, AreRows(C, rows, <<x>> \o lines)
    PROVE  rows[Len(lines) + 1] = <<x>> \o rest[Len(lines)]
<1> DEFINE all == <<x>> \o lines
           N   == {k \in Nat : k <= Len(lines) => rows[k + 1] = <<x>> \o rest[k]}
<1>0. /\ Len(lines) \in Nat /\ all \in Seq(Row(C)) /\ Len(all) = Len(lines) + 1
      /\ all[1] = x /\ \A i \in 1..Len(lines) : all[i + 1] = lines[i]
  OBVIOUS
<1>1. 0 \in N
  <2>1. rows[0] = <<>> /\ rest[0] = <<>>
    BY DEF AreRows
  <2>2. rows[0 + 1] = NextRows(rows[0], all[0 + 1])
    <3> HIDE DEF all
    <3> QED BY <1>0 DEF AreRows, all
  <2>3. NextRows(<<>>, x) = Append(<<>>, x)
    BY DEF NextRows
  <2>4. Append(<<>>, x) = <<x>> \o <<>>
    OBVIOUS
  <2>5. rows[0 + 1] = <<x>> \o rest[0]
    BY <1>0, <2>1, <2>2, <2>3, <2>4
  <2> HIDE DEF all
  <2> QED BY <2>5
<1>2. ASSUME NEW k \in Nat, k \in N PROVE k + 1 \in N
  <2> SUFFICES ASSUME k + 1 <= Len(lines) PROVE rows[(k + 1) + 1] = <<x>> \o rest[k + 1]
    OBVIOUS
  <2> DEFINE a == rest[k]
             b == <<x>> \o a
             y == lines[k + 1]
             m == Len(a)
  <2>1. /\ k \in 0..Len(lines) /\ k \in 0..(Len(lines) - 1) /\ k + 1 \in 0..(Len(all) - 1)
        /\ a \in Seq(Row(C)) /\ y \in Row(C) /\ k + 1 \in 1..Len(lines)
    <3>1. k \in 0..Len(lines) /\ k \in 0..(Len(lines) - 1) /\ k + 1 \in 1..Len(lines)
      BY <1>0
    <3>2. k + 1 \in 0..(Len(all) - 1)
      <4> HIDE DEF all
      <4> QED BY <1>0
    <3>3. a \in Seq(Row(C))
      BY <3>1 DEF AreRows
    <3>4. y \in Row(C)
      BY <3>1
    <3> HIDE DEF all, a, y
    <3> QED BY <3>1, <3>2, <3>3, <3>4
  <2>2. rest[k + 1] = NextRows(a, y)
    BY <2>1 DEF AreRows
  <2>3. rows[k + 1] = b
    BY <1>2, <2>1
  <2>4. rows[(k + 1) + 1] = NextRows(b, y)
    <3>1. rows[(k + 1) + 1] = NextRows(rows[k + 1], all[(k + 1) + 1])
      <4> HIDE DEF all
      <4> QED BY <2>1 DEF AreRows, all
    <3> QED BY <1>0, <2>1, <2>3, <3>1
  <2> HIDE DEF y
  <2>5. /\ m \in Nat /\ b \in Seq(Row(C)) /\ Len(b) = m + 1 /\ b # <<>> /\ b[1] = x
        /\ \A i \in 1..m : b[i + 1] = a[i]
    BY <2>1
  <2> HIDE DEF b
  <2>6. CASE a # <<>> /\ a[m].open
    <3> DEFINE c == NextRows(a, y)
               d == NextRows(b, y)
    <3>1. /\ c \in Seq(Row(C)) /\ Len(c) = m /\ \A i \in 1..(m - 1) : c[i] = a[i]
          /\ c[m] = Joined(a[m], y)
      <4>1. a \in Seq(Row(C)) /\ y \in Row(C)
        BY <2>1
      <4> HIDE DEF a
      <4> QED BY <2>6, <4>1, NextRowsIs
    <3>2. m > 0 /\ b[m + 1] = a[m]
      BY <2>1, <2>5, <2>6
    <3>7. b # <<>> /\ b[Len(b)].open
      BY <2>5, <2>6, <3>2
    <3>3. /\ d \in Seq(Row(C)) /\ Len(d) = m + 1 /\ \A i \in 1..m : d[i] = b[i]
          /\ d[m + 1] = Joined(a[m], y)
      <4>1. /\ d \in Seq(Row(C)) /\ Len(d) = Len(b) /\ \A i \in 1..(Len(b) - 1) : d[i] = b[i]
            /\ d[Len(b)] = Joined(b[Len(b)], y)
        <5>1. b \in Seq(Row(C)) /\ y \in Row(C)
          BY <2>1, <2>5
        <5> HIDE DEF a
        <5> QED BY <3>7, <5>1, NextRowsIs
      <4> QED BY <2>5, <3>2, <4>1
    <3> HIDE DEF c, d
    <3>4. /\ <<x>> \o c \in Seq(Row(C)) /\ Len(<<x>> \o c) = m + 1 /\ (<<x>> \o c)[1] = x
          /\ \A i \in 1..m : (<<x>> \o c)[i + 1] = c[i]
      BY <2>5, <3>1
    <3>5. \A i \in 1..(m + 1) : d[i] = (<<x>> \o c)[i]
      <4> SUFFICES ASSUME NEW i \in 1..(m + 1) PROVE d[i] = (<<x>> \o c)[i]
        OBVIOUS
      <4>1. CASE i = 1
        <5>1. 1 \in 1..m
          BY <2>5, <3>2
        <5>2. d[1] = x /\ (<<x>> \o c)[1] = x
          BY <2>5, <3>3, <3>4, <5>1
        <5> QED BY <4>1, <5>2
      <4>2. CASE i \in 2..m
        <5>1. i - 1 \in 1..(m - 1) /\ i - 1 \in 1..m /\ i \in 1..m /\ (i - 1) + 1 = i
          BY <2>5, <4>2
        <5>2. d[i] = b[i] /\ b[i] = a[i - 1] /\ c[i - 1] = a[i - 1] /\ (<<x>> \o c)[i] = c[i - 1]
          BY <2>5, <3>1, <3>3, <3>4, <5>1
        <5> QED BY <5>2
      <4>3. CASE i = m + 1
        BY <2>5, <3>1, <3>2, <3>3, <3>4, <4>3
      <4>4. i = 1 \/ i \in 2..m \/ i = m + 1
        <5> HIDE DEF m
        <5> QED BY <2>5
      <4> QED BY <4>1, <4>2, <4>3, <4>4
    <3>6. d = <<x>> \o c
      BY <2>5, <3>3, <3>4, <3>5, SeqEqual
    <3> QED BY <2>2, <2>4, <3>6 DEF c, d
  <2>7. CASE ~(a # <<>> /\ a[m].open)
    <3>1. ~b[Len(b)].open
      <4>1. CASE m = 0
        BY <2>5, <4>1
      <4>2. CASE m > 0
        <5>1. a # <<>> /\ b[m + 1] = a[m]
          <6>1. m \in 1..m
            BY <2>5, <4>2
          <6>2. a # <<>>
            BY <2>5, <4>2
          <6> HIDE DEF m
          <6> QED BY <2>5, <6>1, <6>2
        <5> QED BY <2>5, <2>7, <5>1
      <4> QED BY <2>5, <4>1, <4>2
    <3>2. NextRows(b, y) = Append(b, y) /\ NextRows(a, y) = Append(a, y)
      BY <2>1, <2>5, <2>7, <3>1, NextRowsIs
    <3>3. Append(b, y) = <<x>> \o Append(a, y)
      <4>1. b = <<x>> \o a /\ a \in Seq(Row(C))
        BY <2>1 DEF b
      <4> HIDE DEF a
      <4> QED BY <2>1, <4>1
    <3> QED BY <2>2, <2>4, <3>2, <3>3
  <2> QED BY <2>6, <2>7
<1> HIDE DEF N
<1>3. \A k \in Nat : k \in N
  BY <1>1, <1>2, SetInduction
<1>4. Len(lines) \in N
  BY <1>0, <1>3
<1> QED BY <1>0, <1>4 DEF N
\* The number is one more field of an element.
LEMMA NumberedLine ==
    ASSUME NEW n \in Nat, NEW e, IsLine(e)
    PROVE  At(n, e) = [n |-> n, cells |-> e.cells, open |-> e.open, bad |-> e.bad]
<1>1. e = [cells |-> e.cells, open |-> e.open, bad |-> e.bad]
  BY DEF IsLine
<1>2. DOMAIN e = {"cells", "open", "bad"}
  BY <1>1
<1>3. At(n, e) = [key \in {"cells", "open", "bad", "n"} |-> IF key = "n" THEN n ELSE e[key]]
  BY <1>2 DEF At
<1>4. /\ At(n, e)["n"] = n /\ At(n, e)["cells"] = e.cells
      /\ At(n, e)["open"] = e.open /\ At(n, e)["bad"] = e.bad
  BY <1>3
<1> DEFINE r == [n |-> n, cells |-> e.cells, open |-> e.open, bad |-> e.bad]
<1>5. r = [key \in {"cells", "open", "bad", "n"} |-> r[key]]
  OBVIOUS
<1>6. \A key \in {"cells", "open", "bad", "n"} : r[key] = (IF key = "n" THEN n ELSE e[key])
  OBVIOUS
<1> HIDE DEF r
<1>7. At(n, e) = r
  BY <1>3, <1>5, <1>6
<1> QED BY <1>7 DEF r

\* What cells, lines and their copies with a mark in the first cell may hold.
CellsOf(lines) == UNION {ToSet(lines[i].cells) : i \in DOMAIN lines}

AllCells(format, input) ==
    {S("joined")} \cup CellsOf(Numbered(Taken(format, input))) \cup CellsOf(Physical(format, input))

LEMMA LinesAre ==
    ASSUME NEW format \in Tabular, NEW constants, NEW input, IsInput(format, constants, input)
    PROVE  /\ Numbered(Taken(format, input)) \in Seq(Row(AllCells(format, input)))
           /\ Physical(format, input) \in Seq(Row(AllCells(format, input)))
           /\ Len(Numbered(Taken(format, input))) = Len(Taken(format, input))
           /\ AllAlike(Physical(format, input), Numbered(Taken(format, input)))
           /\ \A j \in DOMAIN Numbered(Taken(format, input)) :
                 /\ Numbered(Taken(format, input))[j].n = j
                 /\ Numbered(Taken(format, input))[j].open = Taken(format, input)[j].open
<1> DEFINE given == Taken(format, input)
           N == Numbered(given)
           P == Physical(format, input)
           C == {S("joined")} \cup CellsOf(N) \cup CellsOf(P)
           m == Len(given)
<1>1. /\ given \in Seq(ToSet(given)) /\ m \in Nat /\ DOMAIN given = 1..m
      /\ \A i \in 1..m : IsLine(given[i])
  <2>1. IsSequence(given) /\ \A i \in DOMAIN given : IsLine(given[i])
    BY DEF IsInput
  <2>2. given \in Seq(ToSet(given))
    BY <2>1 DEF IsSequence
  <2> QED BY <2>1, <2>2
<1>2. /\ N = [i \in 1..m |-> At(i, given[i])]
      /\ \A i \in 1..m :
            N[i] = [n |-> i, cells |-> given[i].cells, open |-> given[i].open, bad |-> given[i].bad]
  <2>1. N = [i \in 1..m |-> At(i, given[i])]
    BY <1>1 DEF Numbered
  <2> HIDE DEF given, m, N
  <2>2. ASSUME NEW i \in 1..m
        PROVE  N[i] = [n |-> i, cells |-> given[i].cells, open |-> given[i].open, bad |-> given[i].bad]
    <3>1. i \in Nat /\ IsLine(given[i])
      BY <1>1
    <3> QED BY <2>1, <3>1, NumberedLine
  <2> QED BY <2>1, <2>2
<1>13. \A i \in 1..m : N[i].n = i /\ N[i].open = given[i].open /\ N[i].cells = given[i].cells
  <2> HIDE DEF N, m, given
  <2> SUFFICES ASSUME NEW i \in 1..m
               PROVE  N[i].n = i /\ N[i].open = given[i].open /\ N[i].cells = given[i].cells
    OBVIOUS
  <2>1. N[i] = [n |-> i, cells |-> given[i].cells, open |-> given[i].open, bad |-> given[i].bad]
    BY <1>2
  <2> QED BY <2>1
<1>3. \A i \in 1..m : /\ given[i].cells \in Seq(ToSet(given[i].cells))
                      /\ given[i].open \in BOOLEAN /\ given[i].bad \in BOOLEAN
  BY <1>1 DEF IsLine, IsSequence
<1> DEFINE Result == /\ N \in Seq(Row(C)) /\ P \in Seq(Row(C)) /\ Len(N) = m /\ AllAlike(P, N)
                     /\ DOMAIN N = 1..m
                     /\ \A j \in 1..m : N[j].n = j /\ N[j].open = given[j].open
<1> HIDE DEF given, m
<1>4. DOMAIN N = 1..m
  BY <1>2
<1>8. P = N \/ /\ m > 0 /\ N[1].cells # <<>>
               /\ P = [N EXCEPT ![1] = [N[1] EXCEPT !.cells =
                          [N[1].cells EXCEPT ![1] = [N[1].cells[1] EXCEPT !.d = @ \cup {"bom"}]]]]
  <2>1. P = IF format = "streaming_csv" /\ input.bom /\ N # <<>> /\ N[1].cells # <<>>
            THEN [N EXCEPT ![1].cells[1].d = @ \cup {"bom"}] ELSE N
    BY DEF Physical, given
  <2>2. N # <<>> => m > 0
    BY <1>1, <1>4
  <2> HIDE DEF N
  <2> QED BY <2>1, <2>2
<1> HIDE DEF N, P
<1>5. ASSUME NEW i \in 1..m PROVE N[i] \in Row(C)
  <2>1. N[i].cells = given[i].cells
    BY <1>13
  <2>2. ToSet(given[i].cells) \subseteq C
    BY <1>4, <2>1 DEF CellsOf
  <2>3. given[i].cells \in Seq(C)
    <3> HIDE DEF C
    <3> QED BY <1>3, <2>2
  <2>4. N[i] = [n |-> i, cells |-> given[i].cells, open |-> given[i].open, bad |-> given[i].bad]
    BY <1>2
  <2>5. i \in Nat /\ given[i].open \in BOOLEAN /\ given[i].bad \in BOOLEAN
    BY <1>3
  <2> HIDE DEF C
  <2> QED BY <2>3, <2>4, <2>5 DEF Row
<1>6. N \in Seq(Row(C))
  <2>1. N = [i \in 1..m |-> N[i]]
    BY <1>2
  <2>2. N \in [1..m -> Row(C)]
    <3> HIDE DEF C, N
    <3> QED BY <1>5, <2>1
  <2> HIDE DEF C, N
  <2> QED BY <1>1, <2>2
<1>7. Len(N) = m
  BY <1>1, <1>4
<1>11. \A j \in 1..m : N[j].n = j /\ N[j].open = given[j].open
  BY <1>13
<1>9. ASSUME P = N PROVE Result
  <2>1. AllAlike(P, N)
    BY <1>9 DEF AllAlike, Alike
  <2> HIDE DEF C
  <2> QED BY <1>4, <1>6, <1>7, <1>9, <1>11, <2>1
<1>10. ASSUME /\ m > 0 /\ N[1].cells # <<>>
              /\ P = [N EXCEPT ![1] = [N[1] EXCEPT !.cells =
                         [N[1].cells EXCEPT ![1] = [N[1].cells[1] EXCEPT !.d = @ \cup {"bom"}]]]]
       PROVE  Result
  <2> DEFINE x     == [N[1].cells[1] EXCEPT !.d = @ \cup {"bom"}]
             marked == [N[1].cells EXCEPT ![1] = x]
             first == [N[1] EXCEPT !.cells = marked]
  <2>1. P = [N EXCEPT ![1] = first] /\ 1 \in 1..m
    BY <1>1, <1>10
  <2> HIDE DEF x, first
  <2>2. DOMAIN P = 1..m /\ P[1] = first /\ \A i \in 2..m : P[i] = N[i]
    <3> HIDE DEF N, P
    <3> QED BY <1>1, <1>4, <2>1
  <2>3. N[1].cells \in Seq(ToSet(N[1].cells)) /\ N[1].cells # <<>>
    <3>1. N[1].cells = given[1].cells
      BY <1>13, <2>1
    <3> QED BY <1>3, <1>10, <2>1, <3>1
  <2>4. marked \in Seq(ToSet(marked)) /\ marked # <<>>
    <3> DEFINE old == N[1].cells
    <3>1. old \in Seq(ToSet(old)) /\ Len(old) \in Nat /\ 1 \in 1..Len(old) /\ DOMAIN old = 1..Len(old)
      <4>1. old \in Seq(ToSet(old)) /\ old # <<>>
        BY <2>3
      <4> HIDE DEF old
      <4> QED BY <4>1
    <3> HIDE DEF old
    <3>2. marked = [old EXCEPT ![1] = x]
      BY DEF old
    <3> HIDE DEF marked
    <3>3. DOMAIN marked = 1..Len(old) /\ marked = [i \in 1..Len(old) |-> marked[i]]
      BY <3>1, <3>2
    <3>4. marked \in [1..Len(old) -> ToSet(marked)]
      BY <3>3 DEF ToSet
    <3>5. marked \in Seq(ToSet(marked))
      BY <3>1, <3>4
    <3>6. marked # <<>>
      BY <3>1, <3>3
    <3> QED BY <3>5, <3>6
  <2> HIDE DEF marked
  <2>5. first = [n |-> 1, cells |-> marked, open |-> given[1].open, bad |-> given[1].bad]
    <3>1. N[1] = [n |-> 1, cells |-> given[1].cells, open |-> given[1].open, bad |-> given[1].bad]
      BY <1>2, <2>1
    <3> QED BY <3>1 DEF first
  <2>6. first \in Row(C)
    <3>1. ToSet(marked) \subseteq C
      <4>1. P[1].cells = marked /\ 1 \in DOMAIN P
        BY <2>1, <2>2, <2>5
      <4> HIDE DEF P, N
      <4> QED BY <4>1 DEF CellsOf
    <3>2. marked \in Seq(C)
      <4> HIDE DEF C
      <4> QED BY <2>4, <3>1
    <3> HIDE DEF C
    <3> QED BY <1>3, <2>1, <2>5, <3>2 DEF Row
  <2> HIDE DEF C
  <2>7. \A i \in 1..m : P[i] \in Row(C)
    <3> HIDE DEF P, N
    <3> QED BY <1>1, <1>5, <2>2, <2>6
  <2>8. P \in Seq(Row(C)) /\ Len(P) = m
    <3>1. P = [i \in 1..m |-> P[i]]
      <4> HIDE DEF N
      <4> QED BY <1>4, <2>1
    <3>2. P \in [1..m -> Row(C)]
      <4> HIDE DEF P
      <4> QED BY <2>7, <3>1
    <3> HIDE DEF P
    <3> QED BY <1>1, <3>2
  <2>9. AllAlike(P, N)
    <3>1. Alike(P[1], N[1])
      BY <1>2, <1>10, <2>1, <2>2, <2>4, <2>5 DEF Alike
    <3>2. \A i \in 2..m : Alike(P[i], N[i])
      BY <2>2 DEF Alike
    <3> HIDE DEF P, N
    <3> QED BY <1>1, <1>7, <2>2, <2>8, <3>1, <3>2 DEF AllAlike
  <2> QED BY <1>4, <1>6, <1>7, <1>11, <2>8, <2>9
<1>12. Result
  BY <1>8, <1>9, <1>10
<1> QED BY <1>12 DEF N, P, given, m, AllCells
Increasing(rows) ==
    /\ \A i \in DOMAIN rows : rows[i].n \in Nat \ {0}
    /\ \A i, j \in DOMAIN rows : i < j => rows[i].n < rows[j].n

\* The rows of an input as its adapter sees them, and as they are numbered: the same
\* rows, in increasing order. A first line that is closed is the first row.
LEMMA ReadRows ==
    ASSUME NEW format \in Tabular, NEW constants, NEW input, IsInput(format, constants, input)
    PROVE  LET P     == Physical(format, input)
               rows  == ReaderRows(P)
               plain == ReaderRows(Numbered(Taken(format, input)))
           IN  \E C :
                  /\ P \in Seq(Row(C)) /\ rows \in Seq(Row(C)) /\ plain \in Seq(Row(C))
                  /\ AllAlike(rows, plain)
                  /\ Increasing(rows)
                  /\ P = <<>> <=> Taken(format, input) = <<>>
                  /\ P = <<>> => rows = <<>>
                  /\ (P # <<>> /\ ~Taken(format, input)[1].open) =>
                        /\ rows # <<>> /\ rows[1].n = 1 /\ rows[1] = P[1]
                        /\ ReaderRows(<<P[1]>> \o P) = <<P[1]>> \o rows
<1> DEFINE given == Taken(format, input)
           N     == Numbered(given)
           P     == Physical(format, input)
           C     == AllCells(format, input)
           rows  == ReaderRows(P)
           plain == ReaderRows(N)
           m     == Len(given)
<1>1. /\ N \in Seq(Row(C)) /\ P \in Seq(Row(C)) /\ Len(N) = m
      /\ AllAlike(P, N) /\ \A j \in DOMAIN N : N[j].n = j /\ N[j].open = given[j].open
  BY LinesAre
<1>0. given \in Seq(ToSet(given))
  BY DEF IsInput, IsSequence
<1>2. S("joined") \in C
  BY DEF AllCells
<1> HIDE DEF C, P, N, given
<1>3. PICK r : AreRows(C, r, P) /\ ReaderRows(P) = r[Len(P)]
  BY <1>1, <1>2, RowsExist
<1>4. PICK q : AreRows(C, q, N) /\ ReaderRows(N) = q[Len(N)]
  BY <1>1, <1>2, RowsExist
<1>5. /\ m \in Nat /\ Len(P) = m /\ DOMAIN P = 1..m /\ DOMAIN N = 1..m
      /\ (m > 0 => 1 \in 1..m) /\ m \in 0..m
  BY <1>0, <1>1 DEF AllAlike
<1> HIDE DEF m
<1>6. rows = r[m] /\ plain = q[m] /\ rows \in Seq(Row(C)) /\ plain \in Seq(Row(C))
  BY <1>1, <1>3, <1>4, <1>5 DEF AreRows
<1> HIDE DEF rows, plain
<1>7. \A j \in DOMAIN P : P[j].n = j /\ P[j].open = given[j].open
  BY <1>1, <1>5 DEF AllAlike, Alike
<1>8. NumberedTo(r, P, m)
  <2>1. \A j \in DOMAIN P : P[j].n = j
    BY <1>7
  <2>2. \A k \in 0..Len(P) : NumberedTo(r, P, k)
    BY <1>1, <1>2, <1>3, <2>1, RowsAreNumbered
  <2> QED BY <1>5, <2>2
<1>9. AllAlike(rows, plain)
  <2>1. \A k \in 0..Len(P) : AllAlike(r[k], q[k])
    BY <1>1, <1>2, <1>3, <1>4, AlikeRows
  <2> QED BY <1>5, <1>6, <2>1
<1>10. Increasing(rows)
  <2>1. \A i \in 1..m : i \in Nat \ {0}
    BY <1>5
  <2> QED BY <1>6, <1>8, <2>1 DEF NumberedTo, Increasing
<1>11. P = <<>> <=> given = <<>>
  BY <1>0, <1>1, <1>5 DEF m
<1>12. ASSUME P # <<>>, ~given[1].open
       PROVE  /\ rows # <<>> /\ rows[1].n = 1 /\ rows[1] = P[1]
              /\ ReaderRows(<<P[1]>> \o P) = <<P[1]>> \o rows
  <2>1. m > 0
    BY <1>1, <1>5, <1>12
  <2>2. ~P[1].open /\ P[1] \in Row(C)
    BY <1>1, <1>5, <1>7, <1>12, <2>1
  <2>3. rows # <<>> /\ rows[1].n = 1 /\ rows[1] = P[1]
    BY <1>6, <1>8, <2>1, <2>2 DEF NumberedTo
  <2>4. <<P[1]>> \o P \in Seq(Row(C)) /\ Len(<<P[1]>> \o P) = m + 1
    BY <1>1, <1>5, <2>2
  <2>5. PICK a : AreRows(C, a, <<P[1]>> \o P) /\ ReaderRows(<<P[1]>> \o P) = a[Len(<<P[1]>> \o P)]
    BY <1>2, <2>4, RowsExist
  <2>6. a[Len(P) + 1] = <<P[1]>> \o r[Len(P)]
    BY <1>1, <1>2, <1>3, <2>2, <2>5, PrefixedRows
  <2>7. ReaderRows(<<P[1]>> \o P) = <<P[1]>> \o rows
    BY <1>5, <1>6, <2>4, <2>5, <2>6
  <2> QED BY <2>3, <2>7
<1>14. P = <<>> => rows = <<>>
  BY <1>3, <1>5, <1>6 DEF AreRows
<1>13. /\ P \in Seq(Row(C)) /\ rows \in Seq(Row(C)) /\ plain \in Seq(Row(C))
       /\ AllAlike(rows, plain)
       /\ Increasing(rows)
       /\ P = <<>> <=> given = <<>>
       /\ P = <<>> => rows = <<>>
       /\ (P # <<>> /\ ~given[1].open) =>
             /\ rows # <<>> /\ rows[1].n = 1 /\ rows[1] = P[1]
             /\ ReaderRows(<<P[1]>> \o P) = <<P[1]>> \o rows
  BY <1>1, <1>6, <1>9, <1>10, <1>11, <1>12, <1>14
<1> QED BY <1>13 DEF P, N, rows, plain, given

\* The rows of the input that hold a record, apart from a header.
DataRows(format, constants, input) ==
    LET rows == ReaderRows(Numbered(Taken(format, input)))
    IN  IF HasHeader(constants) /\ rows # <<>> THEN Tail(rows) ELSE rows

Once(found, data) ==
    IsSequence(found) /\ IsSequence(data) /\ AllAlike(found, data) /\ Increasing(found)

\* Where the reader begins again it finds the first row twice.
FirstTwice(found, data) ==
    \E rest : /\ Once(rest, data)
              /\ rest # <<>> /\ rest[1].n = 1
              /\ found = <<rest[1]>> \o rest

LEMMA TabularFinds ==
    ASSUME NEW format \in Tabular, NEW constants, NEW input, IsInput(format, constants, input)
    PROVE  LET found == Elements(format, constants, input)
               data  == DataRows(format, constants, input)
           IN  /\ IF /\ format = "streaming_csv" /\ ~HasHeader(constants) /\ input.rewinds
                     /\ Taken(format, input) # <<>>
                  THEN FirstTwice(found, data) ELSE Once(found, data)
               /\ Taken(format, input) = <<>> => data = <<>>
<1> DEFINE P     == Physical(format, input)
           rows  == ReaderRows(P)
           plain == ReaderRows(Numbered(Taken(format, input)))
           found == Elements(format, constants, input)
           data  == DataRows(format, constants, input)
           again == /\ format = "streaming_csv" /\ ~HasHeader(constants) /\ input.rewinds
                    /\ Taken(format, input) # <<>>
<1>1. PICK C :
        /\ P \in Seq(Row(C)) /\ rows \in Seq(Row(C)) /\ plain \in Seq(Row(C))
        /\ AllAlike(rows, plain)
        /\ Increasing(rows)
        /\ P = <<>> <=> Taken(format, input) = <<>>
        /\ P = <<>> => rows = <<>>
        /\ (P # <<>> /\ ~Taken(format, input)[1].open) =>
              /\ rows # <<>> /\ rows[1].n = 1 /\ rows[1] = P[1]
              /\ ReaderRows(<<P[1]>> \o P) = <<P[1]>> \o rows
  BY ReadRows
<1>2. found = LET r == InputRows(format, constants, input)
              IN  IF HasHeader(constants) /\ r # <<>> THEN Tail(r) ELSE r
  BY DEF Elements, Tabular, Lines
<1>3. InputRows(format, constants, input) =
        IF format = "streaming_csv" /\ ~HasHeader(constants) /\ input.rewinds /\ P # <<>>
        THEN ReaderRows(<<P[1]>> \o P) ELSE rows
  BY DEF InputRows
<1>4. data = IF HasHeader(constants) /\ plain # <<>> THEN Tail(plain) ELSE plain
  BY DEF DataRows
<1>10. again => ~Taken(format, input)[1].open
  BY DEF IsInput, Taken
<1> HIDE DEF P, rows, plain, found, data
<1>5. ASSUME NEW s \in Seq(Row(C)) PROVE IsSequence(s)
  <2>1. s \in Seq(ToSet(s))
    <3>1. s = [i \in 1..Len(s) |-> s[i]] /\ Len(s) \in Nat /\ DOMAIN s = 1..Len(s)
      OBVIOUS
    <3>2. s \in [1..Len(s) -> ToSet(s)]
      BY <3>1 DEF ToSet
    <3> QED BY <3>1, <3>2
  <2> QED BY <2>1 DEF IsSequence
<1>6. ASSUME again PROVE FirstTwice(found, data)
  <2>1. /\ P # <<>> /\ ~Taken(format, input)[1].open
    BY <1>1, <1>6, <1>10
  <2>2. found = <<rows[1]>> \o rows /\ data = plain /\ rows # <<>> /\ rows[1].n = 1
    BY <1>1, <1>2, <1>3, <1>4, <1>6, <2>1
  <2>3. Once(rows, plain)
    BY <1>1, <1>5 DEF Once
  <2> QED BY <2>2, <2>3 DEF FirstTwice
<1>7. ASSUME ~again PROVE Once(found, data)
  <2>1. InputRows(format, constants, input) = rows
    BY <1>1, <1>3, <1>7
  <2>2. rows = <<>> <=> plain = <<>>
    <3>1. Len(rows) = Len(plain)
      BY <1>1 DEF AllAlike
    <3> QED BY <1>1, <3>1
  <2>3. CASE HasHeader(constants) /\ rows # <<>>
    <3>1. found = Tail(rows) /\ data = Tail(plain)
      BY <1>2, <1>4, <2>1, <2>2, <2>3
    <3>2. /\ Len(rows) = Len(plain) /\ Len(rows) \in Nat \ {0}
          /\ Tail(rows) \in Seq(Row(C)) /\ Tail(plain) \in Seq(Row(C))
          /\ DOMAIN rows = 1..Len(rows)
          /\ DOMAIN Tail(rows) = 1..(Len(rows) - 1) /\ Len(Tail(plain)) = Len(rows) - 1
          /\ Len(Tail(rows)) = Len(rows) - 1
          /\ \A i \in 1..(Len(rows) - 1) : Tail(rows)[i] = rows[i + 1] /\ Tail(plain)[i] = plain[i + 1]
      BY <1>1, <2>3 DEF AllAlike
    <3>3. \A i \in 1..(Len(rows) - 1) : i + 1 \in 1..Len(rows)
      BY <3>2
    <3>4. AllAlike(Tail(rows), Tail(plain))
      <4>1. ASSUME NEW i \in 1..(Len(rows) - 1) PROVE Alike(Tail(rows)[i], Tail(plain)[i])
        BY <1>1, <3>2, <3>3 DEF AllAlike
      <4> QED BY <3>2, <4>1 DEF AllAlike
    <3>5. Increasing(Tail(rows))
      <4>1. ASSUME NEW i \in 1..(Len(rows) - 1) PROVE Tail(rows)[i].n \in Nat \ {0}
        BY <1>1, <3>2, <3>3 DEF Increasing
      <4>2. ASSUME NEW i \in 1..(Len(rows) - 1), NEW j \in 1..(Len(rows) - 1), i < j
            PROVE  Tail(rows)[i].n < Tail(rows)[j].n
        <5>1. i + 1 \in DOMAIN rows /\ j + 1 \in DOMAIN rows /\ i + 1 < j + 1
          BY <3>2, <3>3, <4>2
        <5>2. rows[i + 1].n < rows[j + 1].n
          BY <1>1, <5>1 DEF Increasing
        <5> QED BY <3>2, <5>2
      <4> QED BY <3>2, <4>1, <4>2 DEF Increasing
    <3> QED BY <1>5, <3>1, <3>2, <3>4, <3>5 DEF Once
  <2>4. CASE ~(HasHeader(constants) /\ rows # <<>>)
    <3>1. found = rows /\ data = plain
      BY <1>2, <1>4, <2>1, <2>2, <2>4
    <3> QED BY <1>1, <1>5, <3>1 DEF Once
  <2> QED BY <2>3, <2>4
<1>8. ASSUME Taken(format, input) = <<>> PROVE data = <<>>
  <2>1. rows = <<>> /\ Len(rows) = Len(plain)
    BY <1>1, <1>8 DEF AllAlike
  <2>2. plain = <<>>
    BY <1>1, <2>1
  <2> QED BY <1>4, <2>2
<1> QED BY <1>6, <1>7, <1>8 DEF found, data
-----------------------------------------------------------------------------
(* What an adapter finds in the input of the run.                                        *)

Fit == Adapter \in Classes /\ IsInput(Adapter, Constants, feed.input)

Found == Elements(Adapter, Constants, feed.input)

\* What it takes for the records: those of the input, but for a list that csv is given.
TakenRecords ==
    LET rows == ReaderRows(Numbered(Taken(Adapter, feed.input)))
        data == IF HasHeader(Constants) /\ rows # <<>> THEN Tail(rows) ELSE rows
    IN  IF Adapter \in Tabular THEN {data[i].n : i \in {i \in DOMAIN data : data[i].cells # <<>>}}
        ELSE IF Adapter \in Lines
        THEN {n \in DOMAIN feed.input.elements : ~feed.input.elements[n].blank}
        ELSE IF feed.input.shape = "under_items" /\ Adapter = "json"
                /\ ~Truthy(Get(Constants, "items_path", None))
        THEN {1} ELSE DOMAIN feed.input.elements

LEMMA TakenIs ==
    /\ Adapter # "csv" => Taken(Adapter, feed.input) = feed.input.elements
    /\ ~ReadsRepr => TakenRecords = Records
<1>1. ~ReadsRepr => Taken(Adapter, feed.input) = feed.input.elements
  BY DEF Taken, ReadsRepr
<1>2. Adapter # "csv" => ~ReadsRepr
  BY DEF ReadsRepr
<1> QED BY <1>1, <1>2 DEF TakenRecords, Records

OutcomeOf(p) == Outcome(Adapter, Constants, names, Found[p], p - 1)

HasFate(p) == OutcomeOf(p).yields \/ OutcomeOf(p).log \notin {"none", "mismatch"}

Occurrences(n) == {p \in DOMAIN Found : Found[p].n = n}

TimesOf(n) == IF n = 1 /\ Rereads THEN 2 ELSE 1

\* Each record of the input is found as often as it is to be, in the order of the input,
\* and yields, raises or is named by a warning; nothing else has such a fate.
FindsAll ==
    /\ IsSequence(Found)
    /\ \A p \in DOMAIN Found :
          /\ Found[p].n \in Nat \ {0}
          /\ HasFate(p) => Found[p].n \in TakenRecords
          /\ Found[p].n \in TakenRecords => OutcomeOf(p).raises \/ HasFate(p)
    /\ \A p, q \in DOMAIN Found : p < q => Found[p].n <= Found[q].n
    /\ \A n \in TakenRecords : Cardinality(Occurrences(n)) <= TimesOf(n)
    /\ ~LeadsNowhere => \A n \in TakenRecords : Cardinality(Occurrences(n)) = TimesOf(n)

\* An outcome yields a record, skips one or raises, each with its warnings.
LEMMA OutcomeIs ==
    ASSUME NEW format \in Classes, NEW constants, NEW columns, NEW e, NEW i
    PROVE  LET o == Outcome(format, constants, columns, e, i)
           IN  /\ o.yields \in BOOLEAN /\ o.raises \in BOOLEAN
               /\ o.yields => ~o.raises /\ o.log \in {"none", "mismatch"}
               /\ ~o.yields => o.log # "mismatch"
<1> DEFINE o == Outcome(format, constants, columns, e, i)
           Result(x) == /\ x.yields \in BOOLEAN /\ x.raises \in BOOLEAN
                        /\ x.yields => ~x.raises /\ x.log \in {"none", "mismatch"}
                        /\ ~x.yields => x.log # "mismatch"
<1>1. Result(ItemOutcome(e)) /\ Result(Raises("none")) /\ Result(StreamedOutcome(e))
      /\ Result(PayloadOutcome(e))
  BY DEF ItemOutcome, PayloadOutcome, StreamedOutcome, Yields, Skips, Raises
<1>2. Result(LineOutcome(e))
  BY DEF LineOutcome, Yields, Skips, Raises
<1>3. Result(RowOutcome(columns, e))
  BY DEF RowOutcome, Yields, Skips, Raises
<1> HIDE DEF Result
<1>4. \/ format \in Tabular /\ o = RowOutcome(columns, e)
      \/ format \in Lines /\ o = LineOutcome(e)
      \/ format = "streaming_json" /\ o = StreamedOutcome(e)
      \/ format = "json" /\ o = PayloadOutcome(e)
      \/ format = "rows" /\ (o = Raises("none") \/ o = ItemOutcome(e))
  BY DEF Outcome, Classes, Tabular, Lines, Streaming
<1>5. Result(o)
  BY <1>1, <1>2, <1>3, <1>4
<1> QED BY <1>5 DEF Result

\* In increasing numbers, each is there at most once.
LEMMA OnePlace ==
    ASSUME Increasing(Found), IsSequence(Found), NEW n
    PROVE  /\ Cardinality(Occurrences(n)) <= 1
           /\ Occurrences(n) # {} => Cardinality(Occurrences(n)) = 1
<1>1. DOMAIN Found = 1..Len(Found) /\ Len(Found) \in Nat
  BY DEF IsSequence
<1>2. ASSUME NEW p \in Occurrences(n), NEW q \in Occurrences(n) PROVE p = q
  <2>1. p \in Nat /\ q \in Nat /\ Found[p].n \in Nat /\ Found[p].n = Found[q].n
    BY <1>1 DEF Increasing, Occurrences
  <2>2. ~(p < q) /\ ~(q < p)
    BY <2>1 DEF Increasing, Occurrences
  <2> QED BY <2>1, <2>2
<1>3. CASE Occurrences(n) = {}
  BY <1>3, FS_EmptySet
<1>4. CASE Occurrences(n) # {}
  <2>1. PICK p : Occurrences(n) = {p}
    BY <1>2, <1>4
  <2>2. Cardinality(Occurrences(n)) = 1
    BY <2>1, FS_Singleton
  <2> QED BY <2>2
<1> QED BY <1>3, <1>4

\* A row that is bad raises, and of the others those with cells have a fate.
LEMMA RowFates ==
    ASSUME Adapter \in Tabular, NEW p
    PROVE  /\ HasFate(p) => Found[p].cells # <<>>
           /\ Found[p].cells # <<>> => OutcomeOf(p).raises \/ HasFate(p)
<1>1. OutcomeOf(p) = RowOutcome(names, Found[p])
  BY DEF OutcomeOf, Outcome, Tabular, Lines
<1> QED BY <1>1 DEF HasFate, RowOutcome, Yields, Skips, Raises

\* The rows of a table are found, the first one twice where the reader begins again.
LEMMA FindsTabular ==
    ASSUME Fit, Adapter \in Tabular
    PROVE  FindsAll
<1> DEFINE data  == DataRows(Adapter, Constants, feed.input)
           again == /\ Adapter = "streaming_csv" /\ ~HasHeader(Constants) /\ feed.input.rewinds
                    /\ Taken(Adapter, feed.input) # <<>>
<1>1. /\ IF again THEN FirstTwice(Found, data) ELSE Once(Found, data)
      /\ Taken(Adapter, feed.input) = <<>> => data = <<>>
  <2> HIDE DEF data
  <2>1. IsInput(Adapter, Constants, feed.input)
    BY DEF Fit
  <2> QED BY <2>1, TabularFinds DEF Found, data
<1>2. TakenRecords = {data[i].n : i \in {i \in DOMAIN data : data[i].cells # <<>>}}
  BY DEF TakenRecords, DataRows
<1>3. ~LeadsNowhere
  BY DEF LeadsNowhere, Tabular
<1> HIDE DEF data
<1>4. CASE ~again
  <2>1. /\ IsSequence(Found) /\ Increasing(Found) /\ Len(Found) = Len(data) /\ IsSequence(data)
        /\ \A i \in DOMAIN Found : Alike(Found[i], data[i])
    BY <1>1, <1>4 DEF Once, AllAlike
  <2>2. DOMAIN Found = 1..Len(Found) /\ DOMAIN data = DOMAIN Found /\ Len(Found) \in Nat
    BY <2>1 DEF IsSequence
  <2>3. ASSUME NEW p \in DOMAIN Found
        PROVE  /\ Found[p].n \in Nat \ {0}
               /\ Found[p].n \in TakenRecords <=> Found[p].cells # <<>>
    <3>1. Found[p].n \in Nat \ {0} /\ Alike(Found[p], data[p]) /\ p \in DOMAIN data
      BY <2>1, <2>2 DEF Increasing
    <3>2. Found[p].cells # <<>> => Found[p].n \in TakenRecords
      BY <1>2, <3>1 DEF Alike
    <3>3. ASSUME Found[p].n \in TakenRecords PROVE Found[p].cells # <<>>
      <4>1. PICK i \in DOMAIN data : data[i].cells # <<>> /\ data[i].n = Found[p].n
        BY <1>2, <3>3
      <4>2. i \in DOMAIN Found /\ Found[i].n = Found[p].n
        BY <2>1, <2>2, <4>1 DEF Alike
      <4>3. ~(i < p) /\ ~(p < i) /\ i \in Nat /\ p \in Nat
        BY <2>1, <2>2, <3>1, <4>2 DEF Increasing
      <4>4. i = p
        BY <4>3
      <4> QED BY <3>1, <4>1, <4>4 DEF Alike
    <3> QED BY <3>1, <3>2, <3>3
  <2>4. \A p \in DOMAIN Found :
          /\ Found[p].n \in Nat \ {0}
          /\ HasFate(p) => Found[p].n \in TakenRecords
          /\ Found[p].n \in TakenRecords => OutcomeOf(p).raises \/ HasFate(p)
    BY <2>3, RowFates
  <2>5. \A p, q \in DOMAIN Found : p < q => Found[p].n <= Found[q].n
    BY <2>1 DEF Increasing
  <2>6. ASSUME NEW n \in TakenRecords PROVE Cardinality(Occurrences(n)) = TimesOf(n)
    <3>1. PICK i \in DOMAIN data : data[i].n = n
      BY <1>2
    <3>2. i \in Occurrences(n)
      BY <2>1, <2>2, <3>1 DEF Occurrences, Alike
    <3>3. Taken(Adapter, feed.input) # <<>>
      BY <1>1, <3>1
    <3>4. TimesOf(n) = 1
      BY <1>4, <3>3 DEF TimesOf, Rereads
    <3> QED BY <2>1, <3>2, <3>4, OnePlace
  <2>7. \A n \in TakenRecords : Cardinality(Occurrences(n)) <= TimesOf(n)
    <3>1. ASSUME NEW n \in TakenRecords PROVE TimesOf(n) <= TimesOf(n)
      BY DEF TimesOf
    <3> QED BY <2>6, <3>1
  <2> QED BY <2>1, <2>4, <2>5, <2>6, <2>7 DEF FindsAll
<1>5. CASE again
  <2>1. PICK rest : Once(rest, data) /\ rest # <<>> /\ rest[1].n = 1 /\ Found = <<rest[1]>> \o rest
    BY <1>1, <1>5 DEF FirstTwice
  <2> DEFINE m == Len(rest)
  <2>2. /\ rest \in Seq(ToSet(rest)) /\ m \in Nat /\ m > 0 /\ DOMAIN rest = 1..m
        /\ Increasing(rest) /\ data \in Seq(ToSet(data)) /\ DOMAIN data = 1..m
        /\ \A i \in 1..m : Alike(rest[i], data[i])
    <3>1. rest \in Seq(ToSet(rest)) /\ data \in Seq(ToSet(data)) /\ Increasing(rest) /\ AllAlike(rest, data)
      BY <2>1 DEF Once, IsSequence
    <3>2. m \in Nat /\ m > 0 /\ DOMAIN rest = 1..m
      BY <2>1, <3>1
    <3> QED BY <3>1, <3>2 DEF AllAlike
  <2>3. /\ DOMAIN Found = 1..(m + 1) /\ Found[1] = rest[1] /\ \A i \in 1..m : Found[i + 1] = rest[i]
        /\ Found \in Seq(ToSet(rest)) /\ Len(Found) = m + 1
    <3>1. rest[1] \in ToSet(rest)
      BY <2>2 DEF ToSet
    <3> DEFINE T == ToSet(rest)
    <3>2. rest \in Seq(T) /\ rest[1] \in T
      BY <2>2, <3>1
    <3> HIDE DEF T
    <3>3. <<rest[1]>> \o rest \in Seq(T) /\ Len(<<rest[1]>> \o rest) = m + 1
      BY <3>2
    <3>4. (<<rest[1]>> \o rest)[1] = rest[1] /\ \A i \in 1..m : (<<rest[1]>> \o rest)[i + 1] = rest[i]
      BY <3>2
    <3> QED BY <2>1, <2>2, <3>3, <3>4 DEF T
  <2> HIDE DEF m
  <2> DEFINE Of(p) == IF p = 1 THEN 1 ELSE p - 1
  <2>4. \A p \in 1..(m + 1) : Of(p) \in 1..m /\ Found[p] = rest[Of(p)]
    <3> SUFFICES ASSUME NEW p \in 1..(m + 1) PROVE Of(p) \in 1..m /\ Found[p] = rest[Of(p)]
      OBVIOUS
    <3>1. CASE p = 1
      BY <2>2, <2>3, <3>1
    <3>2. CASE p # 1
      <4>1. p - 1 \in 1..m /\ (p - 1) + 1 = p
        BY <2>2, <3>2
      <4>2. Found[(p - 1) + 1] = rest[p - 1]
        BY <2>3, <4>1
      <4> QED BY <3>2, <4>1, <4>2
    <3> QED BY <3>1, <3>2
  <2>5. IsSequence(Found)
    <3>1. Found = [i \in 1..(m + 1) |-> Found[i]]
      BY <2>3
    <3>2. Found \in [1..(m + 1) -> ToSet(Found)]
      BY <2>3, <3>1 DEF ToSet
    <3>3. m + 1 \in Nat
      BY <2>2
    <3>4. Found \in Seq(ToSet(Found))
      BY <3>2, <3>3
    <3> QED BY <3>4 DEF IsSequence
  <2>6. ASSUME NEW i \in 1..m
        PROVE  /\ rest[i].n \in Nat \ {0}
               /\ rest[i].n \in TakenRecords <=> rest[i].cells # <<>>
    <3>1. rest[i].n \in Nat \ {0} /\ Alike(rest[i], data[i]) /\ i \in DOMAIN data
      BY <2>2 DEF Increasing
    <3>2. rest[i].cells # <<>> => rest[i].n \in TakenRecords
      BY <1>2, <3>1 DEF Alike
    <3>3. ASSUME rest[i].n \in TakenRecords PROVE rest[i].cells # <<>>
      <4>1. PICK j \in DOMAIN data : data[j].cells # <<>> /\ data[j].n = rest[i].n
        BY <1>2, <3>3
      <4>2. j \in 1..m /\ rest[j].n = rest[i].n
        BY <2>2, <4>1 DEF Alike
      <4>3. ~(j < i) /\ ~(i < j) /\ i \in Nat /\ j \in Nat
        BY <2>2, <3>1, <4>2 DEF Increasing
      <4>4. i = j
        BY <4>3
      <4> QED BY <3>1, <4>1, <4>4 DEF Alike
    <3> QED BY <3>1, <3>2, <3>3
  <2>7. \A p \in DOMAIN Found :
          /\ Found[p].n \in Nat \ {0}
          /\ HasFate(p) => Found[p].n \in TakenRecords
          /\ Found[p].n \in TakenRecords => OutcomeOf(p).raises \/ HasFate(p)
    <3> HIDE DEF Of
    <3> QED BY <2>3, <2>4, <2>6, RowFates
  <2>8. ASSUME NEW p \in DOMAIN Found, NEW q \in DOMAIN Found, p < q
        PROVE  Found[p].n <= Found[q].n
    <3>1. p \in 1..(m + 1) /\ q \in 1..(m + 1)
      BY <2>3
    <3>2. Of(p) < Of(q) \/ Of(p) = Of(q)
      BY <2>2, <2>8, <3>1
    <3>3. Of(p) \in 1..m /\ Of(q) \in 1..m /\ Found[p] = rest[Of(p)] /\ Found[q] = rest[Of(q)]
      BY <2>4, <3>1
    <3> HIDE DEF Of
    <3>4. Found[p].n \in Nat /\ Found[q].n \in Nat
      BY <2>6, <3>3
    <3>5. Of(p) < Of(q) => Found[p].n < Found[q].n
      BY <2>2, <3>3 DEF Increasing
    <3> QED BY <3>2, <3>3, <3>4, <3>5
  <2>9. ASSUME NEW n \in TakenRecords PROVE Cardinality(Occurrences(n)) = TimesOf(n)
    <3>1. PICK i \in 1..m : data[i].n = n
      BY <1>2, <2>2
    <3>2. rest[i].n = n
      BY <2>2, <3>1 DEF Alike
    <3>3. ASSUME NEW j \in 1..m, rest[j].n = n PROVE j = i
      <4>1. i \in DOMAIN rest /\ j \in DOMAIN rest /\ i \in Nat /\ j \in Nat
        BY <2>2, <3>1, <3>3
      <4>2. n \in Nat
        BY <2>6, <3>2
      <4>3. Increasing(rest)
        BY <2>2
      <4>4. ~(j < i) /\ ~(i < j)
        BY <3>2, <3>3, <4>1, <4>2, <4>3 DEF Increasing
      <4> QED BY <4>1, <4>4
    <3>4. n = 1 <=> i = 1
      BY <2>1, <2>2, <3>2, <3>3
    <3>5. \A p \in 1..(m + 1) : Found[p].n = n <=> Of(p) = i
      <4> HIDE DEF Of
      <4> QED BY <2>4, <3>2, <3>3
    <3>6. CASE n = 1
      <4>1. Occurrences(n) = {1, 2}
        <5>1. \A p \in 1..(m + 1) : Of(p) = 1 <=> p \in {1, 2}
          BY <2>2
        <5>2. 1 \in 1..(m + 1) /\ 2 \in 1..(m + 1)
          BY <2>2
        <5> HIDE DEF Of
        <5> QED BY <2>3, <3>4, <3>5, <3>6, <5>1, <5>2 DEF Occurrences
      <4>2. Cardinality({1, 2}) = 2
        <5>1. IsFiniteSet({2}) /\ Cardinality({2}) = 1
          BY FS_Singleton
        <5>2. 1 \notin {2}
          OBVIOUS
        <5> DEFINE two == {2}
        <5> HIDE DEF two
        <5>3. IsFiniteSet(two) /\ 1 \notin two /\ Cardinality(two) = 1
          BY <5>1, <5>2 DEF two
        <5>4. Cardinality(two \cup {1}) = Cardinality(two) + 1
          BY <5>3, FS_AddElement
        <5>5. two \cup {1} = {1, 2}
          BY DEF two
        <5> QED BY <5>3, <5>4, <5>5
      <4>3. TimesOf(n) = 2
        BY <1>5, <3>6 DEF TimesOf, Rereads
      <4> QED BY <4>1, <4>2, <4>3
    <3>7. CASE n # 1
      <4>1. Occurrences(n) = {i + 1}
        <5>1. \A p \in 1..(m + 1) : Of(p) = i <=> p = i + 1
          BY <2>2, <3>4, <3>7
        <5>2. i + 1 \in 1..(m + 1)
          BY <2>2
        <5> HIDE DEF Of
        <5> QED BY <2>3, <3>5, <5>1, <5>2 DEF Occurrences
      <4> QED BY <3>7, <4>1, FS_Singleton DEF TimesOf
    <3> QED BY <3>6, <3>7
  <2>10. \A n \in TakenRecords : Cardinality(Occurrences(n)) <= TimesOf(n)
    <3>1. ASSUME NEW n \in TakenRecords PROVE TimesOf(n) <= TimesOf(n)
      BY DEF TimesOf
    <3> QED BY <2>9, <3>1
  <2> QED BY <2>5, <2>7, <2>8, <2>9, <2>10 DEF FindsAll
<1> QED BY <1>4, <1>5

\* Elements that keep their own places are found once.
LEMMA FindsPlainly ==
    ASSUME Adapter \notin Tabular, IsSequence(Found), \A p \in DOMAIN Found : Found[p].n = p,
           \A p \in DOMAIN Found : /\ HasFate(p) => p \in TakenRecords
                                   /\ p \in TakenRecords => OutcomeOf(p).raises \/ HasFate(p),
           ~LeadsNowhere => TakenRecords \subseteq DOMAIN Found
    PROVE  FindsAll
<1>1. DOMAIN Found = 1..Len(Found) /\ Len(Found) \in Nat
  BY DEF IsSequence
<1>2. Increasing(Found)
  BY <1>1 DEF Increasing
<1>3. \A n : TimesOf(n) = 1
  BY DEF TimesOf, Rereads, Tabular
<1>4. \A n : Cardinality(Occurrences(n)) <= 1 /\ (n \in DOMAIN Found => Cardinality(Occurrences(n)) = 1)
  <2>1. \A n \in DOMAIN Found : Occurrences(n) # {}
    BY DEF Occurrences
  <2> QED BY <1>2, <2>1, OnePlace
<1>5. \A p, q \in DOMAIN Found : p < q => Found[p].n <= Found[q].n
  BY <1>1
<1>6. \A p \in DOMAIN Found :
          /\ Found[p].n \in Nat \ {0}
          /\ HasFate(p) => Found[p].n \in TakenRecords
          /\ Found[p].n \in TakenRecords => OutcomeOf(p).raises \/ HasFate(p)
  BY <1>1
<1> QED BY <1>3, <1>4, <1>5, <1>6 DEF FindsAll

\* The number is one more field of a JSON element, too.
LEMMA NumberedJson ==
    ASSUME NEW n, NEW e, IsJson(e)
    PROVE  /\ At(n, e).n = n /\ At(n, e).json = e.json /\ At(n, e).blank = e.blank
           /\ {"n", "json", "blank"} \subseteq DOMAIN At(n, e)
<1>1. e = [blank |-> e.blank, long |-> e.long, deep |-> e.deep, json |-> e.json,
           split |-> e.split, rec |-> e.rec]
  BY DEF IsJson
<1>2. DOMAIN e = {"blank", "long", "deep", "json", "split", "rec"}
  BY <1>1
<1>3. At(n, e) = [key \in DOMAIN e \cup {"n"} |-> IF key = "n" THEN n ELSE e[key]]
  BY DEF At
<1>4. At(n, e)["n"] = n /\ At(n, e)["json"] = e["json"] /\ At(n, e)["blank"] = e["blank"]
  BY <1>2, <1>3
<1>5. {"n", "json", "blank"} \subseteq DOMAIN At(n, e)
  BY <1>2, <1>3
<1> QED BY <1>4, <1>5

LEMMA NumberedElements ==
    ASSUME Fit, Adapter \notin Tabular
    PROVE  LET given == feed.input.elements
           IN  /\ Len(given) \in Nat /\ DOMAIN given = 1..Len(given)
               /\ Numbered(given) = [i \in DOMAIN given |-> At(i, given[i])]
               /\ \A i \in DOMAIN given :
                     /\ given[i].json \in {"mapping", "other", "broken"}
                     /\ Numbered(given)[i] = At(i, given[i])
                     /\ Numbered(given)[i].n = i /\ Numbered(given)[i].json = given[i].json
                     /\ Numbered(given)[i].blank = given[i].blank
                     /\ {"n", "json", "blank"} \subseteq DOMAIN Numbered(given)[i]
<1> DEFINE given == feed.input.elements
<1>1. IsSequence(given) /\ \A i \in DOMAIN given : IsJson(given[i])
  BY TakenIs DEF Fit, IsInput, Tabular
<1>2. Len(given) \in Nat /\ DOMAIN given = 1..Len(given)
  BY <1>1 DEF IsSequence
<1>3. Numbered(given) = [i \in DOMAIN given |-> At(i, given[i])]
  BY DEF Numbered
<1> HIDE DEF given
<1>4. ASSUME NEW i \in DOMAIN given
      PROVE  /\ given[i].json \in {"mapping", "other", "broken"}
             /\ Numbered(given)[i] = At(i, given[i])
             /\ Numbered(given)[i].n = i /\ Numbered(given)[i].json = given[i].json
             /\ Numbered(given)[i].blank = given[i].blank
             /\ {"n", "json", "blank"} \subseteq DOMAIN Numbered(given)[i]
  <2>1. Numbered(given)[i] = At(i, given[i])
    BY <1>3
  <2>2. IsJson(given[i])
    BY <1>1
  <2>3. given[i].json \in {"mapping", "other", "broken"}
    BY <2>2 DEF IsJson
  <2>4. /\ At(i, given[i]).n = i /\ At(i, given[i]).json = given[i].json
        /\ At(i, given[i]).blank = given[i].blank
        /\ {"n", "json", "blank"} \subseteq DOMAIN At(i, given[i])
    BY <2>2, NumberedJson
  <2> QED BY <2>1, <2>3, <2>4
<1> QED BY <1>2, <1>3, <1>4 DEF given

LEMMA MappedSequence ==
    ASSUME NEW s, Len(s) \in Nat, DOMAIN s = 1..Len(s), NEW r, DOMAIN r = DOMAIN s,
           r = [i \in DOMAIN s |-> r[i]]
    PROVE  IsSequence(r)
<1>1. r \in [1..Len(s) -> ToSet(r)]
  BY DEF ToSet
<1>2. r \in Seq(ToSet(r))
  BY <1>1
<1> QED BY <1>2 DEF IsSequence

\* The lines of a JSON Lines input.
LEMMA FindsLines ==
    ASSUME Fit, Adapter \in Lines
    PROVE  FindsAll
<1> DEFINE given == feed.input.elements
           N == Numbered(given)
<1>0. Adapter \notin Tabular
  BY DEF Tabular, Lines
<1>1. /\ Len(given) \in Nat /\ DOMAIN given = 1..Len(given)
      /\ N = [i \in DOMAIN given |-> At(i, given[i])]
      /\ \A i \in DOMAIN given :
            /\ N[i] = At(i, given[i])
            /\ N[i].n = i /\ N[i].json = given[i].json /\ N[i].blank = given[i].blank
            /\ {"n", "json", "blank"} \subseteq DOMAIN N[i]
  BY <1>0, NumberedElements
<1>2. Found = JsonLines(Adapter, feed.input)
  BY DEF Found, Elements, Tabular, Lines
<1>3. JsonLines(Adapter, feed.input) =
        IF Adapter = "streaming_jsonl" THEN N
        ELSE [i \in DOMAIN N |-> IF N[i].split THEN [N[i] EXCEPT !.json = "broken"] ELSE N[i]]
  BY DEF JsonLines
<1>4. TakenRecords = {n \in DOMAIN given : ~given[n].blank}
  BY <1>0 DEF TakenRecords
<1> HIDE DEF N, given
<1>5. DOMAIN Found = DOMAIN given /\ Found = [i \in DOMAIN given |-> Found[i]]
  BY <1>1, <1>2, <1>3
<1>6. ASSUME NEW i \in DOMAIN given
      PROVE  Found[i].n = i /\ Found[i].blank = given[i].blank
  <2>1. Found[i] = N[i] \/ Found[i] = [N[i] EXCEPT !.json = "broken"]
    BY <1>1, <1>2, <1>3
  <2>2. N[i].n = i /\ N[i].blank = given[i].blank /\ {"n", "json", "blank"} \subseteq DOMAIN N[i]
    BY <1>1
  <2> QED BY <2>1, <2>2
<1>7. IsSequence(Found)
  BY <1>1, <1>5, MappedSequence
<1>8. ASSUME NEW i \in DOMAIN Found
      PROVE  /\ HasFate(i) => ~given[i].blank
             /\ ~given[i].blank => OutcomeOf(i).raises \/ HasFate(i)
  <2>1. OutcomeOf(i) = LineOutcome(Found[i])
    BY DEF OutcomeOf, Outcome, Tabular, Lines
  <2> DEFINE o    == OutcomeOf(i)
             line == Found[i]
  <2>2. line.blank = given[i].blank
    BY <1>5, <1>6
  <2>3. ASSUME line.blank PROVE ~o.yields /\ o.log = "none"
    BY <2>1, <2>3 DEF LineOutcome, Skips
  <2>4. ASSUME ~line.blank PROVE o.raises \/ o.yields \/ o.log = "not a mapping"
    <3>1. CASE LineFails(line)
      BY <2>1, <2>4, <3>1 DEF LineOutcome, Raises
    <3>2. CASE ~LineFails(line)
      <4>1. line.json = "other" => o = Skips("not a mapping")
        BY <2>1, <2>4, <3>2 DEF LineOutcome
      <4>2. line.json # "other" => o = Yields(Loaded(line.rec), "none")
        BY <2>1, <2>4, <3>2 DEF LineOutcome
      <4>3. Skips("not a mapping").log = "not a mapping" /\ Yields(Loaded(line.rec), "none").yields
        BY DEF Skips, Yields
      <4> HIDE DEF line, o
      <4> QED BY <4>1, <4>2, <4>3
    <3> QED BY <3>1, <3>2
  <2> HIDE DEF o, line
  <2> QED BY <2>2, <2>3, <2>4 DEF HasFate, o
<1>9. \A p \in DOMAIN Found : /\ HasFate(p) => p \in TakenRecords
                              /\ p \in TakenRecords => OutcomeOf(p).raises \/ HasFate(p)
  BY <1>4, <1>5, <1>8
<1>10. \A p \in DOMAIN Found : Found[p].n = p
  BY <1>5, <1>6
<1>11. TakenRecords \subseteq DOMAIN Found
  BY <1>4, <1>5
<1> QED BY <1>0, <1>7, <1>9, <1>10, <1>11, FindsPlainly

\* The items of a JSON payload, of a stream of them, and of rows in memory.
LEMMA FindsItems ==
    ASSUME Fit, Adapter \in {"json", "rows", "streaming_json"}
    PROVE  FindsAll
<1> DEFINE given == feed.input.elements
           N == Numbered(given)
<1>0. Adapter \notin Tabular /\ Adapter \notin Lines
  BY DEF Tabular, Lines
<1>1. /\ Len(given) \in Nat /\ DOMAIN given = 1..Len(given)
      /\ N = [i \in DOMAIN given |-> At(i, given[i])]
      /\ \A i \in DOMAIN given : N[i].n = i
  BY <1>0, NumberedElements
<1>2. DOMAIN N = DOMAIN given /\ N = [i \in DOMAIN given |-> N[i]] /\ IsSequence(N)
  <2> HIDE DEF N, given
  <2>1. DOMAIN N = DOMAIN given /\ N = [i \in DOMAIN given |-> N[i]]
    BY <1>1
  <2> QED BY <1>1, <2>1, MappedSequence
<1>3. ASSUME NEW p \in DOMAIN Found PROVE OutcomeOf(p).raises \/ HasFate(p)
  <2>1. \/ OutcomeOf(p) = ItemOutcome(Found[p]) \/ OutcomeOf(p) = StreamedOutcome(Found[p])
        \/ OutcomeOf(p) = PayloadOutcome(Found[p]) \/ OutcomeOf(p) = Raises("none")
    BY DEF OutcomeOf, Outcome, Tabular, Lines
  <2> DEFINE o == OutcomeOf(p)
  <2>2. o = Raises("none") => o.raises
    BY DEF Raises
  <2>3. o = ItemOutcome(Found[p]) => o.yields \/ o.log = "not a mapping"
    <3>1. Found[p].json = "other" => ItemOutcome(Found[p]).log = "not a mapping"
      BY DEF ItemOutcome, Skips
    <3>2. Found[p].json # "other" => ItemOutcome(Found[p]).yields
      BY DEF ItemOutcome, Yields
    <3> QED BY <3>1, <3>2
  <2>6. o = PayloadOutcome(Found[p]) => o.yields \/ o.log = "not a mapping"
    <3>1. Found[p].json = "other" => PayloadOutcome(Found[p]).log = "not a mapping"
      BY DEF PayloadOutcome, Skips
    <3>2. Found[p].json # "other" => PayloadOutcome(Found[p]).yields
      BY DEF PayloadOutcome, Yields
    <3> QED BY <3>1, <3>2
  <2>4. o = StreamedOutcome(Found[p]) => o.raises \/ o = ItemOutcome(Found[p])
    BY DEF StreamedOutcome, Raises
  <2> HIDE DEF o
  <2>5. o.raises \/ o.yields \/ o.log = "not a mapping"
    BY <2>1, <2>2, <2>3, <2>4, <2>6 DEF o
  <2> QED BY <2>5 DEF o, HasFate
<1>4. TakenRecords = IF /\ feed.input.shape = "under_items" /\ Adapter = "json"
                   /\ ~Truthy(Get(Constants, "items_path", None))
                THEN {1} ELSE DOMAIN given
  BY <1>0 DEF TakenRecords
<1> HIDE DEF N, given
<1>5. ASSUME Found = N, TakenRecords = DOMAIN given PROVE FindsAll
  <2>1. \A p \in DOMAIN Found : Found[p].n = p /\ p \in TakenRecords
    BY <1>1, <1>2, <1>5
  <2>2. TakenRecords \subseteq DOMAIN Found /\ IsSequence(Found)
    BY <1>2, <1>5
  <2> QED BY <1>0, <1>3, <2>1, <2>2, FindsPlainly
<1>6. CASE Adapter = "rows"
  <2>1. Found = N
    BY <1>6 DEF Found, Elements, Tabular, Lines, N, given
  <2> QED BY <1>4, <1>5, <1>6, <2>1
<1>7. CASE Adapter = "json"
  <2>1. Found = PayloadItems(Constants, feed.input)
    BY <1>7 DEF Found, Elements, Tabular, Lines
  <2>2. CASE feed.input.shape = "under_items" /\ ~Truthy(Get(Constants, "items_path", None))
    <3>1. TakenRecords = {1}
      BY <1>4, <1>7, <2>2
    <3> DEFINE sole == [n |-> 1, json |-> "mapping", rec |-> Dict([items |-> List(<<>>)])]
    <3>2. Found = <<sole>>
      BY <2>1, <2>2 DEF PayloadItems
    <3>3. sole.n = 1
      OBVIOUS
    <3> HIDE DEF sole
    <3>4. DOMAIN Found = {1} /\ Found[1].n = 1 /\ Len(Found) = 1 /\ DOMAIN Found = 1..Len(Found)
          /\ Found \in Seq({sole}) /\ ToSet(Found) = {sole}
      BY <3>2, <3>3 DEF ToSet
    <3>5. IsSequence(Found)
      BY <3>4 DEF IsSequence
    <3>6. TakenRecords \subseteq DOMAIN Found /\ \A p \in DOMAIN Found : Found[p].n = p /\ p \in TakenRecords
      BY <3>1, <3>4
    <3> QED BY <1>0, <1>3, <3>5, <3>6, FindsPlainly
  <2>3. CASE ~(feed.input.shape = "under_items" /\ ~Truthy(Get(Constants, "items_path", None)))
    <3>1. Found = N
      BY <2>1, <2>3 DEF PayloadItems, N, given
    <3> QED BY <1>4, <1>5, <2>3, <3>1
  <2> QED BY <2>2, <2>3
<1>8. CASE Adapter = "streaming_json"
  <2> DEFINE Prefix == IF feed.input.shape = "under_items" THEN S("items.item")
                       ELSE IF feed.input.shape = "array" THEN S("item") ELSE S("empty")
             path   == Get(Constants, "items_path", S("item"))
             Broken == {i \in DOMAIN N : N[i].json = "broken"}
  <2>1. Found = IF path = Prefix THEN N ELSE IF Broken = {} THEN <<>> ELSE <<N[Min(Broken)]>>
    BY <1>8 DEF Found, Elements, Tabular, Lines, StreamedItems, N, given
  <2>2. TakenRecords = DOMAIN given
    BY <1>4, <1>8
  <2>3. CASE path = Prefix
    BY <1>5, <2>1, <2>2, <2>3
  <2>4. CASE path # Prefix
    <3>1. LeadsNowhere
      <4> DEFINE nowhere == /\ <<feed.input.shape, path>> # <<"under_items", S("items.item")>>
                            /\ <<feed.input.shape, path>> # <<"array", S("item")>>
                            /\ <<feed.input.shape, path>> # <<"object", S("empty")>>
      <4>1. LeadsNowhere <=> nowhere
        <5> HIDE DEF path
        <5> QED BY <1>8 DEF LeadsNowhere, path
      <4>2. nowhere
        <5> HIDE DEF path
        <5> QED BY <2>4
      <4> QED BY <4>1, <4>2
    <3> HIDE DEF path, Prefix
    <3>2. CASE Broken = {}
      <4>1. Found = <<>>
        BY <2>1, <2>4, <3>2
      <4>2. DOMAIN Found = {} /\ IsSequence(Found)
        BY <4>1 DEF IsSequence
      <4> QED BY <1>0, <3>1, <4>2, FindsPlainly
    <3>3. CASE Broken # {}
      <4> DEFINE b == Min(Broken)
      <4>1. b \in Broken
        <5>1. Broken \in SUBSET (1..Len(given))
          BY <1>1, <1>2
        <5> HIDE DEF Broken
        <5> QED BY <1>1, <3>3, <5>1, MinIs
      <4>2. b \in DOMAIN given /\ N[b].n = b /\ b \in Nat \ {0}
        BY <1>1, <1>2, <4>1
      <4>3. Found = <<N[b]>>
        BY <2>1, <2>4, <3>3
      <4> HIDE DEF b, Broken
      <4>4. DOMAIN Found = {1} /\ Found[1].n = b /\ Len(Found) = 1 /\ Found \in Seq({N[b]})
            /\ ToSet(Found) = {N[b]}
        BY <4>2, <4>3 DEF ToSet
      <4>5. IsSequence(Found)
        BY <4>4 DEF IsSequence
      <4>6. \A p \in DOMAIN Found :
              /\ Found[p].n \in Nat \ {0}
              /\ HasFate(p) => Found[p].n \in TakenRecords
              /\ Found[p].n \in TakenRecords => OutcomeOf(p).raises \/ HasFate(p)
        BY <1>3, <2>2, <4>2, <4>4
      <4>7. \A p, q \in DOMAIN Found : p < q => Found[p].n <= Found[q].n
        BY <4>2, <4>4
      <4>8. ASSUME NEW n PROVE Cardinality(Occurrences(n)) <= TimesOf(n)
        <5>1. TimesOf(n) = 1
          BY <1>0 DEF TimesOf, Rereads, Tabular
        <5>2. Increasing(Found)
          BY <4>2, <4>4 DEF Increasing
        <5> QED BY <4>5, <5>1, <5>2, OnePlace
      <4> QED BY <3>1, <4>5, <4>6, <4>7, <4>8 DEF FindsAll
    <3> QED BY <3>2, <3>3
  <2> QED BY <2>3, <2>4
<1> QED BY <1>6, <1>7, <1>8

\* So every adapter finds what it should.
LEMMA Finds ==
    ASSUME Fit
    PROVE  FindsAll
<1>1. Adapter \in Tabular \cup Lines \cup {"json", "rows", "streaming_json"}
  BY DEF Fit, Classes, Streaming, Tabular, Lines
<1> QED BY <1>1, FindsTabular, FindsLines, FindsItems
-----------------------------------------------------------------------------
(* The root logger, and the input of the run.                                            *)

\* Between the installation of the log and the run the one handler is that of the build
\* under way; from then on it is the worker's.
LogInv ==
    /\ worker # 0 => root = {[of |-> worker, marked |-> TRUE]}
    /\ stage \in {"connector", "core", "publish"} => root = {[of |-> builds, marked |-> TRUE]}

\* What a step of the run leaves alone.
RunStep ==
    \/ StartArtifact \/ OpenInput \/ OpenRaises
    \/ Read \/ MapRecord \/ MappingSkips \/ MappingRaises \/ ProduceItem \/ ProducerSkips
    \/ ProjectItem \/ WriteRecord \/ WriterRaises \/ EndOfFeed

LEMMA NextFeedIs == NextFeed <=> BuildStep \/ NextBuild \/ RunStep
  BY DEF NextFeed, RunStep

\* A step of the run leaves the feed and the process alone, and goes to a stage of the run.
LEMMA RunStepIs ==
    ASSUME RunStep
    PROVE  /\ feed' = feed /\ builds' = builds /\ root' = root /\ worker' = worker
           /\ stage' = stage \/ stage' \in {"open", "reading", "failed", "ended"}
<1>1. CASE StartArtifact \/ OpenInput \/ OpenRaises \/ Read \/ EndOfFeed
  BY <1>1 DEF StartArtifact, OpenInput, OpenRaises, Read, EndOfFeed, process
<1>2. CASE MapRecord \/ MappingSkips \/ MappingRaises \/ ProduceItem \/ ProducerSkips
           \/ ProjectItem \/ WriteRecord \/ WriterRaises
  BY <1>2 DEF MapRecord, MappingSkips, MappingRaises, ProduceItem, ProducerSkips, ProjectItem,
              WriteRecord, WriterRaises, process
<1> QED BY <1>1, <1>2 DEF RunStep

\* A worker keeps its log: whatever the process builds after it, and wherever that build
\* fails, the one handler of the root logger is the worker's own, and marked.
THEOREM WorkerHasItsLog == FeedSpec => []WorkerKeepsItsLog
<1>1. InitFeed => LogInv
  BY DEF InitFeed, InitBuild, LogInv
<1>2. LogInv /\ [NextFeed]_feedVars => LogInv'
  <2> SUFFICES ASSUME LogInv, [NextFeed]_feedVars PROVE LogInv'
    OBVIOUS
  <2>1. CASE LoadInfra
    BY <2>1 DEF LoadInfra, LogInv, process
  <2>2. CASE RefuseSecondLog
    BY <2>2 DEF RefuseSecondLog, LogInv, process
  <2>3. CASE InstallLogging
    <3>1. worker = 0
      <4> SUFFICES ASSUME worker # 0 PROVE FALSE
        OBVIOUS
      <4>1. [of |-> worker, marked |-> TRUE] \in root
        BY DEF LogInv
      <4>2. \A handler \in root : ~handler.marked
        BY <2>3 DEF InstallLogging, HasLogPipeline
      <4> QED BY <4>1, <4>2
    <3>2. worker' = 0 /\ builds' = builds /\ (stage' = "connector" => ~TelemetryFails)
      BY <2>3, <3>1 DEF InstallLogging
    <3>3. stage' = "connector" => root' = {[of |-> builds, marked |-> TRUE]}
      BY <2>3, <3>2 DEF InstallLogging, Installed
    <3>4. stage' \in {"refused", "connector"}
      BY <2>3 DEF InstallLogging
    <3> QED BY <3>2, <3>3, <3>4 DEF LogInv
  <2>4. CASE BuildConnector
    BY <2>4 DEF BuildConnector, LogInv, process
  <2>5. CASE BuildCore
    BY <2>5 DEF BuildCore, LogInv, process
  <2>6. CASE PublisherRaises
    BY <2>6 DEF PublisherRaises, LogInv, process
  <2>7. CASE HandOver
    BY <2>7 DEF HandOver, LogInv
  <2>8. CASE BuildAgain
    BY <2>8 DEF BuildAgain, LogInv
  <2>9. CASE StartOver
    BY <2>9 DEF StartOver, LogInv
  <2>10. CASE RunStep
    BY <2>10, RunStepIs DEF LogInv
  <2>11. CASE UNCHANGED feedVars
    BY <2>11 DEF feedVars, process, LogInv
  <2> QED BY <2>1, <2>2, <2>3, <2>4, <2>5, <2>6, <2>7, <2>8, <2>9, <2>10, <2>11, NextFeedIs
          DEF BuildStep, Build, NextBuild
<1>3. LogInv => WorkerKeepsItsLog
  BY DEF LogInv, WorkerKeepsItsLog
<1> QED BY <1>1, <1>2, <1>3, PTL DEF FeedSpec

\* The targets of an accepted mapping file are split at their dots.
Split == IsMappingFile(Mapping)

\* The input of a run is one that its adapter can be given: the infra file is accepted
\* before the connector is built, and the connector before the run. A record is under way
\* only while the input is read.
InputInv ==
    /\ IsFeed(feed)
    /\ stage \in {"observe", "connector"} => ~InfraRefuses(Doc)
    /\ stage \in {"core", "publish", "start", "open", "reading", "failed", "ended"} => Fit /\ Split
    /\ held # Nothing => stage = "reading"

LEMMA SameFeed ==
    ASSUME feed' = feed
    PROVE  /\ Doc' = Doc /\ Adapter' = Adapter /\ Constants' = Constants /\ Mapping' = Mapping
           /\ Found' = Found /\ Fit' = Fit /\ Split' = Split /\ TakenRecords' = TakenRecords
           /\ LeadsNowhere' = LeadsNowhere /\ Rereads' = Rereads
<1>1. Doc' = Doc
  BY DEF Doc
<1>2. Format' = Format
  BY DEF Format
<1>3. Adapter' = Adapter /\ Constants' = Constants
  BY <1>2 DEF Adapter, Constants
<1>4. Mapping' = Mapping
  BY DEF Mapping
<1>5. Found' = Found /\ Fit' = Fit /\ Split' = Split
  BY <1>3, <1>4 DEF Found, Fit, Split
<1>6. TakenRecords' = TakenRecords
  BY <1>3 DEF TakenRecords
<1>7. LeadsNowhere' = LeadsNowhere /\ Rereads' = Rereads
  BY <1>3 DEF LeadsNowhere, Rereads
<1> QED BY <1>1, <1>3, <1>4, <1>5, <1>6, <1>7

LEMMA InputInvInit == InitFeed => InputInv
<1> SUFFICES ASSUME InitFeed PROVE InputInv
  OBVIOUS
<1>1. PICK family \in Feeds : feed \in family
  BY DEF InitFeed, InitBuild
<1>2. IsFeed(feed)
  BY <1>1, FeedAssumption
<1>3. stage = "load" /\ held = Nothing
  BY DEF InitFeed, InitBuild
<1> QED BY <1>2, <1>3 DEF InputInv

LEMMA InputInvNext == InputInv /\ [NextFeed]_feedVars => InputInv'
<1> SUFFICES ASSUME InputInv, [NextFeed]_feedVars PROVE InputInv'
  OBVIOUS
<1> USE DEF InputInv
<1>10. ASSUME BuildStep \/ NextBuild PROVE held' = Nothing
  <2>1. CASE BuildStep
    <3>1. held' = held /\ stage # "reading"
      BY <2>1 DEF BuildStep, run, Build, LoadInfra, RefuseSecondLog, InstallLogging, BuildConnector,
                  BuildCore, PublisherRaises, HandOver
    <3> QED BY <3>1
  <2>2. CASE NextBuild
    BY <2>2 DEF NextBuild
  <2> QED BY <1>10, <2>1, <2>2
<1>1. CASE BuildStep /\ LoadInfra
  <2>1. feed' = feed /\ stage' \in {"refused", "observe"}
    BY <1>1 DEF LoadInfra
  <2>2. stage' = "observe" => ~InfraRefuses(Doc)
    BY <1>1 DEF LoadInfra, LoadFails
  <2> QED BY <1>1, <1>10, <2>1, <2>2, SameFeed DEF Nothing
<1>2. CASE BuildStep /\ RefuseSecondLog
  BY <1>2, <1>10, SameFeed DEF RefuseSecondLog, Nothing
<1>3. CASE BuildStep /\ InstallLogging
  <2>1. feed' = feed /\ stage = "observe" /\ stage' \in {"refused", "connector"}
    BY <1>3 DEF InstallLogging
  <2> QED BY <1>3, <1>10, <2>1, SameFeed DEF Nothing
<1>4. CASE BuildStep /\ BuildConnector
  <2>1. feed' = feed /\ stage = "connector" /\ stage' \in {"refused", "core"}
    BY <1>4 DEF BuildConnector
  <2>2. ASSUME stage' = "core" PROVE Fit /\ Split
    <3>1. ~AdapterFails(feed.registry, Format)
      BY <1>4, <2>2 DEF BuildConnector, ConnectorFails
    <3>2. Adapter \in Classes
      BY <3>1 DEF AdapterFails, Adapter
    <3>3. ~InfraRefuses(Doc)
      BY <2>1
    <3>4. IsInput(Adapter, Constants, feed.input)
      BY <3>1, <3>3 DEF IsFeed, Doc, Format, Adapter, Constants
    <3>5. ~ConnectorFails(feed.registry, FormatOf(feed), MappingOf(feed))
      BY <1>4, <2>2 DEF BuildConnector, Format, Mapping
    <3>6. Split
      BY <3>3, <3>5 DEF IsFeed, Doc, Split, Mapping
    <3> QED BY <3>2, <3>4, <3>6 DEF Fit
  <2> QED BY <1>4, <1>10, <2>1, <2>2, SameFeed DEF Nothing
<1>5. CASE BuildStep /\ BuildCore
  <2>1. feed' = feed /\ stage = "core" /\ stage' \in {"refused", "publish"}
    BY <1>5 DEF BuildCore
  <2> QED BY <1>5, <1>10, <2>1, SameFeed DEF Nothing
<1>6. CASE BuildStep /\ (PublisherRaises \/ HandOver)
  <2>1. feed' = feed /\ stage = "publish" /\ stage' \in {"refused", "start"}
    BY <1>6 DEF PublisherRaises, HandOver
  <2> QED BY <1>6, <1>10, <2>1, SameFeed DEF Nothing
<1>7. CASE NextBuild
  <2>1. feed' \in Repairs /\ stage' = "load"
    BY <1>7 DEF NextBuild, BuildAgain, StartOver
  <2>2. IsFeed(feed')
    BY <2>1, FeedAssumption
  <2> QED BY <1>7, <1>10, <2>1, <2>2 DEF Nothing
<1>8. CASE RunStep
  <2>1. feed' = feed /\ (stage' = stage \/ stage' \in {"open", "reading", "failed", "ended"})
    BY <1>8, RunStepIs
  <2>2. CASE StartArtifact \/ OpenInput \/ OpenRaises \/ EndOfFeed
    <3>1. stage \in {"start", "open", "reading"} /\ held' = held
      BY <2>2 DEF StartArtifact, OpenInput, OpenRaises, EndOfFeed
    <3>2. stage = "reading" => held = Nothing
      BY <2>2 DEF StartArtifact, OpenInput, OpenRaises, EndOfFeed
    <3> HIDE DEF Nothing
    <3> QED BY <2>1, <3>1, <3>2, SameFeed DEF Nothing
  <2>3. CASE Read
    <3> DEFINE o == Outcome(Adapter, Constants, names, Head(elements), index)
    <3>1. stage = "reading" /\ Adapter \in Classes
      BY <2>3 DEF Read, Fit
    <3>2. o.yields => ~o.raises
      BY <3>1, OutcomeIs
    <3>3. /\ stage' = IF o.raises THEN "failed" ELSE stage
          /\ ~o.yields => held' = Nothing
      BY <2>3 DEF Read
    <3> HIDE DEF o
    <3>4. held' # Nothing => stage' = "reading"
      BY <3>1, <3>2, <3>3
    <3> QED BY <2>1, <3>1, <3>4, SameFeed DEF Nothing
  <2>4. CASE MapRecord \/ MappingSkips \/ ProduceItem \/ ProducerSkips \/ ProjectItem \/ WriteRecord
    <3>1. held # Nothing /\ stage' = stage
      <4>1. held.at \in {"map", "produce", "project", "write"} /\ stage' = stage
        BY <2>4 DEF MapRecord, MappingSkips, ProduceItem, ProducerSkips, ProjectItem, WriteRecord
      <4>2. Nothing.at = "none"
        BY DEF Nothing
      <4> QED BY <4>1, <4>2
    <3> QED BY <2>1, <3>1, SameFeed
  <2>5. CASE MappingRaises \/ WriterRaises
    <3>1. held # Nothing /\ held' = Nothing
      BY <2>5 DEF MappingRaises, WriterRaises, Nothing
    <3> QED BY <2>1, <3>1, SameFeed DEF Nothing
  <2> QED BY <1>8, <2>2, <2>3, <2>4, <2>5 DEF RunStep
<1>9. CASE UNCHANGED feedVars
  BY <1>9, SameFeed DEF feedVars, run, Nothing
<1> QED BY <1>1, <1>2, <1>3, <1>4, <1>5, <1>6, <1>7, <1>8, <1>9, NextFeedIs DEF BuildStep, Build

LEMMA InputIsFit == FeedSpec => []InputInv
  BY InputInvInit, InputInvNext, PTL DEF FeedSpec

-----------------------------------------------------------------------------
(* The markers of an artifact.                                                           *)

\* A chunk is the text of its row, the flags know each kind of absence written so far, and
\* where both were written the markers differ.
ChunkIsOfRow(chunk, config, saw) ==
    /\ chunk.text = RowChunk(config, chunk.record)
    /\ \A k \in DOMAIN chunk.record.e :
          chunk.record.e[k].t \in {"missing", "none"} => chunk.record.e[k].t \in saw

MarkInv ==
    /\ IsSequence(chunks)
    /\ flags \subseteq {"missing", "none"}
    /\ feed.writer = "csv" =>
          /\ ~MarkersConflict(feed.config, flags)
          /\ \A i \in Body : ChunkIsOfRow(chunks[i], feed.config, flags)

\* A sequence takes one more element of any kind.
LEMMA Appended ==
    ASSUME NEW s, IsSequence(s), NEW x
    PROVE  /\ IsSequence(Append(s, x)) /\ DOMAIN s = 1..Len(s) /\ Len(s) \in Nat
           /\ DOMAIN Append(s, x) = 1..(Len(s) + 1) /\ Append(s, x)[Len(s) + 1] = x
           /\ Len(Append(s, x)) = Len(s) + 1
           /\ \A i \in DOMAIN s : Append(s, x)[i] = s[i]
<1> DEFINE T == ToSet(s) \cup {x}
<1>1. s \in Seq(ToSet(s))
  BY DEF IsSequence
<1>2. s \in Seq(T) /\ x \in T
  BY <1>1
<1> HIDE DEF T
<1>3. /\ DOMAIN s = 1..Len(s) /\ Len(s) \in Nat
      /\ DOMAIN Append(s, x) = 1..(Len(s) + 1) /\ Append(s, x)[Len(s) + 1] = x
      /\ Len(Append(s, x)) = Len(s) + 1
      /\ \A i \in DOMAIN s : Append(s, x)[i] = s[i]
  BY <1>2
<1> DEFINE r == Append(s, x)
<1>4. r = [i \in 1..(Len(s) + 1) |-> r[i]]
  <2>1. r \in Seq(T) /\ Len(r) = Len(s) + 1
    BY <1>2
  <2> HIDE DEF r
  <2> QED BY <2>1
<1>5. IsSequence(r)
  <2>1. DOMAIN r = 1..(Len(s) + 1) /\ Len(s) + 1 \in Nat
    BY <1>3
  <2> HIDE DEF r
  <2>2. r \in [1..(Len(s) + 1) -> ToSet(r)]
    BY <1>4, <2>1 DEF ToSet
  <2>3. r \in Seq(ToSet(r))
    BY <2>1, <2>2
  <2> QED BY <2>3 DEF IsSequence
<1> QED BY <1>3, <1>5 DEF r

LEMMA EmptyIsSequence == IsSequence(<<>>)
  BY DEF IsSequence

LEMMA MarkInvInit == InitFeed => MarkInv
<1> SUFFICES ASSUME InitFeed PROVE MarkInv
  OBVIOUS
<1>1. flags = {} /\ chunks = <<>>
  BY DEF InitFeed
<1> QED BY <1>1, EmptyIsSequence DEF MarkInv, Body, MarkersConflict

\* The row that is written, and the flags after it.
LEMMA WrittenRow ==
    ASSUME MarkInv, WriteRecord, feed.writer = "csv"
    PROVE  /\ flags' = Flags(flags, held.value.e)
           /\ ~MarkersConflict(feed.config, flags')
           /\ chunks' = Append(chunks, [n |-> held.n, rec |-> held.rec, record |-> held.value,
                                        text |-> RowChunk(feed.config, held.value)])
<1>1. flags' = Flags(flags, held.value.e)
  BY DEF WriteRecord, FlagsAfter
<1>2. ~RowFails(feed.config, flags, held.value)
  BY DEF WriteRecord, WriteFails
<1>3. ~MarkersConflict(feed.config, Flags(flags, held.value.e))
  BY <1>2 DEF RowFails
<1> QED BY <1>1, <1>3 DEF WriteRecord, ChunkOf

LEMMA MarkInvNext == MarkInv /\ [NextFeed]_feedVars => MarkInv'
<1> SUFFICES ASSUME MarkInv, [NextFeed]_feedVars PROVE MarkInv'
  OBVIOUS
<1>1. ASSUME UNCHANGED <<flags, chunks, feed>> PROVE MarkInv'
  BY <1>1 DEF MarkInv, Body
<1>2. CASE BuildStep
  <2>1. feed' = feed
    BY <1>2 DEF BuildStep, Build, LoadInfra, RefuseSecondLog, InstallLogging, BuildConnector,
                BuildCore, PublisherRaises, HandOver
  <2> QED BY <1>1, <1>2, <2>1 DEF BuildStep, run
<1>3. CASE NextBuild
  <2>1. flags' = {} /\ chunks' = <<>>
    BY <1>3 DEF NextBuild
  <2> QED BY <2>1, EmptyIsSequence DEF MarkInv, Body, MarkersConflict
<1>4. CASE StartArtifact
  <2>1. flags' = flags /\ feed' = feed
    BY <1>4 DEF StartArtifact
  <2>2. \/ chunks' = chunks \/ chunks' = <<>>
        \/ chunks' = <<[n |-> 0, text |-> Columns(feed.config).e]>>
    BY <1>4 DEF StartArtifact
  <2>3. CASE chunks' = chunks
    BY <1>1, <2>1, <2>3
  <2>4. CASE chunks' = <<>>
    BY <2>1, <2>4, EmptyIsSequence DEF MarkInv, Body
  <2>5. CASE chunks' = <<[n |-> 0, text |-> Columns(feed.config).e]>>
    <3> DEFINE header == [n |-> 0, text |-> Columns(feed.config).e]
    <3>1. header.n = 0
      OBVIOUS
    <3> HIDE DEF header
    <3>2. chunks' = Append(<<>>, header)
      BY <2>5 DEF header
    <3>3. IsSequence(chunks') /\ DOMAIN chunks' = {1} /\ chunks'[1] = header
      <4>1. Len(<<>>) = 0 /\ 1..(0 + 1) = {1} /\ 0 + 1 = 1
        OBVIOUS
      <4>2. /\ IsSequence(Append(<<>>, header)) /\ DOMAIN Append(<<>>, header) = 1..(Len(<<>>) + 1)
            /\ Append(<<>>, header)[Len(<<>>) + 1] = header
        BY EmptyIsSequence, Appended
      <4> QED BY <3>2, <4>1, <4>2
    <3>4. Body' = {}
      BY <3>1, <3>3 DEF Body
    <3> QED BY <2>1, <3>3, <3>4 DEF MarkInv
  <2> QED BY <2>2, <2>3, <2>4, <2>5
<1>5. CASE WriteRecord
  <2> DEFINE chunk == [n |-> held.n, rec |-> held.rec, record |-> held.value,
                       text |-> ChunkOf(feed.writer, feed.config, held.value)]
  <2>1. feed' = feed /\ chunks' = Append(chunks, chunk) /\ IsSequence(chunks)
    BY <1>5 DEF WriteRecord, MarkInv
  <2>2. /\ chunk.record = held.value
        /\ chunk.text = ChunkOf(feed.writer, feed.config, held.value)
    OBVIOUS
  <2> HIDE DEF chunk
  <2>3. /\ IsSequence(chunks') /\ DOMAIN chunks = 1..Len(chunks) /\ Len(chunks) \in Nat
        /\ DOMAIN chunks' = 1..(Len(chunks) + 1) /\ chunks'[Len(chunks) + 1] = chunk
        /\ \A i \in DOMAIN chunks : chunks'[i] = chunks[i]
    BY <2>1, Appended
  <2>4. flags' \subseteq {"missing", "none"} /\ flags \subseteq flags'
    BY <1>5 DEF WriteRecord, FlagsAfter, Flags, MarkInv
  <2>5. ASSUME feed.writer = "csv"
        PROVE  /\ ~MarkersConflict(feed.config, flags')
               /\ \A i \in Body' : ChunkIsOfRow(chunks'[i], feed.config, flags')
    <3>1. flags' = Flags(flags, held.value.e) /\ ~MarkersConflict(feed.config, flags')
      BY <1>5, <2>5, WrittenRow
    <3>2. ChunkIsOfRow(chunk, feed.config, flags')
      BY <2>2, <2>5, <3>1 DEF ChunkIsOfRow, ChunkOf, Flags
    <3>3. ASSUME NEW i \in Body PROVE ChunkIsOfRow(chunks[i], feed.config, flags')
      BY <2>4, <2>5 DEF MarkInv, ChunkIsOfRow
    <3>4. ASSUME NEW i \in Body' PROVE ChunkIsOfRow(chunks'[i], feed.config, flags')
      <4>1. i \in 1..(Len(chunks) + 1) /\ chunks'[i].n # 0
        BY <2>3 DEF Body
      <4>2. CASE i = Len(chunks) + 1
        BY <2>3, <3>2, <4>2
      <4>3. CASE i # Len(chunks) + 1
        <5>1. i \in DOMAIN chunks
          BY <2>3, <4>1, <4>3
        <5>2. i \in Body /\ chunks'[i] = chunks[i]
          BY <2>3, <4>1, <5>1 DEF Body
        <5> QED BY <3>3, <5>2
      <4> QED BY <4>2, <4>3
    <3> QED BY <3>1, <3>4
  <2> QED BY <2>1, <2>3, <2>4, <2>5 DEF MarkInv
<1>6. CASE OpenInput \/ OpenRaises \/ Read \/ EndOfFeed
  BY <1>1, <1>6 DEF OpenInput, OpenRaises, Read, EndOfFeed
<1>7. CASE MapRecord \/ MappingSkips \/ MappingRaises \/ ProduceItem \/ ProducerSkips
           \/ ProjectItem \/ WriterRaises
  BY <1>1, <1>7 DEF MapRecord, MappingSkips, MappingRaises, ProduceItem, ProducerSkips,
                    ProjectItem, WriterRaises
<1>8. CASE UNCHANGED feedVars
  BY <1>1, <1>8 DEF feedVars, run
<1> QED BY <1>2, <1>3, <1>4, <1>5, <1>6, <1>7, <1>8 DEF NextFeed

\* Whoever reads the artifact can tell a missing value from a null: the two never share a
\* marker within an artifact, not even in different rows.
THEOREM MarkersStayApart == FeedSpec => []MarkersAreDistinguishable
<1>1. ASSUME MarkInv, feed.writer = "csv", NEW i \in Body, NEW v \in {Missing, None},
             NEW k \in DOMAIN chunks[i].record.e, chunks[i].record.e[k] = v
      PROVE  /\ v.t \in flags
             /\ chunks[i].text[k] = IF v = Missing THEN MissingMarker(feed.config)
                                    ELSE NullMarker(feed.config)
  <2>1. v.t \in {"missing", "none"} /\ (v = Missing <=> v.t = "missing")
    BY DEF Missing, None
  <2>2. ChunkIsOfRow(chunks[i], feed.config, flags)
    BY <1>1 DEF MarkInv
  <2>3. v.t \in flags
    BY <1>1, <2>1, <2>2 DEF ChunkIsOfRow
  <2>4. chunks[i].text[k] = Serialized(feed.config, v)
    BY <1>1, <2>2 DEF ChunkIsOfRow, RowChunk
  <2>5. Serialized(feed.config, v) = IF v.t = "missing" THEN MissingMarker(feed.config)
                                     ELSE NullMarker(feed.config)
    BY <2>1 DEF Serialized
  <2> QED BY <2>1, <2>3, <2>4, <2>5
<1>2. MarkInv => MarkersAreDistinguishable
  <2> DEFINE Cells(i, v) == {k \in DOMAIN chunks[i].record.e : chunks[i].record.e[k] = v}
             Texts(v)    == UNION {{chunks[i].text[k] : k \in Cells(i, v)} : i \in Body}
  <2> SUFFICES ASSUME MarkInv, feed.writer = "csv", NEW x \in Texts(Missing), x \in Texts(None)
               PROVE  FALSE
    BY DEF MarkersAreDistinguishable
  <2>1. PICK i \in Body : x \in {chunks[i].text[k] : k \in Cells(i, Missing)}
    OBVIOUS
  <2>2. PICK j \in Body : x \in {chunks[j].text[k] : k \in Cells(j, None)}
    OBVIOUS
  <2>3. PICK k \in DOMAIN chunks[i].record.e : /\ chunks[i].record.e[k] = Missing
                                               /\ chunks[i].text[k] = x
    BY <2>1
  <2>4. PICK l \in DOMAIN chunks[j].record.e : /\ chunks[j].record.e[l] = None
                                               /\ chunks[j].text[l] = x
    BY <2>2
  <2>5. Missing # None /\ Missing.t = "missing" /\ None.t = "none"
    BY DEF Missing, None
  <2>6. "missing" \in flags /\ x = MissingMarker(feed.config)
    <3>1. /\ Missing.t \in flags
          /\ chunks[i].text[k] = IF Missing = Missing THEN MissingMarker(feed.config)
                                 ELSE NullMarker(feed.config)
      BY <1>1, <2>3
    <3> QED BY <2>3, <2>5, <3>1
  <2>7. "none" \in flags /\ x = NullMarker(feed.config)
    <3>1. /\ None.t \in flags
          /\ chunks[j].text[l] = IF None = Missing THEN MissingMarker(feed.config)
                                 ELSE NullMarker(feed.config)
      BY <1>1, <2>4
    <3> QED BY <2>4, <2>5, <3>1
  <2>8. flags = {"missing", "none"}
    BY <2>6, <2>7 DEF MarkInv
  <2> QED BY <2>6, <2>7, <2>8 DEF MarkInv, MarkersConflict
<1> QED BY <1>2, MarkInvInit, MarkInvNext, PTL DEF FeedSpec

-----------------------------------------------------------------------------
(* Every record once.                                                                    *)

ChunkSet(s, n) == {i \in DOMAIN s : s[i].n = n}
WarnSet(s, n)  == {i \in DOMAIN s : s[i].n = n /\ s[i].why # "mismatch"}
FateSet(d, n)  == {p \in 1..d : HasFate(p) /\ Found[p].n = n}

\* The elements that are done: those read, but for the one under way.
Done == IF held = Nothing THEN index ELSE index - 1

HeldIs ==
    /\ held = [at |-> held.at, n |-> held.n, rec |-> held.rec, value |-> held.value]
    /\ index > 0 /\ held.n = Found[index].n /\ HasFate(index)

\* What is read and what is not yet; a run that goes on has met nothing that raises.
ReadInv ==
    /\ index \in Nat
    /\ stage \notin {"reading", "failed", "ended"} => index = 0
    /\ stage \in {"reading", "failed", "ended"} => index <= Len(Found)
    /\ stage = "reading" => elements = SubSeq(Found, index + 1, Len(Found))
    /\ stage = "ended" => index = Len(Found)
    /\ stage \in {"reading", "ended"} => \A p \in 1..index : ~OutcomeOf(p).raises
    /\ held # Nothing => HeldIs

\* The chunks are those of elements that are done, in their order.
OrderInv ==
    /\ IsSequence(chunks) /\ IsSequence(log)
    /\ \A i, j \in DOMAIN chunks : i < j => chunks[i].n <= chunks[j].n
    /\ \A i \in DOMAIN chunks :
          chunks[i].n = 0 \/ \E p \in 1..Done : HasFate(p) /\ chunks[i].n = Found[p].n

\* The elements of a number that are done and have a fate are counted by its chunks and
\* warnings; the one that fails the run may have neither.
CountInv ==
    \A n \in Nat \ {0} :
        LET fates == Cardinality(ChunkSet(chunks, n)) + Cardinality(WarnSet(log, n))
        IN  /\ fates <= Cardinality(FateSet(Done, n))
            /\ stage # "failed" => fates = Cardinality(FateSet(Done, n))

RunInv == InputInv /\ ReadInv /\ OrderInv /\ CountInv

\* A set of indices counts one more with the next index.
LEMMA OneMore ==
    ASSUME NEW m \in Nat, NEW s \in SUBSET (1..m)
    PROVE  /\ Cardinality(s) \in Nat
           /\ Cardinality(s \cup {m + 1}) = Cardinality(s) + 1
<1>1. IsFiniteSet(1..m)
  BY FS_Interval
<1>2. IsFiniteSet(s)
  BY <1>1, FS_Subset
<1>3. m + 1 \notin s
  OBVIOUS
<1> QED BY <1>2, <1>3, FS_CardinalityType, FS_AddElement

LEMMA ChunkAdded ==
    ASSUME NEW s, IsSequence(s), NEW x, NEW n
    PROVE  /\ Cardinality(ChunkSet(s, n)) \in Nat
           /\ Cardinality(ChunkSet(Append(s, x), n)) =
                  IF x.n = n THEN Cardinality(ChunkSet(s, n)) + 1 ELSE Cardinality(ChunkSet(s, n))
<1>1. /\ DOMAIN s = 1..Len(s) /\ Len(s) \in Nat
      /\ DOMAIN Append(s, x) = 1..(Len(s) + 1) /\ Append(s, x)[Len(s) + 1] = x
      /\ \A i \in DOMAIN s : Append(s, x)[i] = s[i]
  BY Appended
<1>2. ChunkSet(s, n) \in SUBSET (1..Len(s))
  BY <1>1 DEF ChunkSet
<1>3. ChunkSet(Append(s, x), n) = IF x.n = n THEN ChunkSet(s, n) \cup {Len(s) + 1} ELSE ChunkSet(s, n)
  <2>1. \A i \in 1..(Len(s) + 1) : i \in 1..Len(s) \/ i = Len(s) + 1
    BY <1>1
  <2>2. \A i \in 1..Len(s) : i \in 1..(Len(s) + 1) /\ i # Len(s) + 1
    BY <1>1
  <2>3. Len(s) + 1 \in 1..(Len(s) + 1)
    BY <1>1
  <2> QED BY <1>1, <2>1, <2>2, <2>3 DEF ChunkSet
<1> QED BY <1>1, <1>2, <1>3, OneMore

LEMMA WarningAdded ==
    ASSUME NEW s, IsSequence(s), NEW x, NEW n
    PROVE  /\ Cardinality(WarnSet(s, n)) \in Nat
           /\ Cardinality(WarnSet(Append(s, x), n)) =
                  IF x.n = n /\ x.why # "mismatch"
                  THEN Cardinality(WarnSet(s, n)) + 1 ELSE Cardinality(WarnSet(s, n))
<1>1. /\ DOMAIN s = 1..Len(s) /\ Len(s) \in Nat
      /\ DOMAIN Append(s, x) = 1..(Len(s) + 1) /\ Append(s, x)[Len(s) + 1] = x
      /\ \A i \in DOMAIN s : Append(s, x)[i] = s[i]
  BY Appended
<1>2. WarnSet(s, n) \in SUBSET (1..Len(s))
  BY <1>1 DEF WarnSet
<1>3. WarnSet(Append(s, x), n) = IF x.n = n /\ x.why # "mismatch"
                                THEN WarnSet(s, n) \cup {Len(s) + 1} ELSE WarnSet(s, n)
  <2>1. \A i \in 1..(Len(s) + 1) : i \in 1..Len(s) \/ i = Len(s) + 1
    BY <1>1
  <2>2. \A i \in 1..Len(s) : i \in 1..(Len(s) + 1) /\ i # Len(s) + 1
    BY <1>1
  <2>3. Len(s) + 1 \in 1..(Len(s) + 1)
    BY <1>1
  <2> QED BY <1>1, <2>1, <2>2, <2>3 DEF WarnSet
<1> QED BY <1>1, <1>2, <1>3, OneMore

LEMMA FateAdded ==
    ASSUME NEW d \in Nat, NEW n
    PROVE  /\ Cardinality(FateSet(d, n)) \in Nat
           /\ Cardinality(FateSet(d + 1, n)) =
                  IF HasFate(d + 1) /\ Found[d + 1].n = n
                  THEN Cardinality(FateSet(d, n)) + 1 ELSE Cardinality(FateSet(d, n))
<1>1. FateSet(d, n) \in SUBSET (1..d)
  BY DEF FateSet
<1>2. FateSet(d + 1, n) = IF HasFate(d + 1) /\ Found[d + 1].n = n
                          THEN FateSet(d, n) \cup {d + 1} ELSE FateSet(d, n)
  <2>1. \A i \in 1..(d + 1) : i \in 1..d \/ i = d + 1
    OBVIOUS
  <2>2. \A i \in 1..d : i \in 1..(d + 1) /\ i # d + 1
    OBVIOUS
  <2>3. d + 1 \in 1..(d + 1)
    OBVIOUS
  <2> QED BY <2>1, <2>2, <2>3 DEF FateSet
<1> QED BY <1>1, <1>2, OneMore

\* What is found and what becomes of it depends on the feed and its columns only.
LEMMA SameOutcomes ==
    ASSUME feed' = feed, names' = names
    PROVE  /\ Found' = Found
           /\ \A p : OutcomeOf(p)' = OutcomeOf(p)
           /\ \A p : HasFate(p)' <=> HasFate(p)
           /\ \A d, n : FateSet(d, n)' = FateSet(d, n)
<1>1. Found' = Found /\ Adapter' = Adapter /\ Constants' = Constants
  BY SameFeed
<1>2. \A p : OutcomeOf(p)' = OutcomeOf(p)
  BY <1>1 DEF OutcomeOf
<1>3. \A p : HasFate(p)' <=> HasFate(p)
  BY <1>2 DEF HasFate
<1>4. \A d, n : FateSet(d, n)' = FateSet(d, n)
  BY <1>1, <1>3 DEF FateSet
<1> QED BY <1>1, <1>2, <1>3, <1>4

LEMMA NoFates ==
    ASSUME NEW n
    PROVE  FateSet(0, n) = {} /\ Cardinality({}) = 0 /\ ChunkSet(<<>>, n) = {} /\ WarnSet(<<>>, n) = {}
<1>1. 1..0 = {} /\ DOMAIN <<>> = {}
  OBVIOUS
<1> QED BY <1>1, FS_EmptySet DEF FateSet, ChunkSet, WarnSet

LEMMA RunInvInit == InitFeed => RunInv
<1> SUFFICES ASSUME InitFeed PROVE RunInv
  OBVIOUS
<1>1. /\ stage = "load" /\ index = 0 /\ held = Nothing /\ log = <<>> /\ chunks = <<>>
  BY DEF InitFeed, InitBuild
<1>2. ReadInv
  BY <1>1 DEF ReadInv
<1>3. OrderInv
  <2>1. DOMAIN chunks = {}
    BY <1>1
  <2> QED BY <1>1, <2>1, EmptyIsSequence DEF OrderInv
<1>4. CountInv
  <2>1. Done = 0
    BY <1>1 DEF Done
  <2>2. ASSUME NEW n \in Nat \ {0}
        PROVE  /\ Cardinality(ChunkSet(chunks, n)) = 0 /\ Cardinality(WarnSet(log, n)) = 0
               /\ Cardinality(FateSet(Done, n)) = 0
    BY <1>1, <2>1, NoFates
  <2> QED BY <2>2 DEF CountInv
<1> QED BY <1>2, <1>3, <1>4, InputInvInit DEF RunInv

\* Before the input is opened nothing has been read, and no chunk but a header is there.
LEMMA BeforeReading ==
    ASSUME RunInv, stage \notin {"reading", "failed", "ended"}
    PROVE  /\ index = 0 /\ held = Nothing /\ Done = 0
           /\ \A i \in DOMAIN chunks : chunks[i].n = 0
           /\ \A n \in Nat \ {0} : Cardinality(WarnSet(log, n)) = 0
<1>1. index = 0 /\ held = Nothing /\ Done = 0
  <2>1. index = 0
    BY DEF RunInv, ReadInv
  <2>2. held = Nothing
    BY DEF RunInv, InputInv
  <2> QED BY <2>1, <2>2 DEF Done
<1>2. \A i \in DOMAIN chunks : chunks[i].n = 0
  <2>1. 1..0 = {}
    OBVIOUS
  <2> QED BY <1>1, <2>1 DEF RunInv, OrderInv
<1>3. ASSUME NEW n \in Nat \ {0} PROVE Cardinality(WarnSet(log, n)) = 0
  <2>1. Cardinality(ChunkSet(chunks, n)) + Cardinality(WarnSet(log, n)) <= Cardinality(FateSet(0, n))
    BY <1>1 DEF RunInv, CountInv
  <2>2. Cardinality(FateSet(0, n)) = 0
    BY NoFates
  <2>3. Cardinality(ChunkSet(chunks, n)) \in Nat /\ Cardinality(WarnSet(log, n)) \in Nat
    BY ChunkAdded, WarningAdded DEF RunInv, OrderInv
  <2> QED BY <2>1, <2>2, <2>3
<1> QED BY <1>1, <1>2, <1>3

\* With no element read and no chunk but a header, orders and counts are those of nothing.
LEMMA NothingDone ==
    ASSUME Done' = 0, IsSequence(chunks'), IsSequence(log'),
           \A i \in DOMAIN chunks' : chunks'[i].n = 0,
           \A n \in Nat \ {0} : Cardinality(WarnSet(log', n)) = 0
    PROVE  OrderInv' /\ CountInv'
<1>1. OrderInv'
  BY DEF OrderInv
<1>2. ASSUME NEW n \in Nat \ {0}
      PROVE  /\ Cardinality(ChunkSet(chunks', n)) = 0 /\ Cardinality(FateSet(0, n)') = 0
  <2>1. ChunkSet(chunks', n) = {}
    BY DEF ChunkSet
  <2>2. FateSet(0, n)' = {}
    <3>1. 1..0 = {}
      OBVIOUS
    <3> QED BY <3>1 DEF FateSet
  <2> QED BY <2>1, <2>2, NoFates
<1>3. CountInv'
  <2> SUFFICES ASSUME NEW n \in Nat \ {0}
               PROVE  LET fates == Cardinality(ChunkSet(chunks', n)) + Cardinality(WarnSet(log', n))
                      IN  /\ fates <= Cardinality(FateSet(Done, n)')
                          /\ stage' # "failed" => fates = Cardinality(FateSet(Done, n)')
    BY DEF CountInv
  <2>1. FateSet(Done, n)' = FateSet(0, n)'
    BY DEF FateSet
  <2> QED BY <1>2, <2>1
<1> QED BY <1>1, <1>3

\* Where nothing but the stage changes, and no run begins or goes on to fail.
LEMMA RunUnchanged ==
    ASSUME RunInv, UNCHANGED <<feed, run>>, stage' = stage
    PROVE  ReadInv' /\ OrderInv' /\ CountInv'
<1>1. /\ feed' = feed /\ names' = names /\ elements' = elements /\ index' = index /\ held' = held
      /\ log' = log /\ chunks' = chunks
  BY DEF run
<1>2. Found' = Found /\ (\A p : OutcomeOf(p)' = OutcomeOf(p)) /\ (\A p : HasFate(p)' <=> HasFate(p))
  BY <1>1, SameOutcomes
<1>3. Done' = Done
  BY <1>1 DEF Done, Nothing
<1>4. HeldIs => HeldIs'
  BY <1>1, <1>2 DEF HeldIs
<1>5. ReadInv'
  BY <1>1, <1>2, <1>4 DEF RunInv, ReadInv, Nothing
<1>6. OrderInv'
  BY <1>1, <1>2, <1>3 DEF RunInv, OrderInv
<1>7. CountInv'
  <2>1. \A d, n : FateSet(d, n)' = FateSet(d, n)
    BY <1>1, SameOutcomes
  <2> QED BY <1>1, <1>3, <2>1 DEF RunInv, CountInv, ChunkSet, WarnSet
<1> QED BY <1>5, <1>6, <1>7

\* The steps before the input is read.
LEMMA EarlySteps ==
    ASSUME RunInv, BuildStep \/ NextBuild \/ StartArtifact \/ OpenInput \/ OpenRaises
    PROVE  ReadInv' /\ OrderInv' /\ CountInv'
<1>1. CASE NextBuild
  <2>1. /\ index' = 0 /\ held' = Nothing /\ log' = <<>> /\ chunks' = <<>> /\ stage' = "load"
    BY <1>1 DEF NextBuild, BuildAgain, StartOver
  <2>2. Done' = 0
    BY <2>1 DEF Done, Nothing
  <2>3. ReadInv'
    BY <2>1 DEF ReadInv, Nothing
  <2>4. OrderInv' /\ CountInv'
    <3>1. DOMAIN chunks' = {}
      BY <2>1
    <3> QED BY <2>1, <2>2, <3>1, EmptyIsSequence, NoFates, NothingDone
  <2> QED BY <2>3, <2>4
<1>2. CASE BuildStep
  <2>1. /\ feed' = feed /\ stage \notin {"reading", "failed", "ended"}
        /\ stage' \notin {"reading", "failed", "ended"} /\ UNCHANGED run
    BY <1>2 DEF BuildStep, Build, LoadInfra, RefuseSecondLog, InstallLogging, BuildConnector,
                BuildCore, PublisherRaises, HandOver
  <2>2. /\ index' = index /\ held' = held /\ log' = log /\ chunks' = chunks
    BY <2>1 DEF run
  <2>3. index = 0 /\ held = Nothing /\ Done = 0
    BY <2>1, BeforeReading
  <2>4. ReadInv'
    BY <2>1, <2>2, <2>3 DEF ReadInv, Nothing
  <2>5. Done' = 0
    BY <2>2, <2>3 DEF Done, Nothing
  <2>6. OrderInv' /\ CountInv'
    BY <2>1, <2>2, <2>5, BeforeReading, NothingDone DEF RunInv, OrderInv
  <2> QED BY <2>4, <2>6
<1>3. CASE StartArtifact
  <2>1. /\ index' = index /\ held' = held /\ log' = log /\ stage = "start"
        /\ stage' \in {"open", "failed"}
    BY <1>3 DEF StartArtifact
  <2>2. index = 0 /\ held = Nothing /\ Done = 0
    BY <2>1, BeforeReading
  <2>3. Done' = 0
    BY <2>1, <2>2 DEF Done, Nothing
  <2>4. IsSequence(chunks') /\ \A i \in DOMAIN chunks' : chunks'[i].n = 0
    <3>1. \/ chunks' = chunks \/ chunks' = <<>>
          \/ chunks' = <<[n |-> 0, text |-> Columns(feed.config).e]>>
      BY <1>3 DEF StartArtifact
    <3>2. CASE chunks' = chunks
      BY <2>1, <3>2, BeforeReading DEF RunInv, OrderInv
    <3>3. CASE chunks' = <<>>
      BY <3>3, EmptyIsSequence
    <3>4. CASE chunks' = <<[n |-> 0, text |-> Columns(feed.config).e]>>
      <4> DEFINE header == [n |-> 0, text |-> Columns(feed.config).e]
      <4>1. header.n = 0
        OBVIOUS
      <4> HIDE DEF header
      <4>2. Len(<<>>) = 0 /\ 1..(0 + 1) = {1} /\ 0 + 1 = 1 /\ chunks' = Append(<<>>, header)
        BY <3>4 DEF header
      <4>3. /\ IsSequence(Append(<<>>, header)) /\ DOMAIN Append(<<>>, header) = 1..(Len(<<>>) + 1)
            /\ Append(<<>>, header)[Len(<<>>) + 1] = header
        BY EmptyIsSequence, Appended
      <4> QED BY <4>1, <4>2, <4>3
    <3> QED BY <3>1, <3>2, <3>3, <3>4
  <2>5. ReadInv'
    <3>1. Fit /\ feed' = feed
      BY <1>3, <2>1 DEF StartArtifact, RunInv, InputInv
    <3>2. Len(Found') \in Nat
      BY <3>1, SameFeed, Finds DEF FindsAll, IsSequence
    <3> QED BY <2>1, <2>2, <3>2 DEF ReadInv, Nothing
  <2>6. OrderInv' /\ CountInv'
    BY <2>1, <2>3, <2>4, BeforeReading, NothingDone DEF RunInv, OrderInv
  <2> QED BY <2>5, <2>6
<1>4. CASE OpenInput \/ OpenRaises
  <2>1. /\ index' = index /\ held' = held /\ log' = log /\ chunks' = chunks /\ stage = "open"
        /\ stage' \in {"reading", "failed"} /\ feed' = feed
    BY <1>4 DEF OpenInput, OpenRaises
  <2>2. stage' = "reading" => elements' = Found
    BY <1>4 DEF OpenInput, OpenRaises, Found
  <2>3. index = 0 /\ held = Nothing /\ Done = 0
    BY <2>1, BeforeReading
  <2>4. Done' = 0
    BY <2>1, <2>3 DEF Done, Nothing
  <2>5. Fit
    BY <2>1 DEF RunInv, InputInv
  <2>6. Found' = Found /\ Found \in Seq(ToSet(Found)) /\ Len(Found) \in Nat
    BY <2>1, <2>5, SameFeed, Finds DEF FindsAll, IsSequence
  <2>7. SubSeq(Found, 0 + 1, Len(Found)) = Found
    <3>1. 0 + 1 = 1
      OBVIOUS
    <3> QED BY <2>6, <3>1, SubSeqFull
  <2>8. ReadInv'
    <3>1. 1..0 = {}
      OBVIOUS
    <3> QED BY <2>1, <2>2, <2>3, <2>6, <2>7, <3>1 DEF ReadInv, Nothing
  <2>9. OrderInv' /\ CountInv'
    BY <2>1, <2>4, BeforeReading, NothingDone DEF RunInv, OrderInv
  <2> QED BY <2>8, <2>9
<1> QED BY <1>1, <1>2, <1>3, <1>4

\* What the log counts after a line about the element n.
LEMMA LoggedIs ==
    ASSUME IsSequence(log), NEW n, NEW why, NEW m
    PROVE  /\ IsSequence(Logged(n, why))
           /\ Cardinality(WarnSet(log, m)) \in Nat
           /\ Cardinality(WarnSet(Logged(n, why), m)) =
                  IF n = m /\ why \notin {"none", "mismatch"}
                  THEN Cardinality(WarnSet(log, m)) + 1 ELSE Cardinality(WarnSet(log, m))
<1> DEFINE line == [n |-> n, why |-> why]
<1>1. line.n = n /\ line.why = why
  OBVIOUS
<1>2. Logged(n, why) = IF why = "none" THEN log ELSE Append(log, line)
  BY DEF Logged
<1> HIDE DEF line
<1> QED BY <1>1, <1>2, WarningAdded, Appended

\* Where the element under way is in what is found.
LEMMA UnderWay ==
    ASSUME RunInv, stage \in {"reading", "failed", "ended"}
    PROVE  /\ FindsAll /\ Adapter \in Classes
           /\ Found \in Seq(ToSet(Found)) /\ Len(Found) \in Nat /\ DOMAIN Found = 1..Len(Found)
           /\ index \in 0..Len(Found)
           /\ held # Nothing => /\ stage = "reading" /\ HeldIs /\ index \in DOMAIN Found
                                /\ Done = index - 1 /\ Done \in Nat /\ Done + 1 = index
                                /\ held.n \in Nat \ {0}
           /\ held = Nothing => Done = index
           /\ Done \in Nat
<1>1. Fit
  BY DEF RunInv, InputInv
<1>2. FindsAll /\ Adapter \in Classes
  BY <1>1, Finds DEF Fit
<1>3. Found \in Seq(ToSet(Found)) /\ Len(Found) \in Nat /\ DOMAIN Found = 1..Len(Found)
  BY <1>2 DEF FindsAll, IsSequence
<1>4. index \in 0..Len(Found)
  <2>1. index \in Nat /\ index <= Len(Found)
    BY DEF RunInv, ReadInv
  <2> QED BY <1>3, <2>1
<1>5. ASSUME held # Nothing
      PROVE  /\ stage = "reading" /\ HeldIs /\ index \in DOMAIN Found
             /\ Done = index - 1 /\ Done \in Nat /\ Done + 1 = index
             /\ held.n \in Nat \ {0}
  <2>1. stage = "reading" /\ HeldIs
    BY <1>5 DEF RunInv, InputInv, ReadInv
  <2>2. index \in DOMAIN Found
    BY <1>3, <1>4, <2>1 DEF HeldIs
  <2>3. Done = index - 1 /\ Done \in Nat /\ Done + 1 = index
    BY <1>4, <1>5, <2>1 DEF Done, HeldIs
  <2>4. held.n \in Nat \ {0}
    BY <1>2, <2>1, <2>2 DEF HeldIs, FindsAll
  <2> QED BY <2>1, <2>2, <2>3, <2>4
<1>6. held = Nothing => Done = index
  BY DEF Done
<1> QED BY <1>2, <1>3, <1>4, <1>5, <1>6

\* A step that takes the record under way on.
LEMMA TakenOn ==
    ASSUME RunInv, MapRecord \/ ProduceItem \/ ProjectItem
    PROVE  ReadInv' /\ OrderInv' /\ CountInv'
<1>1. /\ UNCHANGED <<feed, stage, names, elements, index, flags, log, chunks>>
      /\ \E at \in {"produce", "project", "write"} : \E v :
            held' = [held EXCEPT !.at = at, !.value = v]
      /\ held.at \in {"map", "produce", "project"}
  <2>1. CASE MapRecord
    BY <2>1 DEF MapRecord
  <2>2. CASE ProduceItem
    BY <2>2 DEF ProduceItem
  <2>3. CASE ProjectItem
    BY <2>3 DEF ProjectItem
  <2> QED BY <2>1, <2>2, <2>3
<1>2. held # Nothing
  <2>1. Nothing.at = "none"
    BY DEF Nothing
  <2> QED BY <1>1, <2>1
<1>3. HeldIs /\ stage = "reading"
  BY <1>2 DEF RunInv, InputInv, ReadInv
<1>4. /\ held' = [at |-> held'.at, n |-> held'.n, rec |-> held'.rec, value |-> held'.value]
      /\ held'.n = held.n /\ held'.at # "none"
  <2>1. PICK at \in {"produce", "project", "write"} :
            \E v : held' = [held EXCEPT !.at = at, !.value = v]
    BY <1>1
  <2>4. PICK v : held' = [held EXCEPT !.at = at, !.value = v]
    BY <2>1
  <2>2. held = [at |-> held.at, n |-> held.n, rec |-> held.rec, value |-> held.value]
    BY <1>3 DEF HeldIs
  <2>3. held' = [at |-> at, n |-> held.n, rec |-> held.rec, value |-> v]
    BY <2>2, <2>4
  <2> QED BY <2>3
<1>5. held' # Nothing
  <2>1. Nothing.at = "none"
    BY DEF Nothing
  <2> QED BY <1>4, <2>1
<1>6. /\ Found' = Found /\ \A p : OutcomeOf(p)' = OutcomeOf(p)
      /\ \A p : HasFate(p)' <=> HasFate(p)
      /\ \A d, n : FateSet(d, n)' = FateSet(d, n)
  BY <1>1, SameOutcomes
<1>7. HeldIs'
  BY <1>1, <1>3, <1>4, <1>6 DEF HeldIs
<1>8. Done' = Done
  BY <1>1, <1>2, <1>5 DEF Done, Nothing
<1>9. ReadInv'
  BY <1>1, <1>6, <1>7 DEF RunInv, ReadInv
<1>10. OrderInv'
  BY <1>1, <1>6, <1>8 DEF RunInv, OrderInv
<1>11. CountInv'
  BY <1>1, <1>6, <1>8 DEF RunInv, CountInv, ChunkSet, WarnSet
<1> QED BY <1>9, <1>10, <1>11

\* An element that is done with a warning or without one: no chunk is added.
LEMMA DoneWithout ==
    ASSUME RunInv, stage = "reading",
           feed' = feed, names' = names, chunks' = chunks,
           NEW n, NEW why, log' = Logged(n, why),
           Done' = Done + 1, n = Found[Done + 1].n,
           why # "mismatch",
           IF stage' = "failed" THEN why # "none" => HasFate(Done + 1)
                                ELSE why # "none" <=> HasFate(Done + 1)
    PROVE  OrderInv' /\ CountInv'
<1>1. Done \in Nat
  BY UnderWay
<1>2. /\ Found' = Found /\ \A p : HasFate(p)' <=> HasFate(p)
      /\ \A d, m : FateSet(d, m)' = FateSet(d, m)
  BY SameOutcomes
<1>3. OrderInv'
  <2>1. IsSequence(log')
    BY LoggedIs DEF RunInv, OrderInv
  <2>2. \A p \in 1..Done : p \in 1..(Done + 1)
    BY <1>1
  <2> QED BY <1>2, <2>1, <2>2 DEF RunInv, OrderInv
<1>4. ASSUME NEW m \in Nat \ {0}
      PROVE  LET fates == Cardinality(ChunkSet(chunks', m)) + Cardinality(WarnSet(log', m))
             IN  /\ fates <= Cardinality(FateSet(Done', m))
                 /\ stage' # "failed" => fates = Cardinality(FateSet(Done', m))
  <2> DEFINE c == Cardinality(ChunkSet(chunks, m))
             w == Cardinality(WarnSet(log, m))
             f == Cardinality(FateSet(Done, m))
  <2>1. c \in Nat /\ w \in Nat /\ f \in Nat
    BY <1>1, ChunkAdded, WarningAdded, FateAdded DEF RunInv, OrderInv
  <2>2. c + w = f
    BY DEF RunInv, CountInv
  <2>3. Cardinality(WarnSet(log', m)) = IF n = m /\ why # "none" THEN w + 1 ELSE w
    BY LoggedIs DEF RunInv, OrderInv
  <2>4. Cardinality(FateSet(Done', m)) = IF HasFate(Done + 1) /\ n = m THEN f + 1 ELSE f
    BY <1>1, FateAdded
  <2> HIDE DEF c, w, f
  <2>5. Cardinality(ChunkSet(chunks', m)) = c
    BY DEF c
  <2> QED BY <2>1, <2>2, <2>3, <2>4, <2>5
<1>5. CountInv'
  <2>1. \A m : FateSet(Done, m)' = FateSet(Done', m)
    BY <1>2 DEF FateSet
  <2> QED BY <1>4, <2>1 DEF CountInv
<1> QED BY <1>3, <1>5

\* What reading an element does.
LEMMA ReadIs ==
    ASSUME RunInv, Read
    PROVE  LET outcome == OutcomeOf(index + 1)
               n       == Found[index + 1].n
           IN  /\ index < Len(Found) /\ index + 1 \in DOMAIN Found /\ index \in Nat
               /\ Tail(elements) = SubSeq(Found, index + 2, Len(Found))
               /\ log' = Logged(n, outcome.log)
               /\ held' = IF outcome.yields
                          THEN [at |-> "map", n |-> n, rec |-> outcome.rec, value |-> outcome.rec]
                          ELSE Nothing
               /\ stage' = IF outcome.raises THEN "failed" ELSE stage
<1> DEFINE outcome == OutcomeOf(index + 1)
           n       == Found[index + 1].n
<1>1. stage = "reading" /\ held = Nothing /\ elements # <<>>
  BY DEF Read
<1>2. /\ FindsAll /\ Found \in Seq(ToSet(Found)) /\ Len(Found) \in Nat
      /\ DOMAIN Found = 1..Len(Found) /\ index \in 0..Len(Found)
  BY <1>1, UnderWay
<1>3. elements = SubSeq(Found, index + 1, Len(Found))
  BY <1>1 DEF RunInv, ReadInv
<1>4. /\ index < Len(Found) /\ index + 1 \in DOMAIN Found /\ index \in Nat
      /\ Head(elements) = Found[index + 1]
      /\ Tail(elements) = SubSeq(Found, index + 2, Len(Found))
  <2> DEFINE T == ToSet(Found)
  <2>1. Found \in Seq(T)
    BY <1>2
  <2> HIDE DEF T
  <2>2. index < Len(Found)
    BY <1>1, <1>2, <1>3, <2>1
  <2>3. index + 1 \in DOMAIN Found /\ index \in Nat
    BY <1>2, <2>2
  <2>4. index + 1 \in 1..Len(Found) /\ Len(Found) \in (index + 1)..Len(Found)
    BY <1>2, <2>2
  <2>5. /\ Head(elements) = Found[index + 1]
        /\ Tail(elements) = SubSeq(Found, (index + 1) + 1, Len(Found))
    BY <1>3, <2>1, <2>4, HeadTailOfSubSeq
  <2>6. (index + 1) + 1 = index + 2
    BY <1>2
  <2> QED BY <2>2, <2>3, <2>5, <2>6
<1>5. /\ (index + 1) - 1 = index
      /\ Outcome(Adapter, Constants, names, Head(elements), index) = outcome
  BY <1>4 DEF OutcomeOf
<1>6. /\ log' = Logged(n, outcome.log)
      /\ held' = IF outcome.yields
                 THEN [at |-> "map", n |-> n, rec |-> outcome.rec, value |-> outcome.rec]
                 ELSE Nothing
      /\ stage' = IF outcome.raises THEN "failed" ELSE stage
  BY <1>4, <1>5 DEF Read
<1> QED BY <1>4, <1>6

\* A line of the log takes an element that is not written.
LEMMA ReadStep ==
    ASSUME RunInv, Read
    PROVE  ReadInv' /\ OrderInv' /\ CountInv'
<1> DEFINE outcome == OutcomeOf(index + 1)
           n       == Found[index + 1].n
<1>1. /\ stage = "reading" /\ held = Nothing /\ elements # <<>> /\ feed' = feed /\ names' = names
      /\ chunks' = chunks /\ index' = index + 1 /\ elements' = Tail(elements)
  BY DEF Read
<1>2. /\ FindsAll /\ Adapter \in Classes /\ Found \in Seq(ToSet(Found)) /\ Len(Found) \in Nat
      /\ DOMAIN Found = 1..Len(Found) /\ index \in 0..Len(Found) /\ Done = index
  BY <1>1, UnderWay
<1>4. /\ index < Len(Found) /\ index + 1 \in DOMAIN Found /\ index \in Nat
      /\ Tail(elements) = SubSeq(Found, index + 2, Len(Found))
  BY ReadIs
<1>6. /\ log' = Logged(n, outcome.log)
      /\ held' = IF outcome.yields
                 THEN [at |-> "map", n |-> n, rec |-> outcome.rec, value |-> outcome.rec]
                 ELSE Nothing
      /\ stage' = IF outcome.raises THEN "failed" ELSE stage
  BY ReadIs
<1>7. /\ outcome.yields \in BOOLEAN /\ outcome.raises \in BOOLEAN
      /\ outcome.yields => ~outcome.raises /\ outcome.log \in {"none", "mismatch"}
      /\ ~outcome.yields => outcome.log # "mismatch"
  BY <1>2, OutcomeIs DEF OutcomeOf
<1>8. HasFate(index + 1) <=> outcome.yields \/ outcome.log \notin {"none", "mismatch"}
  BY DEF HasFate
<1>9. /\ Found' = Found /\ (\A p : OutcomeOf(p)' = OutcomeOf(p)) /\ (\A p : HasFate(p)' <=> HasFate(p))
      /\ \A d, m : FateSet(d, m)' = FateSet(d, m)
  BY <1>1, SameOutcomes
<1> HIDE DEF outcome
<1>10. stage' = IF outcome.raises THEN "failed" ELSE "reading"
  BY <1>1, <1>6
<1>11. CASE ~outcome.yields
  <2>1. held' = Nothing' /\ Done' = Done + 1
    BY <1>1, <1>2, <1>6, <1>11 DEF Done, Nothing
  <2>2. OrderInv' /\ CountInv'
    <3>1. n = Found[Done + 1].n /\ (HasFate(Done + 1) <=> HasFate(index + 1))
      BY <1>2
    <3>2. outcome.log # "mismatch"
      BY <1>7, <1>11
    <3>3. outcome.log # "none" <=> HasFate(Done + 1)
      BY <1>8, <1>11, <3>1, <3>2
    <3> HIDE DEF n
    <3> QED BY <1>1, <1>6, <2>1, <3>1, <3>2, <3>3, DoneWithout
  <2>3. ReadInv'
    <3>1. index' \in Nat /\ index' <= Len(Found')
      BY <1>1, <1>2, <1>4, <1>9
    <3>2. stage' = "reading" => elements' = SubSeq(Found', index' + 1, Len(Found'))
      <4>1. (index + 1) + 1 = index + 2
        BY <1>4
      <4> QED BY <1>1, <1>4, <1>9, <4>1
    <3>3. stage' = "reading" => \A p \in 1..index' : ~OutcomeOf(p).raises'
      <4>1. \A p \in 1..(index + 1) : p \in 1..index \/ p = index + 1
        BY <1>4
      <4>2. \A p \in 1..index : ~OutcomeOf(p).raises
        BY <1>1 DEF RunInv, ReadInv
      <4> QED BY <1>1, <1>9, <1>10, <4>1, <4>2 DEF outcome
    <3> QED BY <1>9, <1>10, <2>1, <3>1, <3>2, <3>3 DEF ReadInv
  <2> QED BY <2>2, <2>3
<1>12. CASE outcome.yields
  <2>1. /\ held' = [at |-> "map", n |-> n, rec |-> outcome.rec, value |-> outcome.rec]
        /\ stage' = "reading" /\ ~outcome.raises /\ HasFate(index + 1)
    BY <1>6, <1>7, <1>8, <1>10, <1>12
  <2>2. held' # Nothing' /\ Nothing' = Nothing
    <3>1. held'.at = "map"
      BY <2>1
    <3>2. Nothing.at = "none"
      BY DEF Nothing
    <3> QED BY <3>1, <3>2 DEF Nothing
  <2>3. Done' = Done
    BY <1>1, <1>2, <1>4, <2>2 DEF Done
  <2>4. ReadInv'
    <3>1. index' \in Nat /\ index' <= Len(Found') /\ index' > 0
      BY <1>1, <1>2, <1>4, <1>9
    <3>2. elements' = SubSeq(Found', index' + 1, Len(Found'))
      <4>1. (index + 1) + 1 = index + 2
        BY <1>4
      <4> QED BY <1>1, <1>4, <1>9, <4>1
    <3>3. \A p \in 1..index' : ~OutcomeOf(p).raises'
      <4>1. \A p \in 1..(index + 1) : p \in 1..index \/ p = index + 1
        BY <1>4
      <4>2. \A p \in 1..index : ~OutcomeOf(p).raises
        BY <1>1 DEF RunInv, ReadInv
      <4> QED BY <1>1, <1>9, <2>1, <4>1, <4>2 DEF outcome
    <3>4. HeldIs'
      <4>1. held'.n = Found'[index'].n
        BY <1>1, <1>9, <2>1
      <4>2. held' = [at |-> held'.at, n |-> held'.n, rec |-> held'.rec, value |-> held'.value]
        BY <2>1
      <4> QED BY <1>1, <1>9, <2>1, <3>1, <4>1, <4>2 DEF HeldIs
    <3> QED BY <2>1, <3>1, <3>2, <3>3, <3>4 DEF ReadInv
  <2>5. IsSequence(log) /\ IsSequence(log')
    <3> HIDE DEF n
    <3> QED BY <1>6, LoggedIs DEF RunInv, OrderInv
  <2>6. OrderInv'
    BY <1>1, <1>9, <2>3, <2>5 DEF RunInv, OrderInv
  <2>7. CountInv'
    <3>1. ASSUME NEW m PROVE Cardinality(WarnSet(log', m)) = Cardinality(WarnSet(log, m))
      <4>1. outcome.log \in {"none", "mismatch"}
        BY <1>7, <1>12
      <4> HIDE DEF n
      <4> QED BY <1>6, <2>5, <4>1, LoggedIs
    <3>2. \A m : ChunkSet(chunks', m) = ChunkSet(chunks, m) /\ FateSet(Done, m)' = FateSet(Done, m)
      BY <1>1, <1>9, <2>3 DEF FateSet
    <3> QED BY <1>1, <3>1, <3>2 DEF RunInv, CountInv
  <2> QED BY <2>4, <2>6, <2>7
<1> QED BY <1>7, <1>11, <1>12

\* The record under way is left out, or the run fails over it.
LEMMA HeldEnds ==
    ASSUME RunInv, MappingSkips \/ MappingRaises \/ ProducerSkips \/ WriterRaises
    PROVE  ReadInv' /\ OrderInv' /\ CountInv'
<1>1. /\ feed' = feed /\ names' = names /\ elements' = elements /\ index' = index
      /\ chunks' = chunks /\ held' = Nothing /\ held.at \in {"map", "produce", "write"}
      /\ stage' = stage \/ stage' = "failed"
      /\ \E why \in {"none", "required source missing", "item id missing"} :
            /\ log' = Logged(held.n, why)
            /\ stage' # "failed" => why # "none"
  <2>1. CASE MappingSkips
    <3>1. held.at = "map"
      BY <2>1 DEF MappingSkips
    <3> QED BY <2>1, <3>1 DEF MappingSkips
  <2>2. CASE ProducerSkips
    <3>1. held.at = "produce"
      BY <2>2 DEF ProducerSkips
    <3> QED BY <2>2, <3>1 DEF ProducerSkips
  <2>3. CASE MappingRaises \/ WriterRaises
    <3>1. log' = log /\ stage' = "failed" /\ Logged(held.n, "none") = log
      BY <2>3 DEF MappingRaises, WriterRaises, Logged
    <3> QED BY <2>3, <3>1 DEF MappingRaises, WriterRaises
  <2> QED BY <2>1, <2>2, <2>3
<1>2. held # Nothing
  <2>1. Nothing.at = "none"
    BY DEF Nothing
  <2> QED BY <1>1, <2>1
<1>3. stage = "reading"
  BY <1>2 DEF RunInv, InputInv
<1>4. /\ HeldIs /\ index \in DOMAIN Found /\ Done \in Nat /\ Done + 1 = index
      /\ held.n = Found[index].n /\ HasFate(index)
  BY <1>2, <1>3, UnderWay DEF HeldIs
<1>5. Done' = index
  BY <1>1 DEF Done, Nothing
<1>6. PICK why \in {"none", "required source missing", "item id missing"} :
          log' = Logged(held.n, why) /\ (stage' # "failed" => why # "none")
  BY <1>1
<1>7. OrderInv' /\ CountInv'
  <2>1. why # "mismatch"
    BY <1>6
  <2> DEFINE n == held.n
  <2>2. log' = Logged(n, why) /\ n = Found[Done + 1].n
    BY <1>4, <1>6
  <2>3. HasFate(Done + 1) /\ Done' = Done + 1
    BY <1>4, <1>5
  <2> HIDE DEF n
  <2> QED BY <1>1, <1>3, <1>6, <2>1, <2>2, <2>3, DoneWithout
<1>8. ReadInv'
  <2>1. Found' = Found /\ (\A p : OutcomeOf(p)' = OutcomeOf(p)) /\ Nothing' = Nothing
    BY <1>1, SameOutcomes DEF Nothing
  <2>2. /\ index \in Nat /\ index <= Len(Found) /\ elements = SubSeq(Found, index + 1, Len(Found))
        /\ \A p \in 1..index : ~OutcomeOf(p).raises
    BY <1>3 DEF RunInv, ReadInv
  <2> QED BY <1>1, <1>3, <2>1, <2>2 DEF ReadInv
<1> QED BY <1>7, <1>8

\* The record under way is written.
LEMMA HeldIsWritten ==
    ASSUME RunInv, WriteRecord
    PROVE  ReadInv' /\ OrderInv' /\ CountInv'
<1> DEFINE chunk == [n |-> held.n, rec |-> held.rec, record |-> held.value,
                     text |-> ChunkOf(feed.writer, feed.config, held.value)]
<1>1. /\ feed' = feed /\ names' = names /\ elements' = elements /\ index' = index
      /\ held' = Nothing /\ held.at = "write" /\ stage' = stage /\ log' = log
      /\ chunks' = Append(chunks, chunk)
  BY DEF WriteRecord
<1>2. chunk.n = held.n
  OBVIOUS
<1> HIDE DEF chunk
<1>3. held # Nothing
  <2>1. Nothing.at = "none"
    BY DEF Nothing
  <2> QED BY <1>1, <2>1
<1>4. stage = "reading"
  BY <1>3 DEF RunInv, InputInv
<1>5. /\ FindsAll /\ index \in DOMAIN Found /\ Done \in Nat /\ Done + 1 = index
      /\ held.n = Found[index].n /\ HasFate(index) /\ held.n \in Nat \ {0}
      /\ DOMAIN Found = 1..Len(Found) /\ Len(Found) \in Nat
  BY <1>3, <1>4, UnderWay DEF HeldIs
<1>6. Done' = Done + 1
  BY <1>1, <1>5 DEF Done, Nothing
<1>7. /\ Found' = Found /\ (\A p : OutcomeOf(p)' = OutcomeOf(p)) /\ (\A p : HasFate(p)' <=> HasFate(p))
      /\ \A d, m : FateSet(d, m)' = FateSet(d, m)
  BY <1>1, SameOutcomes
<1>8. ReadInv'
  <2>1. Nothing' = Nothing
    BY DEF Nothing
  <2>2. /\ index \in Nat /\ index <= Len(Found) /\ elements = SubSeq(Found, index + 1, Len(Found))
        /\ \A p \in 1..index : ~OutcomeOf(p).raises
    BY <1>4 DEF RunInv, ReadInv
  <2> QED BY <1>1, <1>4, <1>7, <2>1, <2>2 DEF ReadInv
<1>9. /\ IsSequence(chunks) /\ IsSequence(chunks') /\ Len(chunks) \in Nat
      /\ DOMAIN chunks = 1..Len(chunks) /\ DOMAIN chunks' = 1..(Len(chunks) + 1)
      /\ chunks'[Len(chunks) + 1] = chunk
      /\ \A i \in DOMAIN chunks : chunks'[i] = chunks[i]
  BY <1>1, Appended DEF RunInv, OrderInv
<1>10. \A i \in 1..(Len(chunks) + 1) : i \in DOMAIN chunks \/ i = Len(chunks) + 1
  BY <1>9
<1>11. \A i \in DOMAIN chunks : chunks[i].n <= held.n
  <2> SUFFICES ASSUME NEW i \in DOMAIN chunks PROVE chunks[i].n <= held.n
    OBVIOUS
  <2>1. CASE chunks[i].n = 0
    BY <1>5, <2>1
  <2>2. CASE chunks[i].n # 0
    <3>1. PICK p \in 1..Done : chunks[i].n = Found[p].n
      BY <2>2 DEF RunInv, OrderInv
    <3>2. p \in DOMAIN Found /\ p < index
      BY <1>5, <3>1
    <3> QED BY <1>5, <3>1, <3>2 DEF FindsAll
  <2> QED BY <2>1, <2>2
<1>12. OrderInv'
  <2>1. ASSUME NEW i \in DOMAIN chunks', NEW j \in DOMAIN chunks', i < j
        PROVE  chunks'[i].n <= chunks'[j].n
    <3>1. i \in DOMAIN chunks
      BY <1>9, <2>1
    <3>2. CASE j \in DOMAIN chunks
      BY <1>9, <2>1, <3>1, <3>2 DEF RunInv, OrderInv
    <3>3. CASE j = Len(chunks) + 1
      BY <1>2, <1>9, <1>11, <3>1, <3>3
    <3> QED BY <1>9, <1>10, <3>2, <3>3
  <2>2. ASSUME NEW i \in DOMAIN chunks'
        PROVE  chunks'[i].n = 0 \/ \E p \in 1..(Done + 1) : HasFate(p) /\ chunks'[i].n = Found[p].n
    <3>1. \A p \in 1..Done : p \in 1..(Done + 1)
      BY <1>5
    <3>2. CASE i \in DOMAIN chunks
      BY <1>9, <3>1, <3>2 DEF RunInv, OrderInv
    <3>3. CASE i = Len(chunks) + 1
      <4>1. Done + 1 \in 1..(Done + 1)
        BY <1>5
      <4> QED BY <1>2, <1>5, <1>9, <3>3, <4>1
    <3> QED BY <1>9, <1>10, <3>2, <3>3
  <2>3. IsSequence(log')
    BY <1>1 DEF RunInv, OrderInv
  <2> QED BY <1>6, <1>7, <1>9, <2>1, <2>2, <2>3 DEF OrderInv
<1>13. CountInv'
  <2>1. ASSUME NEW m \in Nat \ {0}
        PROVE  Cardinality(ChunkSet(chunks', m)) + Cardinality(WarnSet(log', m))
                   = Cardinality(FateSet(Done + 1, m))
    <3> DEFINE c == Cardinality(ChunkSet(chunks, m))
               w == Cardinality(WarnSet(log, m))
               f == Cardinality(FateSet(Done, m))
    <3>1. c \in Nat /\ w \in Nat /\ f \in Nat
      BY <1>5, ChunkAdded, WarningAdded, FateAdded DEF RunInv, OrderInv
    <3>2. c + w = f
      BY <1>4 DEF RunInv, CountInv
    <3>3. Cardinality(ChunkSet(chunks', m)) = IF held.n = m THEN c + 1 ELSE c
      BY <1>1, <1>2, <1>9, ChunkAdded
    <3>4. Cardinality(FateSet(Done + 1, m)) = IF held.n = m THEN f + 1 ELSE f
      BY <1>5, FateAdded
    <3>5. Cardinality(WarnSet(log', m)) = w
      BY <1>1
    <3> HIDE DEF c, w, f
    <3> QED BY <3>1, <3>2, <3>3, <3>4, <3>5
  <2>2. ASSUME NEW m \in Nat \ {0} PROVE Cardinality(FateSet(Done + 1, m)) \in Nat
    BY <1>5, FateAdded
  <2>3. \A m : FateSet(Done, m)' = FateSet(Done + 1, m)
    BY <1>6, <1>7 DEF FateSet
  <2>4. ASSUME NEW m \in Nat \ {0}
        PROVE  LET fates == Cardinality(ChunkSet(chunks', m)) + Cardinality(WarnSet(log', m))
               IN  /\ fates <= Cardinality(FateSet(Done, m)')
                   /\ stage' # "failed" => fates = Cardinality(FateSet(Done, m)')
    BY <2>1, <2>2, <2>3
  <2> QED BY <2>4 DEF CountInv
<1> QED BY <1>8, <1>12, <1>13

LEMMA FeedEnds ==
    ASSUME RunInv, EndOfFeed
    PROVE  ReadInv' /\ OrderInv' /\ CountInv'
<1>1. /\ feed' = feed /\ names' = names /\ elements' = elements /\ index' = index
      /\ chunks' = chunks /\ held' = held /\ log' = log
      /\ stage = "reading" /\ stage' = "ended" /\ held = Nothing /\ elements = <<>>
  BY DEF EndOfFeed
<1>2. /\ Found \in Seq(ToSet(Found)) /\ Len(Found) \in Nat /\ index \in 0..Len(Found)
      /\ elements = SubSeq(Found, index + 1, Len(Found))
      /\ \A p \in 1..index : ~OutcomeOf(p).raises
  <2>1. elements = SubSeq(Found, index + 1, Len(Found)) /\ \A p \in 1..index : ~OutcomeOf(p).raises
    BY <1>1 DEF RunInv, ReadInv
  <2> QED BY <1>1, <2>1, UnderWay
<1>3. index = Len(Found)
  <2> SUFFICES ASSUME index # Len(Found) PROVE FALSE
    OBVIOUS
  <2>1. index < Len(Found)
    BY <1>2
  <2> DEFINE T == ToSet(Found)
  <2>2. Found \in Seq(T)
    BY <1>2
  <2> HIDE DEF T
  <2>3. \A i \in (index + 1)..Len(Found) : Found[i] \in T
    BY <1>2, <2>2
  <2>4. index + 1 \in Int /\ Len(Found) \in Int /\ index + 1 <= Len(Found)
    BY <1>2, <2>1
  <2>5. Len(SubSeq(Found, index + 1, Len(Found))) = Len(Found) - (index + 1) + 1
    BY <2>3, <2>4, SubSeqProperties
  <2>6. Len(elements) = 0
    BY <1>1
  <2> QED BY <1>2, <2>1, <2>5, <2>6
<1>4. /\ Found' = Found /\ (\A p : OutcomeOf(p)' = OutcomeOf(p)) /\ (\A p : HasFate(p)' <=> HasFate(p))
      /\ \A d, m : FateSet(d, m)' = FateSet(d, m)
  BY <1>1, SameOutcomes
<1>5. Done' = Done /\ held' = Nothing'
  BY <1>1 DEF Done, Nothing
<1>6. ReadInv'
  BY <1>1, <1>2, <1>3, <1>4, <1>5 DEF ReadInv
<1>7. OrderInv'
  BY <1>1, <1>4, <1>5 DEF RunInv, OrderInv
<1>8. CountInv'
  <2>1. \A m : FateSet(Done, m)' = FateSet(Done, m)
    BY <1>4, <1>5 DEF FateSet
  <2> QED BY <1>1, <2>1 DEF RunInv, CountInv, ChunkSet, WarnSet
<1> QED BY <1>6, <1>7, <1>8

LEMMA RunInvNext == RunInv /\ [NextFeed]_feedVars => RunInv'
<1> SUFFICES ASSUME RunInv, [NextFeed]_feedVars PROVE RunInv'
  OBVIOUS
<1>1. InputInv'
  BY InputInvNext DEF RunInv
<1>2. ReadInv' /\ OrderInv' /\ CountInv'
  <2>1. CASE UNCHANGED feedVars
    BY <2>1, RunUnchanged DEF feedVars
  <2> QED BY <2>1, EarlySteps, ReadStep, TakenOn, HeldEnds, HeldIsWritten, FeedEnds DEF NextFeed
<1> QED BY <1>1, <1>2 DEF RunInv

\* A record is named by a number.
LEMMA RecordsAreNumbers ==
    ASSUME Fit, FindsAll, NEW n \in TakenRecords
    PROVE  n \in Nat \ {0}
<1>1. CASE ~LeadsNowhere
  <2>1. Cardinality(Occurrences(n)) # 0
    BY <1>1 DEF FindsAll, TimesOf
  <2>2. Occurrences(n) # {}
    BY <2>1, FS_EmptySet
  <2> QED BY <2>2 DEF Occurrences, FindsAll
<1>2. CASE LeadsNowhere
  <2>1. Adapter = "streaming_json"
    BY <1>2 DEF LeadsNowhere
  <2>2. n \in DOMAIN feed.input.elements
    BY <2>1 DEF TakenRecords, Tabular, Lines
  <2>3. DOMAIN feed.input.elements = 1..Len(feed.input.elements) /\ Len(feed.input.elements) \in Nat
    BY <2>1, TakenIs DEF Fit, IsInput, IsSequence
  <2> QED BY <2>2, <2>3
<1> QED BY <1>1, <1>2

\* What is read and what is not, the order of the chunks, and that the elements that are done
\* are counted by chunks and warnings, hold in every state of a run.
THEOREM RunInvariant == FeedSpec => []RunInv
  BY RunInvInit, RunInvNext, PTL DEF FeedSpec

\* Every record of the input is in the artifact once or named once by a warning, in the order
\* of the input, behind the header; a failed run has not lost or repeated one that it read
\* before. The first line of a list read without a header counts twice, and a list that csv
\* is given is excepted, whose records are lost.
THEOREM EachRecordIsThereOnce == FeedSpec => []EveryRecordOnce
<1>1. RunInv => EveryRecordOnce
  <2> SUFFICES ASSUME RunInv, stage \in {"reading", "failed", "ended"}, ~ReadsRepr
               PROVE  EveryRecordOnce
    BY DEF EveryRecordOnce
  <2> DEFINE Fates(n) == Cardinality(ChunkSet(chunks, n)) + Cardinality(WarnSet(log, n))
  <2>1. /\ FindsAll /\ DOMAIN Found = 1..Len(Found) /\ Len(Found) \in Nat
        /\ index \in 0..Len(Found) /\ Done \in Nat /\ Done <= Len(Found)
    <3>1. held = Nothing => Done = index
      BY UnderWay
    <3>2. held # Nothing => Done + 1 = index
      BY UnderWay
    <3>3. index \in 0..Len(Found) /\ Done \in Nat
      BY UnderWay
    <3>4. Done <= Len(Found)
      BY <3>1, <3>2, <3>3, UnderWay
    <3> QED BY <3>3, <3>4, UnderWay
  <2>0. TakenRecords = Records
    BY TakenIs
  <2>2. 1..Done \subseteq DOMAIN Found
    BY <2>1
  <2>3. \A i, j \in DOMAIN chunks : i < j => chunks[i].n <= chunks[j].n
    BY DEF RunInv, OrderInv
  <2>4. \A i \in Body : chunks[i].n \in Records
    <3> SUFFICES ASSUME NEW i \in Body PROVE chunks[i].n \in Records
      OBVIOUS
    <3>1. PICK p \in 1..Done : HasFate(p) /\ chunks[i].n = Found[p].n
      BY DEF Body, RunInv, OrderInv
    <3> QED BY <2>0, <2>1, <2>2, <3>1 DEF FindsAll
  <2>5. \A n : FateSet(Done, n) \subseteq Occurrences(n)
    BY <2>2 DEF FateSet, Occurrences
  <2>6. \A n : IsFiniteSet(Occurrences(n))
    <3>1. IsFiniteSet(1..Len(Found))
      BY <2>1, FS_Interval
    <3> QED BY <2>1, <3>1, FS_Subset DEF Occurrences
  <2>7. ASSUME NEW n
        PROVE  /\ Cardinality(FateSet(Done, n)) <= Cardinality(Occurrences(n))
               /\ Cardinality(FateSet(Done, n)) \in Nat /\ Cardinality(Occurrences(n)) \in Nat
    BY <2>5, <2>6, FS_Subset, FS_CardinalityType
  <2>8. \A n \in Records : n \in Nat \ {0}
    BY <2>0, <2>1, RecordsAreNumbers DEF RunInv, InputInv
  <2>9. ASSUME NEW n \in Records
        PROVE  /\ Fates(n) <= TimesOf(n)
               /\ (stage = "ended" /\ ~LeadsNowhere) => Fates(n) = TimesOf(n)
    <3>1. Cardinality(Occurrences(n)) <= TimesOf(n) /\ TimesOf(n) \in Nat
      BY <2>0, <2>1 DEF FindsAll, TimesOf
    <3>2. Fates(n) <= Cardinality(FateSet(Done, n))
      BY <2>8 DEF RunInv, CountInv
    <3>3. Fates(n) \in Nat
      BY ChunkAdded, WarningAdded DEF RunInv, OrderInv
    <3>4. ASSUME stage = "ended", ~LeadsNowhere PROVE Fates(n) = TimesOf(n)
      <4>1. index = Len(Found) /\ Done = Len(Found) /\ \A p \in 1..Len(Found) : ~OutcomeOf(p).raises
        <5>1. held = Nothing
          BY <3>4 DEF RunInv, InputInv
        <5> QED BY <3>4, <5>1 DEF RunInv, ReadInv, Done
      <4>2. \A p \in Occurrences(n) : p \in FateSet(Done, n)
        BY <2>0, <2>1, <4>1 DEF Occurrences, FateSet, FindsAll
      <4>3. FateSet(Done, n) = Occurrences(n)
        BY <2>5, <4>2
      <4>4. Cardinality(Occurrences(n)) = TimesOf(n)
        BY <2>0, <2>1, <3>4 DEF FindsAll
      <4>5. Fates(n) = Cardinality(FateSet(Done, n))
        BY <2>8, <3>4 DEF RunInv, CountInv
      <4> QED BY <4>3, <4>4, <4>5
    <3> HIDE DEF Fates
    <3> QED BY <2>7, <3>1, <3>2, <3>3, <3>4
  <2> QED BY <2>3, <2>4, <2>9 DEF EveryRecordOnce, TimesOf, ChunkSet, WarnSet
<1> QED BY <1>1, RunInvariant, PTL

-----------------------------------------------------------------------------
(* What becomes of a record on its way.                                                  *)

\* The input was opened, and named its columns.
OpenedInv ==
    stage \in {"reading", "ended"} =>
        /\ ~OpenFails(Adapter, Constants, feed.input)
        /\ names = IF Adapter \in Tabular THEN FieldNames(Adapter, Constants, feed.input) ELSE <<>>

\* How far the record under way has come.
HeldInv ==
    held # Nothing =>
        /\ OutcomeOf(index).yields /\ held.rec = OutcomeOf(index).rec
        /\ held.at \in {"map", "produce", "project", "write"}
        /\ held.at # "map" => ~RequiredIsMissing(Mapping, held.rec)
        /\ held.at = "produce" => held.value = Mapped(Mapping, held.rec)
        /\ held.at \in {"project", "write"} => ItemOf(held.rec) # None
        /\ held.at = "project" => held.value = ItemOf(held.rec)
        /\ held.at = "write" => held.value = Projected(ItemOf(held.rec))

IsOf(chunk, p) ==
    /\ OutcomeOf(p).yields
    /\ chunk.n = Found[p].n /\ chunk.rec = OutcomeOf(p).rec

Projects(chunk) ==
    /\ IsItem(chunk.rec)
    /\ chunk.record = Projected(ItemOf(chunk.rec))
    /\ feed.writer = "csv" => chunk.record.t = "list"

\* A chunk holds the item of a record that was read, as its writer takes it; and while
\* nothing failed each record that makes an item is in a chunk.
ChunkInv ==
    /\ \A i \in Body : Projects(chunks[i]) /\ \E p \in 1..Done : IsOf(chunks[i], p)
    /\ stage # "failed" =>
          \A p \in 1..Done : OutcomeOf(p).yields /\ IsItem(OutcomeOf(p).rec) =>
                                 \E i \in Body : IsOf(chunks[i], p)

WayInv == RunInv /\ OpenedInv /\ HeldInv /\ ChunkInv

LEMMA SameItems ==
    ASSUME feed' = feed
    PROVE  /\ Mapping' = Mapping
           /\ \A rec : ItemOf(rec)' = ItemOf(rec) /\ (IsItem(rec)' <=> IsItem(rec))
           /\ \A rec : Projected(rec)' = Projected(rec)
           /\ \A chunk : Projects(chunk)' <=> Projects(chunk)
<1>1. Mapping' = Mapping
  BY SameFeed
<1>2. \A rec : ItemOf(rec)' = ItemOf(rec)
  BY <1>1 DEF ItemOf
<1>3. \A rec : IsItem(rec)' <=> IsItem(rec)
  BY <1>1, <1>2 DEF IsItem
<1>4. \A rec : Projected(rec)' = Projected(rec)
  BY DEF Projected, Cell
<1>5. \A chunk : Projects(chunk)' <=> Projects(chunk)
  BY <1>2, <1>3, <1>4 DEF Projects
<1> QED BY <1>1, <1>2, <1>3, <1>4, <1>5

LEMMA SameWay ==
    ASSUME feed' = feed, names' = names
    PROVE  /\ \A chunk, p : IsOf(chunk, p)' <=> IsOf(chunk, p)
           /\ OpenFails(Adapter, Constants, feed.input)' <=> OpenFails(Adapter, Constants, feed.input)
           /\ FieldNames(Adapter, Constants, feed.input)' = FieldNames(Adapter, Constants, feed.input)
<1>1. Adapter' = Adapter /\ Constants' = Constants /\ Found' = Found
  BY SameFeed
<1>2. \A p : OutcomeOf(p)' = OutcomeOf(p)
  BY SameOutcomes
<1>3. \A chunk, p : IsOf(chunk, p)' <=> IsOf(chunk, p)
  BY <1>1, <1>2 DEF IsOf
<1> QED BY <1>1, <1>3

\* Before the input is read no record is under way, and there is no chunk of one.
LEMMA WayEarly ==
    ASSUME WayInv, RunInv', BuildStep \/ NextBuild \/ StartArtifact \/ OpenInput \/ OpenRaises
    PROVE  OpenedInv' /\ HeldInv' /\ ChunkInv'
<1>0. RunInv
  BY DEF WayInv
<1>1. CASE NextBuild
  <2>1. index' = 0 /\ held' = Nothing /\ stage' = "load"
    BY <1>1 DEF NextBuild, BuildAgain, StartOver
  <2>2. Done' = 0 /\ held' = Nothing'
    BY <2>1 DEF Done, Nothing
  <2>3. Body' = {}
    BY <1>1 DEF NextBuild, Body
  <2> QED BY <2>1, <2>2, <2>3 DEF OpenedInv, HeldInv, ChunkInv
<1>2. CASE BuildStep \/ StartArtifact \/ OpenInput \/ OpenRaises
  <2>1. /\ stage \notin {"reading", "failed", "ended"} /\ index' = index /\ held' = held
        /\ feed' = feed
    <3>1. CASE BuildStep
      BY <3>1 DEF BuildStep, Build, LoadInfra, RefuseSecondLog, InstallLogging, BuildConnector,
                  BuildCore, PublisherRaises, HandOver, run
    <3>2. CASE StartArtifact \/ OpenInput \/ OpenRaises
      BY <3>2 DEF StartArtifact, OpenInput, OpenRaises
    <3> QED BY <1>2, <3>1, <3>2
  <2>2. index = 0 /\ held = Nothing
    BY <1>0, <2>1, BeforeReading
  <2>3. Done' = 0 /\ held' = Nothing'
    BY <2>1, <2>2 DEF Done, Nothing
  <2>4. Body' = {}
    <3>1. \A i \in DOMAIN chunks' : chunks'[i].n = 0 \/ \E p \in 1..Done' : TRUE
      BY DEF RunInv, OrderInv
    <3>2. 1..0 = {}
      OBVIOUS
    <3> QED BY <2>3, <3>1, <3>2 DEF Body
  <2>5. OpenedInv'
    <3>1. CASE OpenInput
      <4>1. Adapter' = Adapter /\ Constants' = Constants
        BY <2>1, SameFeed
      <4> QED BY <2>1, <3>1, <4>1 DEF OpenInput, OpenedInv
    <3>2. CASE BuildStep
      <4>1. stage' \notin {"reading", "ended"}
        BY <3>2 DEF BuildStep, Build, LoadInfra, RefuseSecondLog, InstallLogging, BuildConnector,
                    BuildCore, PublisherRaises, HandOver
      <4> QED BY <4>1 DEF OpenedInv
    <3>3. CASE StartArtifact \/ OpenRaises
      <4>1. stage' \notin {"reading", "ended"}
        BY <3>3 DEF StartArtifact, OpenRaises
      <4> QED BY <4>1 DEF OpenedInv
    <3> QED BY <1>2, <3>1, <3>2, <3>3
  <2>6. 1..0 = {}
    OBVIOUS
  <2> QED BY <2>3, <2>4, <2>5, <2>6 DEF HeldInv, ChunkInv
<1> QED BY <1>1, <1>2

\* Where the chunks are as they were, and so are the elements that are done.
LEMMA WayStays ==
    ASSUME WayInv, feed' = feed, names' = names, chunks' = chunks, Done' = Done,
           stage' = stage \/ stage' = "failed" \/ (stage = "reading" /\ stage' = "ended")
    PROVE  OpenedInv' /\ ChunkInv'
<1>1. /\ Adapter' = Adapter /\ Constants' = Constants /\ Found' = Found
      /\ \A p : OutcomeOf(p)' = OutcomeOf(p)
  BY SameFeed, SameOutcomes
<1>2. OpenedInv'
  BY <1>1 DEF WayInv, OpenedInv
<1>3. Body' = Body
  BY DEF Body
<1>4. /\ \A rec : IsItem(rec)' <=> IsItem(rec)
      /\ \A chunk : Projects(chunk)' <=> Projects(chunk)
      /\ \A chunk, p : IsOf(chunk, p)' <=> IsOf(chunk, p)
  BY SameItems, SameWay
<1>5. ChunkInv'
  <2>1. stage' # "failed" => stage # "failed"
    OBVIOUS
  <2> QED BY <1>1, <1>3, <1>4, <2>1 DEF WayInv, ChunkInv
<1> QED BY <1>2, <1>5

\* An element is done and makes no item, or fails the run.
LEMMA WayWithout ==
    ASSUME WayInv, feed' = feed, names' = names, chunks' = chunks, Done' = Done + 1,
           stage' = stage \/ stage' = "failed",
           stage' # "failed" => ~(OutcomeOf(Done + 1).yields /\ IsItem(OutcomeOf(Done + 1).rec)),
           stage = "reading"
    PROVE  OpenedInv' /\ ChunkInv'
<1>0. Done \in Nat
  BY UnderWay DEF WayInv
<1>1. /\ Adapter' = Adapter /\ Constants' = Constants /\ Found' = Found
      /\ \A p : OutcomeOf(p)' = OutcomeOf(p)
  BY SameFeed, SameOutcomes
<1>2. OpenedInv'
  BY <1>1 DEF WayInv, OpenedInv
<1>3. Body' = Body
  BY DEF Body
<1>4. /\ \A rec : IsItem(rec)' <=> IsItem(rec)
      /\ \A chunk : Projects(chunk)' <=> Projects(chunk)
      /\ \A chunk, p : IsOf(chunk, p)' <=> IsOf(chunk, p)
  BY SameItems, SameWay
<1>5. \A p \in 1..(Done + 1) : p \in 1..Done \/ p = Done + 1
  BY <1>0
<1>6. \A p \in 1..Done : p \in 1..(Done + 1)
  BY <1>0
<1>7. ChunkInv'
  <2>1. \A i \in Body : Projects(chunks[i]) /\ \E p \in 1..(Done + 1) : IsOf(chunks[i], p)
    BY <1>6 DEF WayInv, ChunkInv
  <2>2. ASSUME stage' # "failed", NEW p \in 1..(Done + 1), OutcomeOf(p).yields, IsItem(OutcomeOf(p).rec)
        PROVE  \E i \in Body : IsOf(chunks[i], p)
    <3>1. stage # "failed" /\ p # Done + 1
      BY <2>2
    <3> QED BY <1>5, <2>2, <3>1 DEF WayInv, ChunkInv
  <2> QED BY <1>1, <1>3, <1>4, <2>1, <2>2 DEF ChunkInv
<1> QED BY <1>2, <1>7

\* An element is read: it is under way, or done and makes no item.
LEMMA WayReads ==
    ASSUME WayInv, Read
    PROVE  OpenedInv' /\ HeldInv' /\ ChunkInv'
<1> DEFINE outcome == OutcomeOf(index + 1)
<1>0. RunInv
  BY DEF WayInv
<1>1. /\ stage = "reading" /\ held = Nothing /\ feed' = feed /\ names' = names
      /\ chunks' = chunks /\ index' = index + 1
  BY DEF Read
<1>2. Done = index /\ index \in Nat /\ Adapter \in Classes
  BY <1>0, <1>1, UnderWay
<1>3. /\ held' = IF outcome.yields
                 THEN [at |-> "map", n |-> Found[index + 1].n, rec |-> outcome.rec, value |-> outcome.rec]
                 ELSE Nothing
      /\ stage' = IF outcome.raises THEN "failed" ELSE stage
  BY <1>0, ReadIs
<1>4. \A p : OutcomeOf(p)' = OutcomeOf(p)
  BY <1>1, SameOutcomes
<1>5. outcome.yields \in BOOLEAN /\ (outcome.yields => ~outcome.raises)
  BY <1>2, OutcomeIs DEF OutcomeOf
<1> HIDE DEF outcome
<1>7. CASE outcome.yields
  <2>1. held' = [at |-> "map", n |-> Found[index + 1].n, rec |-> outcome.rec, value |-> outcome.rec]
    BY <1>3, <1>7
  <2>2. held'.at = "map" /\ held'.rec = outcome.rec
    BY <2>1
  <2>3. Nothing.at = "none" /\ Nothing' = Nothing
    BY DEF Nothing
  <2>4. Done' = Done
    BY <1>1, <1>2, <2>2, <2>3 DEF Done
  <2>5. HeldInv'
    <3>1. OutcomeOf(index)'.yields /\ held'.rec = OutcomeOf(index)'.rec
      <4>1. OutcomeOf(index') = OutcomeOf(index + 1)
        BY <1>1
      <4>2. OutcomeOf(index)' = OutcomeOf(index + 1)
        BY <1>1, SameOutcomes DEF OutcomeOf
      <4> QED BY <1>7, <2>2, <4>2 DEF outcome
    <3> QED BY <2>2, <3>1 DEF HeldInv
  <2>6. stage' = stage
    BY <1>3, <1>5, <1>7
  <2> QED BY <1>1, <2>4, <2>5, <2>6, WayStays
<1>8. CASE ~outcome.yields
  <2>1. held' = Nothing /\ Nothing' = Nothing
    BY <1>3, <1>8 DEF Nothing
  <2>2. Done' = Done + 1
    BY <1>1, <1>2, <2>1 DEF Done
  <2>3. stage' = stage \/ stage' = "failed"
    BY <1>3
  <2>4. ~OutcomeOf(Done + 1).yields
    BY <1>2, <1>8 DEF outcome
  <2> QED BY <1>1, <2>1, <2>2, <2>3, <2>4, WayWithout DEF HeldInv
<1> QED BY <1>5, <1>7, <1>8

\* A step that takes the record under way on.
LEMMA WayOn ==
    ASSUME WayInv, MapRecord \/ ProduceItem \/ ProjectItem
    PROVE  OpenedInv' /\ HeldInv' /\ ChunkInv'
<1>0. RunInv
  BY DEF WayInv
<1>1. /\ feed' = feed /\ stage' = stage /\ names' = names /\ index' = index /\ chunks' = chunks
      /\ held.at \in {"map", "produce", "project"}
  BY DEF MapRecord, ProduceItem, ProjectItem
<1>2. Nothing.at = "none" /\ Nothing' = Nothing
  BY DEF Nothing
<1>3. held # Nothing
  BY <1>1, <1>2
<1>4. held = [at |-> held.at, n |-> held.n, rec |-> held.rec, value |-> held.value]
  BY <1>0, <1>3 DEF RunInv, ReadInv, HeldIs
<1>5. /\ \A rec : ItemOf(rec)' = ItemOf(rec) /\ Projected(rec)' = Projected(rec)
      /\ Mapping' = Mapping /\ \A p : OutcomeOf(p)' = OutcomeOf(p)
  BY <1>1, SameItems, SameOutcomes
<1>6. OutcomeOf(index)' = OutcomeOf(index)
  BY <1>1, <1>5
<1>7. OutcomeOf(index).yields /\ held.rec = OutcomeOf(index).rec
  BY <1>3 DEF WayInv, HeldInv
<1>8. CASE MapRecord
  <2>1. held'.at = "produce" /\ held'.rec = held.rec /\ held'.value = Mapped(Mapping, held.rec)
    BY <1>4, <1>8 DEF MapRecord
  <2>2. ~RequiredIsMissing(Mapping, held.rec)
    BY <1>8 DEF MapRecord
  <2>3. held' # Nothing
    BY <1>2, <2>1
  <2>4. HeldInv'
    BY <1>5, <1>6, <1>7, <2>1, <2>2 DEF HeldInv
  <2> QED BY <1>1, <1>2, <1>3, <2>3, <2>4, WayStays DEF Done
<1>9. CASE ProduceItem
  <2>1. held.at = "produce" /\ held.value = Mapped(Mapping, held.rec) /\ ~RequiredIsMissing(Mapping, held.rec)
    BY <1>3, <1>9 DEF WayInv, HeldInv, ProduceItem
  <2>2. /\ held'.at = "project" /\ held'.rec = held.rec /\ held'.value = ItemOf(held.rec)
        /\ ItemOf(held.rec) # None
    BY <1>4, <1>9, <2>1 DEF ProduceItem, ItemOf
  <2>3. held' # Nothing
    BY <1>2, <2>2
  <2>4. HeldInv'
    BY <1>5, <1>6, <1>7, <2>1, <2>2 DEF HeldInv
  <2> QED BY <1>1, <1>2, <1>3, <2>3, <2>4, WayStays DEF Done
<1>10. CASE ProjectItem
  <2>1. /\ held.at = "project" /\ held.value = ItemOf(held.rec) /\ ItemOf(held.rec) # None
        /\ ~RequiredIsMissing(Mapping, held.rec)
    BY <1>3, <1>10 DEF WayInv, HeldInv, ProjectItem
  <2>2. held'.at = "write" /\ held'.rec = held.rec /\ held'.value = Projected(ItemOf(held.rec))
    BY <1>4, <1>10, <2>1 DEF ProjectItem
  <2>3. held' # Nothing
    BY <1>2, <2>2
  <2>4. HeldInv'
    BY <1>5, <1>6, <1>7, <2>1, <2>2 DEF HeldInv
  <2> QED BY <1>1, <1>2, <1>3, <2>3, <2>4, WayStays DEF Done
<1> QED BY <1>8, <1>9, <1>10

\* The record under way is left out for a reason that makes it no item, or fails the run.
LEMMA WayEnds ==
    ASSUME WayInv, MappingSkips \/ MappingRaises \/ ProducerSkips \/ WriterRaises
    PROVE  OpenedInv' /\ HeldInv' /\ ChunkInv'
<1>0. RunInv
  BY DEF WayInv
<1>1. /\ feed' = feed /\ names' = names /\ index' = index /\ chunks' = chunks /\ held' = Nothing
      /\ held.at \in {"map", "produce", "write"} /\ (stage' = stage \/ stage' = "failed")
  BY DEF MappingSkips, MappingRaises, ProducerSkips, WriterRaises
<1>2. Nothing.at = "none" /\ Nothing' = Nothing
  BY DEF Nothing
<1>3. held # Nothing
  BY <1>1, <1>2
<1>4. stage = "reading" /\ Done + 1 = index
  <2>1. stage = "reading"
    BY <1>0, <1>3 DEF RunInv, InputInv
  <2> QED BY <1>0, <1>3, <2>1, UnderWay
<1>5. Done' = Done + 1
  BY <1>1, <1>2, <1>4 DEF Done
<1>6. held.rec = OutcomeOf(Done + 1).rec
  BY <1>3, <1>4 DEF WayInv, HeldInv
<1>7. stage' # "failed" => ~IsItem(OutcomeOf(Done + 1).rec)
  <2>1. CASE MappingSkips
    <3>1. RequiredIsMissing(Mapping, held.rec)
      BY <2>1 DEF MappingSkips
    <3> QED BY <1>6, <3>1 DEF IsItem
  <2>2. CASE ProducerSkips
    <3>1. held.at = "produce" /\ Built(Unflatten(held.value)) = None
      BY <2>2 DEF ProducerSkips
    <3>2. held.value = Mapped(Mapping, held.rec)
      BY <1>3, <3>1 DEF WayInv, HeldInv
    <3> QED BY <1>6, <3>1, <3>2 DEF IsItem, ItemOf
  <2>3. CASE MappingRaises \/ WriterRaises
    BY <2>3 DEF MappingRaises, WriterRaises
  <2> QED BY <2>1, <2>2, <2>3
<1>8. OpenedInv' /\ ChunkInv'
  BY <1>1, <1>4, <1>5, <1>7, WayWithout
<1> QED BY <1>1, <1>2, <1>8 DEF HeldInv

\* The record under way is written.
LEMMA WayIsWritten ==
    ASSUME WayInv, WriteRecord
    PROVE  OpenedInv' /\ HeldInv' /\ ChunkInv'
<1> DEFINE chunk == [n |-> held.n, rec |-> held.rec, record |-> held.value,
                     text |-> ChunkOf(feed.writer, feed.config, held.value)]
<1>0. RunInv
  BY DEF WayInv
<1>1. /\ feed' = feed /\ names' = names /\ index' = index /\ stage' = stage /\ held' = Nothing
      /\ held.at = "write" /\ chunks' = Append(chunks, chunk)
      /\ ~WriteFails(feed.writer, feed.config, flags, held.value)
  BY DEF WriteRecord
<1>2. chunk.n = held.n /\ chunk.rec = held.rec /\ chunk.record = held.value
  OBVIOUS
<1> HIDE DEF chunk
<1>3. Nothing.at = "none" /\ Nothing' = Nothing
  BY DEF Nothing
<1>4. held # Nothing
  BY <1>1, <1>3
<1>5. /\ Done \in Nat /\ Done + 1 = index /\ held.n = Found[index].n
      /\ held.n \in Nat \ {0} /\ stage = "reading"
  <2>1. stage = "reading"
    BY <1>0, <1>4 DEF RunInv, InputInv
  <2> QED BY <1>0, <1>4, <2>1, UnderWay DEF HeldIs
<1>6. Done' = Done + 1
  BY <1>1, <1>3, <1>5 DEF Done
<1>7. /\ OutcomeOf(Done + 1).yields /\ held.rec = OutcomeOf(Done + 1).rec
      /\ ~RequiredIsMissing(Mapping, held.rec) /\ ItemOf(held.rec) # None
      /\ held.value = Projected(ItemOf(held.rec))
  BY <1>1, <1>4, <1>5 DEF WayInv, HeldInv
<1>8. IsOf(chunk, Done + 1)
  BY <1>2, <1>5, <1>7 DEF IsOf
<1>9. Projects(chunk)
  <2>1. feed.writer = "csv" => held.value.t = "list"
    BY <1>1 DEF WriteFails, RowFails
  <2> QED BY <1>2, <1>7, <2>1 DEF Projects, IsItem
<1>10. /\ DOMAIN chunks = 1..Len(chunks) /\ DOMAIN chunks' = 1..(Len(chunks) + 1) /\ Len(chunks) \in Nat
       /\ chunks'[Len(chunks) + 1] = chunk /\ \A i \in DOMAIN chunks : chunks'[i] = chunks[i]
  BY <1>0, <1>1, Appended DEF RunInv, OrderInv
<1>11. Body' = Body \cup {Len(chunks) + 1} /\ \A i \in Body : chunks'[i] = chunks[i]
  <2>1. \A i \in 1..(Len(chunks) + 1) : i \in DOMAIN chunks \/ i = Len(chunks) + 1
    BY <1>10
  <2>2. chunk.n # 0
    BY <1>2, <1>5
  <2>3. \A i \in DOMAIN chunks : i \in DOMAIN chunks'
    BY <1>10
  <2>4. Len(chunks) + 1 \in DOMAIN chunks'
    BY <1>10
  <2> QED BY <1>10, <2>1, <2>2, <2>3, <2>4 DEF Body
<1>12. /\ Found' = Found /\ (\A p : OutcomeOf(p)' = OutcomeOf(p))
       /\ Adapter' = Adapter /\ Constants' = Constants
       /\ (\A rec : IsItem(rec)' <=> IsItem(rec))
       /\ (\A c : Projects(c)' <=> Projects(c))
       /\ \A c, p : IsOf(c, p)' <=> IsOf(c, p)
  BY <1>1, SameFeed, SameOutcomes, SameItems, SameWay
<1>13. \A p \in 1..(Done + 1) : p \in 1..Done \/ p = Done + 1
  BY <1>5
<1>14. \A p \in 1..Done : p \in 1..(Done + 1)
  BY <1>5
<1>15. Done + 1 \in 1..(Done + 1)
  BY <1>5
<1>16. ChunkInv'
  <2>1. ASSUME NEW i \in Body' PROVE Projects(chunks'[i]) /\ \E p \in 1..(Done + 1) : IsOf(chunks'[i], p)
    <3>1. CASE i \in Body
      BY <1>11, <1>14, <3>1 DEF WayInv, ChunkInv
    <3>2. CASE i = Len(chunks) + 1
      BY <1>8, <1>9, <1>10, <1>15, <3>2
    <3> QED BY <1>11, <2>1, <3>1, <3>2
  <2>2. ASSUME NEW p \in 1..(Done + 1), OutcomeOf(p).yields, IsItem(OutcomeOf(p).rec)
        PROVE  \E i \in Body' : IsOf(chunks'[i], p)
    <3>1. CASE p \in 1..Done
      <4>1. PICK i \in Body : IsOf(chunks[i], p)
        BY <1>5, <2>2, <3>1 DEF WayInv, ChunkInv
      <4> QED BY <1>11, <4>1
    <3>2. CASE p = Done + 1
      BY <1>8, <1>10, <1>11, <3>2
    <3> QED BY <1>13, <2>2, <3>1, <3>2
  <2> QED BY <1>6, <1>12, <2>1, <2>2 DEF ChunkInv
<1>17. OpenedInv'
  BY <1>1, <1>12 DEF WayInv, OpenedInv
<1> QED BY <1>1, <1>3, <1>16, <1>17 DEF HeldInv

LEMMA WayInvNext == WayInv /\ [NextFeed]_feedVars => WayInv'
<1> SUFFICES ASSUME WayInv, [NextFeed]_feedVars PROVE WayInv'
  OBVIOUS
<1>1. RunInv'
  BY RunInvNext DEF WayInv
<1>2. OpenedInv' /\ HeldInv' /\ ChunkInv'
  <2>1. CASE UNCHANGED feedVars \/ EndOfFeed
    <3>1. /\ feed' = feed /\ names' = names /\ chunks' = chunks /\ index' = index /\ held' = held
          /\ (stage' = stage \/ (stage = "reading" /\ stage' = "ended"))
      BY <2>1 DEF feedVars, run, EndOfFeed
    <3>2. Done' = Done
      BY <3>1 DEF Done, Nothing
    <3>3. OutcomeOf(index)' = OutcomeOf(index)
      BY <3>1, SameOutcomes
    <3>4. HeldInv'
      BY <3>1, <3>3, SameItems DEF WayInv, HeldInv, Nothing
    <3> QED BY <3>1, <3>2, <3>4, WayStays
  <2> QED BY <1>1, <2>1, WayEarly, WayReads, WayOn, WayEnds, WayIsWritten DEF NextFeed
<1> QED BY <1>1, <1>2 DEF WayInv

\* How far each record has come, and what the chunks hold, in every state of a run.
THEOREM WayInvariant == FeedSpec => []WayInv
<1>1. InitFeed => WayInv
  <2> SUFFICES ASSUME InitFeed PROVE WayInv
    OBVIOUS
  <2>1. stage = "load" /\ held = Nothing /\ index = 0 /\ chunks = <<>>
    BY DEF InitFeed, InitBuild
  <2>2. Body = {} /\ Done = 0 /\ 1..0 = {}
    BY <2>1 DEF Body, Done
  <2> QED BY <2>1, <2>2, RunInvInit DEF WayInv, OpenedInv, HeldInv, ChunkInv
<1> QED BY <1>1, WayInvNext, PTL DEF FeedSpec

-----------------------------------------------------------------------------
(* The eager counterpart of a streaming adapter.                                         *)

Counterpart ==
    [streaming_csv |-> "csv", streaming_json |-> "json", streaming_jsonl |-> "jsonl"][Adapter]

EagerConstants ==
    IF Adapter = "streaming_json"
    THEN Dict(IF feed.input.shape = "under_items" THEN [items_path |-> S("items")] ELSE NoEntries)
    ELSE Constants

AsText == [feed.input EXCEPT !.type = "str"]

EagerFound == Elements(Counterpart, EagerConstants, AsText)

EagerNames ==
    IF Adapter \in Tabular THEN FieldNames("csv", EagerConstants, AsText) ELSE <<>>

EagerOutcome(p) == Outcome(Counterpart, EagerConstants, EagerNames, EagerFound[p], p - 1)

HereOutcome(p) == Outcome(Adapter, Constants, names, EagerFound[p], p - 1)

IsExcepted ==
    \/ feed.input.bom \/ Rereads \/ LeadsNowhere \/ feed.input.big
    \/ \E e \in ToSet(feed.input.elements) :
          IF Adapter \in Tabular THEN e.open /\ ~HasHeader(Constants)
          ELSE e.split \/ (e.deep /\ Adapter = "streaming_json")

\* An outcome in which the eager one says of the record what it makes of it.
SameFate(eager, here) ==
    /\ eager.yields = here.yields /\ eager.raises = here.raises
    /\ here.yields => eager.rec = AsEager(here.rec)

\* What the counterpart finds in the input as a text.
EagerAgrees ==
    /\ ~OpenFails(Counterpart, EagerConstants, AsText)
    /\ EagerFound = Found
    /\ \A p \in DOMAIN Found : SameFate(EagerOutcome(p), OutcomeOf(p))
    /\ \A p, q \in DOMAIN Found : p < q => Found[p].n < Found[q].n

LEMMA SameText ==
    ASSUME Fit
    PROVE  /\ AsText.type = "str" /\ AsText.shape = feed.input.shape /\ AsText.big = feed.input.big
           /\ AsText.bom = feed.input.bom /\ AsText.rewinds = feed.input.rewinds
           /\ AsText.elements = feed.input.elements
           /\ AsText = [type |-> AsText.type, shape |-> AsText.shape, big |-> AsText.big,
                        bom |-> AsText.bom, rewinds |-> AsText.rewinds, elements |-> AsText.elements]
<1> DEFINE input == feed.input
<1>1. input = [type |-> input.type, shape |-> input.shape, big |-> input.big, bom |-> input.bom,
               rewinds |-> input.rewinds, elements |-> input.elements]
  BY DEF Fit, IsInput
<1> HIDE DEF input
<1>2. AsText = [input EXCEPT !.type = "str"]
  BY DEF AsText, input
<1>3. AsText = [type |-> "str", shape |-> input.shape, big |-> input.big, bom |-> input.bom,
                rewinds |-> input.rewinds, elements |-> input.elements]
  BY <1>1, <1>2
<1> QED BY <1>3 DEF input

\* csv and streaming_csv join the same lines, and take the same row for the columns.
LEMMA EagerRows ==
    ASSUME Fit, Adapter = "streaming_csv", ~IsExcepted,
           ~OpenFails(Adapter, Constants, feed.input),
           names = FieldNames(Adapter, Constants, feed.input)
    PROVE  EagerAgrees
<1> DEFINE input == feed.input
           given == input.elements
           P     == Numbered(given)
<1>1. /\ Counterpart = "csv" /\ EagerConstants = Constants
      /\ "csv" \in Tabular /\ Adapter \in Tabular /\ "csv" \notin Lines /\ Adapter \notin Lines
  BY DEF Counterpart, EagerConstants, Tabular, Lines
<1>2. IsInput(Adapter, Constants, input)
  BY DEF Fit
<1>0. Taken(Adapter, input) = given /\ Taken("csv", AsText) = given
  BY SameText DEF Taken, IsList
<1>3. IsInput("csv", Constants, AsText)
  <2>1. /\ AsText.elements = given /\ AsText.shape = input.shape
        /\ AsText = [type |-> AsText.type, shape |-> AsText.shape, big |-> AsText.big,
                     bom |-> AsText.bom, rewinds |-> AsText.rewinds, elements |-> AsText.elements]
    BY SameText
  <2>2. \A i \in DOMAIN given : IsLine(given[i])
    BY <1>0, <1>1, <1>2 DEF IsInput
  <2>3. input.shape \in {"array", "object", "scalar", "under_items"} /\ IsSequence(given)
    BY <1>0, <1>2 DEF IsInput
  <2> HIDE DEF given
  <2> QED BY <1>0, <1>1, <2>1, <2>2, <2>3 DEF IsInput
<1>4. Physical(Adapter, input) = P /\ Physical("csv", AsText) = P
  <2>1. ~input.bom
    BY DEF IsExcepted
  <2> QED BY <1>0, <2>1 DEF Physical
<1>5. Len(given) \in Nat /\ DOMAIN given = 1..Len(given) /\ \A i \in DOMAIN given : given[i] \in ToSet(given)
  BY <1>0, <1>2 DEF IsInput, IsSequence, ToSet
<1>6. (~HasHeader(Constants) /\ given # <<>>) => ~given[1].open
  <2>1. \A e \in ToSet(given) : ~(e.open /\ ~HasHeader(Constants))
    BY <1>1 DEF IsExcepted
  <2>2. given # <<>> => 1 \in DOMAIN given
    BY <1>5
  <2> QED BY <1>5, <2>1, <2>2
<1>7. /\ given # <<>> => (P # <<>> /\ (~given[1].open => ReaderRows(P)[1] = P[1]))
      /\ given = <<>> => P = <<>>
  <2> DEFINE lines == Physical("csv", AsText)
             rows == ReaderRows(lines)
             plain == ReaderRows(Numbered(Taken("csv", AsText)))
  <2>1. Taken("csv", AsText) = given
    BY <1>0
  <2>2. \E C :
           /\ lines \in Seq(Row(C)) /\ rows \in Seq(Row(C)) /\ plain \in Seq(Row(C))
           /\ AllAlike(rows, plain)
           /\ Increasing(rows)
           /\ lines = <<>> <=> Taken("csv", AsText) = <<>>
           /\ lines = <<>> => rows = <<>>
           /\ (lines # <<>> /\ ~Taken("csv", AsText)[1].open) =>
                 /\ rows # <<>> /\ rows[1].n = 1 /\ rows[1] = lines[1]
                 /\ ReaderRows(<<lines[1]>> \o lines) = <<lines[1]>> \o rows
    BY <1>1, <1>3, ReadRows
  <2> HIDE DEF rows, plain, lines, P, given
  <2>3. /\ P = <<>> <=> given = <<>>
        /\ (P # <<>> /\ ~given[1].open) => rows[1] = P[1]
    BY <1>4, <2>1, <2>2 DEF lines
  <2> QED BY <1>4, <2>3 DEF rows, lines
<1> HIDE DEF P, given
<1>8. given # <<>> => FirstRow("csv", Constants, AsText) = FirstRow(Adapter, Constants, input)
  <2>1. FirstRow("csv", Constants, AsText) = ReaderRows(P)[1]
    BY <1>4 DEF FirstRow
  <2>2. FirstRow(Adapter, Constants, input) = IF ~HasHeader(Constants) THEN P[1] ELSE ReaderRows(P)[1]
    BY <1>4 DEF FirstRow
  <2> QED BY <1>6, <1>7, <2>1, <2>2
<1>9. EagerNames = names
  <2>1. Taken("csv", AsText) = given /\ Taken(Adapter, input) = given
    BY <1>0
  <2>2. CASE given = <<>>
    <3>1. FieldNames("csv", Constants, AsText) = <<>> /\ FieldNames(Adapter, Constants, input) = <<>>
      BY <2>1, <2>2 DEF FieldNames
    <3> QED BY <1>1, <3>1 DEF EagerNames
  <2>3. CASE given # <<>>
    <3>1. FieldNames("csv", Constants, AsText) = FieldNames(Adapter, Constants, input)
      BY <1>8, <2>1, <2>3 DEF FieldNames
    <3> QED BY <1>1, <3>1 DEF EagerNames
  <2> QED BY <2>2, <2>3
<1>10. EagerFound = Found
  <2>1. ~(~HasHeader(Constants) /\ input.rewinds)
    BY DEF IsExcepted, Rereads
  <2>2. InputRows(Adapter, Constants, input) = ReaderRows(P)
    BY <1>4, <2>1 DEF InputRows
  <2>3. InputRows("csv", Constants, AsText) = ReaderRows(P)
    BY <1>4 DEF InputRows
  <2> QED BY <1>1, <2>2, <2>3 DEF EagerFound, Found, Elements
<1>11. \A p \in DOMAIN Found : SameFate(EagerOutcome(p), OutcomeOf(p))
  BY <1>1, <1>9, <1>10 DEF EagerOutcome, OutcomeOf, Outcome, SameFate, AsEager
<1>12. ~OpenFails("csv", Constants, AsText)
  <2>1. ~WrongType("csv", AsText)
    BY SameText DEF WrongType, Streaming
  <2>2. ~AsText.big
    BY SameText DEF IsExcepted
  <2>3. ~HeaderFails(Adapter, Constants, input)
    BY <1>1 DEF OpenFails
  <2>4. ~HeaderFails("csv", Constants, AsText)
    <3>1. Taken("csv", AsText) = given /\ Taken(Adapter, input) = given
      BY <1>0
    <3>2. CASE given = <<>>
      BY <3>1, <3>2 DEF HeaderFails
    <3>3. CASE given # <<>>
      BY <1>8, <2>3, <3>1, <3>3 DEF HeaderFails
    <3> QED BY <3>2, <3>3
  <2> QED BY <2>1, <2>2, <2>4 DEF OpenFails
<1>13. \A p, q \in DOMAIN Found : p < q => Found[p].n < Found[q].n
  <2>1. Once(EagerFound, DataRows("csv", Constants, AsText))
    BY <1>1, <1>3, TabularFinds DEF EagerFound
  <2> QED BY <1>10, <2>1 DEF Once, Increasing
<1> QED BY <1>1, <1>10, <1>11, <1>12, <1>13 DEF EagerAgrees

\* What is numbered keeps the rest of its fields.
LEMMA NumberedFields ==
    ASSUME NEW n, NEW e, IsJson(e)
    PROVE  At(n, e).split = e.split /\ At(n, e).deep = e.deep
<1>1. e = [blank |-> e.blank, long |-> e.long, deep |-> e.deep, json |-> e.json,
           split |-> e.split, rec |-> e.rec]
  BY DEF IsJson
<1>2. "split" \in DOMAIN e /\ "deep" \in DOMAIN e
  BY <1>1
<1> QED BY <1>2 DEF At

LEMMA EagerJsonLines ==
    ASSUME Fit, Adapter = "streaming_jsonl", ~IsExcepted, names = <<>>
    PROVE  EagerAgrees
<1> DEFINE given == feed.input.elements
           N == Numbered(given)
<1>1. /\ Counterpart = "jsonl" /\ EagerConstants = Constants /\ Adapter \notin Tabular
      /\ "jsonl" \in Lines /\ Adapter \in Lines /\ "jsonl" \notin Tabular
      /\ AsText.elements = given
  BY SameText DEF Counterpart, EagerConstants, Tabular, Lines
<1>2. EagerNames = names
  BY <1>1 DEF EagerNames
<1>3. /\ DOMAIN given = 1..Len(given) /\ Len(given) \in Nat
      /\ N = [i \in DOMAIN given |-> At(i, given[i])] /\ \A i \in DOMAIN given : N[i].n = i
  BY <1>1, NumberedElements
<1>4. \A i \in DOMAIN given : ~N[i].split
  <2> SUFFICES ASSUME NEW i \in DOMAIN given PROVE ~N[i].split
    OBVIOUS
  <2>1. given[i] \in ToSet(given) /\ IsJson(given[i])
    BY <1>1, TakenIs DEF Fit, IsInput, ToSet
  <2>2. ~given[i].split
    BY <1>1, <2>1 DEF IsExcepted
  <2>3. N[i] = At(i, given[i])
    BY <1>3
  <2> HIDE DEF N, given
  <2>4. At(i, given[i]).split = given[i].split
    BY <2>1, NumberedFields
  <2> QED BY <2>2, <2>3, <2>4
<1>5. JsonLines("streaming_jsonl", feed.input) = N
  BY DEF JsonLines
<1>6. JsonLines("jsonl", AsText) = N
  <2>1. JsonLines("jsonl", AsText) = [i \in DOMAIN N |-> IF N[i].split THEN [N[i] EXCEPT !.json = "broken"]
                                                         ELSE N[i]]
    BY <1>1 DEF JsonLines
  <2>2. DOMAIN N = DOMAIN given /\ N = [i \in DOMAIN N |-> N[i]]
    <3> HIDE DEF given
    <3> QED BY <1>3
  <2> HIDE DEF N, given
  <2> QED BY <1>4, <2>1, <2>2
<1>7. EagerFound = Found /\ Found = N
  BY <1>1, <1>5, <1>6 DEF EagerFound, Found, Elements
<1>8. \A p \in DOMAIN Found : SameFate(EagerOutcome(p), OutcomeOf(p))
  BY <1>1, <1>2, <1>7 DEF EagerOutcome, OutcomeOf, Outcome, SameFate, AsEager
<1>9. ~OpenFails("jsonl", Constants, AsText)
  <2>1. ~WrongType("jsonl", AsText)
    BY SameText DEF WrongType, Streaming
  <2> QED BY <1>1, <2>1 DEF OpenFails
<1>10. \A p, q \in DOMAIN Found : p < q => Found[p].n < Found[q].n
  BY <1>3, <1>7
<1> QED BY <1>1, <1>7, <1>8, <1>9, <1>10 DEF EagerAgrees

LEMMA EagerItems ==
    ASSUME Fit, Adapter = "streaming_json", ~IsExcepted, names = <<>>,
           \A p \in DOMAIN Found : ~OutcomeOf(p).raises
    PROVE  EagerAgrees
<1> DEFINE input == feed.input
           given == input.elements
           N     == Numbered(given)
           path  == IF input.shape = "under_items" THEN [items_path |-> S("items")] ELSE NoEntries
<1>1. /\ Counterpart = "json" /\ EagerConstants = Dict(path) /\ Adapter \notin Tabular /\ Adapter \notin Lines
      /\ "json" \notin Lines /\ "json" \notin Tabular
      /\ AsText.elements = given /\ AsText.shape = input.shape
  BY SameText DEF Counterpart, EagerConstants, Tabular, Lines
<1>2. EagerNames = names
  BY <1>1 DEF EagerNames
<1>3. /\ DOMAIN given = 1..Len(given) /\ Len(given) \in Nat
      /\ N = [i \in DOMAIN given |-> At(i, given[i])]
      /\ \A i \in DOMAIN given : N[i].n = i /\ N[i].json = given[i].json
  BY <1>1, NumberedElements
<1>4. <<input.shape, Get(Constants, "items_path", S("item"))>> \in
          {<<"under_items", S("items.item")>>, <<"array", S("item")>>, <<"object", S("empty")>>}
  BY DEF IsExcepted, LeadsNowhere
<1>5. input.shape \in {"under_items", "array", "object"}
  BY <1>4
<1>6. Found = N
  <2>1. Get(Constants, "items_path", S("item")) =
            IF input.shape = "under_items" THEN S("items.item")
            ELSE IF input.shape = "array" THEN S("item") ELSE S("empty")
    BY <1>4
  <2>2. StreamedItems(Constants, input) = N
    BY <2>1 DEF StreamedItems
  <2> QED BY <1>1, <2>2 DEF Found, Elements
<1>7. /\ input.shape = "under_items" => Get(Dict(path), "items_path", None) = S("items")
      /\ input.shape # "under_items" => Get(Dict(path), "items_path", None) = None
  BY DEF Get, Has, IsMapping, Dict, NoEntries
<1>8. Truthy(S("items")) /\ ~Truthy(None)
  <2>1. /\ S("items").t = "str" /\ S("items").s = "items" /\ S("empty").s = "empty"
        /\ Bool(FALSE).t = "bool" /\ None.t = "none" /\ Integer("0").t = "int"
        /\ List(<<>>).t = "list" /\ Dict(NoEntries).t = "dict"
    BY DEF S, Str, Bool, None, Integer, List, Dict
  <2> QED BY <2>1 DEF Truthy
<1>9. EagerFound = Found
  <2>1. PayloadItems(Dict(path), AsText) = N
    BY <1>1, <1>7, <1>8 DEF PayloadItems
  <2> QED BY <1>1, <1>6, <2>1 DEF EagerFound, Elements
<1>10. \A p \in DOMAIN Found : OutcomeOf(p) = StreamedOutcome(Found[p]) /\ EagerOutcome(p) = PayloadOutcome(Found[p])
  BY <1>1, <1>9 DEF EagerOutcome, OutcomeOf, Outcome
<1>11. \A p \in DOMAIN Found : Found[p].json # "broken"
  <2>1. \A e : e.json = "broken" => StreamedOutcome(e).raises
    BY DEF StreamedOutcome, Raises
  <2> QED BY <1>10, <2>1
<1>12. \A p \in DOMAIN Found : SameFate(EagerOutcome(p), OutcomeOf(p))
  <2> SUFFICES ASSUME NEW p \in DOMAIN Found PROVE SameFate(EagerOutcome(p), OutcomeOf(p))
    OBVIOUS
  <2>1. EagerOutcome(p) = PayloadOutcome(Found[p]) /\ OutcomeOf(p) = ItemOutcome(Found[p])
    BY <1>10, <1>11 DEF StreamedOutcome
  <2>2. CASE Found[p].json = "other"
    <3>1. EagerOutcome(p) = Skips("not a mapping") /\ OutcomeOf(p) = Skips("not a mapping")
      BY <2>1, <2>2 DEF ItemOutcome, PayloadOutcome
    <3>2. ~Skips("not a mapping").yields
      BY DEF Skips
    <3> QED BY <3>1, <3>2 DEF SameFate
  <2>3. CASE Found[p].json # "other"
    <3> DEFINE rec == Found[p].rec
    <3>1. EagerOutcome(p) = Yields(Loaded(rec), "none") /\ OutcomeOf(p) = Yields(rec, "none")
      BY <2>1, <2>3 DEF ItemOutcome, PayloadOutcome
    <3>2. AsEager(rec) = Loaded(rec)
      BY DEF AsEager
    <3> HIDE DEF rec
    <3>3. \A r : /\ Yields(r, "none").yields = TRUE /\ Yields(r, "none").raises = FALSE
                 /\ Yields(r, "none").rec = r
      BY DEF Yields
    <3> QED BY <3>1, <3>2, <3>3 DEF SameFate
  <2> QED BY <2>2, <2>3
<1>13. ~OpenFails("json", Dict(path), AsText)
  <2>1. ~WrongType("json", AsText) /\ ~AsText.big
    BY SameText DEF WrongType, Streaming, IsExcepted
  <2>2. \A i \in DOMAIN given : ~(given[i].json = "broken" \/ given[i].deep)
    <3> SUFFICES ASSUME NEW i \in DOMAIN given PROVE given[i].json # "broken" /\ ~given[i].deep
      OBVIOUS
    <3>1. given[i] \in ToSet(given)
      BY DEF ToSet
    <3>2. ~given[i].deep
      BY <1>1, <3>1 DEF IsExcepted
    <3>3. i \in DOMAIN Found /\ Found[i].json = given[i].json
      BY <1>3, <1>6
    <3> QED BY <1>11, <3>2, <3>3
  <2>3. ~PayloadFails(Dict(path), AsText)
    <3> HIDE DEF path, given
    <3>1. CASE input.shape = "under_items"
      BY <1>1, <1>7, <1>8, <2>1, <2>2, <3>1 DEF PayloadFails
    <3>2. CASE input.shape # "under_items"
      BY <1>1, <1>5, <1>7, <1>8, <2>1, <2>2, <3>2 DEF PayloadFails
    <3> QED BY <3>1, <3>2
  <2> QED BY <1>1, <2>1, <2>3 DEF OpenFails
<1>14. \A p, q \in DOMAIN Found : p < q => Found[p].n < Found[q].n
  <2> HIDE DEF N, given
  <2>1. DOMAIN Found = DOMAIN given /\ DOMAIN given \subseteq Nat
    BY <1>3, <1>6
  <2> QED BY <1>3, <1>6, <2>1
<1> QED BY <1>1, <1>9, <1>12, <1>13, <1>14 DEF EagerAgrees

\* What a streaming adapter finds is what its eager counterpart finds, with the exceptions
\* that are named there, and a run that ends has an item of each record in both, with
\* floats where streaming_json keeps Decimals.
THEOREM StreamingAndEagerAgree == FeedSpec => []StreamingAgreesWithEager
<1>1. WayInv => StreamingAgreesWithEager
  <2> SUFFICES ASSUME WayInv, stage = "ended", Adapter \in Streaming, ~IsExcepted
               PROVE  /\ ~OpenFails(Counterpart, EagerConstants, AsText)
                      /\ \A p \in DOMAIN EagerFound : ~EagerOutcome(p).raises
                      /\ \A p, q \in DOMAIN EagerFound : p < q => EagerFound[p].n < EagerFound[q].n
                      /\ \A i, j \in Body : i < j => chunks[i].n < chunks[j].n
                      /\ {[n |-> chunks[i].n, rec |-> AsEager(chunks[i].rec)] : i \in Body}
                             = {[n |-> EagerFound[p].n, rec |-> EagerOutcome(p).rec] :
                                   p \in {p \in DOMAIN EagerFound : EagerOutcome(p).yields /\ IsItem(HereOutcome(p).rec)}}
    BY DEF StreamingAgreesWithEager, Counterpart, EagerConstants, AsText, EagerFound, EagerNames, EagerOutcome,
           HereOutcome, IsExcepted
  <2>1. RunInv /\ OpenedInv /\ ChunkInv /\ held = Nothing
    BY DEF WayInv, RunInv, InputInv
  <2>2. /\ Fit /\ index = Len(Found) /\ Done = Len(Found) /\ DOMAIN Found = 1..Len(Found)
        /\ \A p \in DOMAIN Found : ~OutcomeOf(p).raises
    <3>1. Fit /\ DOMAIN Found = 1..Len(Found) /\ Done = index
      BY <2>1, UnderWay DEF RunInv, InputInv
    <3>2. index = Len(Found) /\ \A p \in 1..index : ~OutcomeOf(p).raises
      BY <2>1 DEF RunInv, ReadInv
    <3> QED BY <3>1, <3>2
  <2>3. EagerAgrees
    <3>1. Adapter \notin Tabular => names = <<>>
      BY <2>1 DEF OpenedInv
    <3>2. CASE Adapter = "streaming_csv"
      <4>1. Adapter \in Tabular
        BY <3>2 DEF Tabular
      <4> QED BY <2>1, <2>2, <3>2, <4>1, EagerRows DEF OpenedInv
    <3>3. CASE Adapter = "streaming_json"
      BY <2>2, <3>1, <3>3, EagerItems DEF Tabular
    <3>4. CASE Adapter = "streaming_jsonl"
      BY <2>2, <3>1, <3>4, EagerJsonLines DEF Tabular
    <3> QED BY <3>2, <3>3, <3>4 DEF Streaming
  <2>4. /\ ~OpenFails(Counterpart, EagerConstants, AsText) /\ EagerFound = Found
        /\ \A p \in DOMAIN Found : SameFate(EagerOutcome(p), OutcomeOf(p))
        /\ \A p, q \in DOMAIN Found : p < q => Found[p].n < Found[q].n
    BY <2>3 DEF EagerAgrees
  <2>5. ASSUME NEW i \in Body, NEW j \in Body, i < j PROVE chunks[i].n < chunks[j].n
    <3>1. chunks[i].n <= chunks[j].n
      BY <2>1, <2>5 DEF RunInv, OrderInv, Body
    <3>2. chunks[i].n # chunks[j].n
      <4> SUFFICES ASSUME chunks[i].n = chunks[j].n PROVE FALSE
        OBVIOUS
      <4> DEFINE n == chunks[i].n
                 X == ChunkSet(chunks, n)
                 W == WarnSet(log, n)
                 F == FateSet(Done, n)
      <4>1. PICK p \in 1..Done : IsOf(chunks[i], p)
        BY <2>1 DEF ChunkInv
      <4>2. n \in Nat \ {0}
        BY <2>1, <2>2, <4>1, UnderWay DEF IsOf, FindsAll
      <4>3. Cardinality(X) + Cardinality(W) <= Cardinality(F)
        BY <2>1, <4>2 DEF RunInv, CountInv
      <4>4. /\ Cardinality(X) \in Nat /\ Cardinality(W) \in Nat /\ IsFiniteSet(X)
        <5>1. Cardinality(X) \in Nat /\ Cardinality(W) \in Nat
          BY <2>1, ChunkAdded, WarningAdded DEF RunInv, OrderInv
        <5>2. IsFiniteSet(DOMAIN chunks)
          <6>1. DOMAIN chunks = 1..Len(chunks) /\ Len(chunks) \in Nat
            BY <2>1 DEF RunInv, OrderInv, IsSequence
          <6> QED BY <6>1, FS_Interval
        <5>3. X \subseteq DOMAIN chunks
          BY DEF ChunkSet
        <5> QED BY <5>1, <5>2, <5>3, FS_Subset
      <4>5. F \subseteq {p}
        <5> SUFFICES ASSUME NEW q \in F PROVE q = p
          OBVIOUS
        <5>1. q \in 1..Done /\ Found[q].n = Found[p].n
          BY <4>1 DEF FateSet, IsOf
        <5>2. Done \in Nat /\ p \in DOMAIN Found /\ q \in DOMAIN Found /\ p \in Nat /\ q \in Nat
          BY <2>1, <2>2, <5>1, UnderWay
        <5>3. \A a, b \in DOMAIN Found : a < b => Found[a].n < Found[b].n
          BY <2>4
        <5>4. Found[p].n \in Nat
          BY <2>1, <5>2, UnderWay DEF FindsAll
        <5> QED BY <5>1, <5>2, <5>3, <5>4
      <4>6. Cardinality(F) <= 1
        <5>1. IsFiniteSet({p}) /\ Cardinality({p}) = 1
          BY FS_Singleton
        <5> QED BY <4>5, <5>1, FS_Subset
      <4>7. i \in X /\ j \in X /\ i # j
        <5>1. i \in DOMAIN chunks /\ j \in DOMAIN chunks
          BY DEF Body
        <5>2. DOMAIN chunks = 1..Len(chunks)
          BY <2>1 DEF RunInv, OrderInv, IsSequence
        <5>3. i # j
          BY <2>5, <5>1, <5>2
        <5> QED BY <5>1, <5>3 DEF ChunkSet
      <4> HIDE DEF X, W, F, n
      <4>8. Cardinality({i, j}) <= Cardinality(X) /\ {i, j} \subseteq X
        BY <4>4, <4>7, FS_Subset
      <4>9. Cardinality({i, j}) = 2
        <5>1. Cardinality({i}) = 1 /\ IsFiniteSet({i})
          BY FS_Singleton
        <5>2. {i, j} = {i} \cup {j} /\ j \notin {i}
          BY <4>7
        <5> QED BY <5>1, <5>2, FS_AddElement
      <4>10. Cardinality(F) \in Nat
        <5>1. IsFiniteSet({p})
          BY FS_Singleton
        <5> QED BY <4>5, <5>1, FS_Subset, FS_CardinalityType
      <4> QED BY <4>3, <4>4, <4>6, <4>8, <4>9, <4>10
    <3>3. chunks[i].n \in Nat /\ chunks[j].n \in Nat
      <4>1. \A k \in Body : chunks[k].n \in Nat
        BY <2>1, <2>2, UnderWay DEF ChunkInv, IsOf, FindsAll
      <4> QED BY <4>1
    <3> QED BY <3>1, <3>2, <3>3
  <2>6. {[n |-> chunks[i].n, rec |-> AsEager(chunks[i].rec)] : i \in Body}
            = {[n |-> Found[p].n, rec |-> AsEager(OutcomeOf(p).rec)] :
                  p \in {p \in DOMAIN Found : OutcomeOf(p).yields /\ IsItem(OutcomeOf(p).rec)}}
    <3>1. \A i \in Body : \E p \in DOMAIN Found :
             /\ OutcomeOf(p).yields /\ IsItem(OutcomeOf(p).rec)
             /\ chunks[i].n = Found[p].n /\ chunks[i].rec = OutcomeOf(p).rec
      BY <2>1, <2>2 DEF ChunkInv, Projects, IsOf
    <3>2. \A p \in DOMAIN Found : (OutcomeOf(p).yields /\ IsItem(OutcomeOf(p).rec)) =>
             \E i \in Body : chunks[i].n = Found[p].n /\ chunks[i].rec = OutcomeOf(p).rec
      BY <2>1, <2>2 DEF ChunkInv, IsOf
    <3> QED BY <3>1, <3>2, Zenon
  <2>7. {[n |-> Found[p].n, rec |-> AsEager(OutcomeOf(p).rec)] :
            p \in {p \in DOMAIN Found : OutcomeOf(p).yields /\ IsItem(OutcomeOf(p).rec)}}
        = {[n |-> EagerFound[p].n, rec |-> EagerOutcome(p).rec] :
              p \in {p \in DOMAIN EagerFound : EagerOutcome(p).yields /\ IsItem(HereOutcome(p).rec)}}
    <3>1. \A p \in DOMAIN Found :
             /\ EagerOutcome(p).yields = OutcomeOf(p).yields
             /\ OutcomeOf(p).yields => EagerOutcome(p).rec = AsEager(OutcomeOf(p).rec)
      BY <2>4 DEF SameFate
    <3>2. EagerFound = Found /\ \A p : HereOutcome(p) = OutcomeOf(p)
      BY <2>4 DEF HereOutcome, OutcomeOf
    <3> QED BY <3>1, <3>2, Zenon
  <2> QED BY <2>2, <2>4, <2>5, <2>6, <2>7 DEF SameFate
<1> QED BY <1>1, WayInvariant, PTL

-----------------------------------------------------------------------------
(* The folds over a path, a mapping file and an output, whatever their values are.       *)

NextPairs(pairs, entry) ==
    IF \E i \in DOMAIN pairs : pairs[i].source = SourceOf(entry)
    THEN [i \in DOMAIN pairs |-> IF pairs[i].source = SourceOf(entry)
                                 THEN [pairs[i] EXCEPT !.target = TargetOf(entry)] ELSE pairs[i]]
    ELSE Append(pairs, [source |-> SourceOf(entry), target |-> TargetOf(entry)])

NextOutput(rec, output, pair) ==
    IF pair.source \notin DOMAIN rec.m THEN output
    ELSE IF \E i \in DOMAIN output : output[i].target = pair.target
    THEN [i \in DOMAIN output |-> IF output[i].target = pair.target
                                  THEN [output[i] EXCEPT !.value = rec.m[pair.source]] ELSE output[i]]
    ELSE Append(output, [target |-> pair.target, value |-> rec.m[pair.source]])

Outward(d, segments, k, inner) == With(Level(d, SubSeq(segments, 1, k)), segments[k + 1], inner)

StepOf(kind, arg, a, x) ==
    IF kind = "walk" THEN Enter(a, x)
    ELSE IF kind = "level" THEN Get(a, x, Missing)
    ELSE IF kind = "nest" THEN Outward(arg[1], arg[2], x, a)
    ELSE IF kind = "unflatten" THEN Nest(a, x.target, x.value)
    ELSE IF kind = "pairs" THEN NextPairs(a, x) ELSE NextOutput(arg, a, x)

\* Only FoldRight begins at the end.
Pick(kind, s) == IF kind = "nest" THEN Min(s) ELSE Max(s)

Iterates(f, kind, arg, base, seq) ==
    f = [s \in SUBSET (DOMAIN seq) |->
            IF s = {} THEN base ELSE StepOf(kind, arg, f[s \ {Pick(kind, s)}], seq[Pick(kind, s)])]

LEMMA PickIs ==
    ASSUME NEW kind, NEW n \in Nat, NEW s \in SUBSET (1..n), s # {}
    PROVE  Pick(kind, s) \in s
BY MaxIs, MinIs DEF Pick

LEMMA IterationExists ==
    ASSUME NEW kind, NEW arg, NEW base, NEW n \in Nat, NEW seq, DOMAIN seq = 1..n
    PROVE  \E f : Iterates(f, kind, arg, base, seq)
<1> DEFINE Step(f, s) == IF s = {} THEN base
                         ELSE StepOf(kind, arg, f[s \ {Pick(kind, s)}], seq[Pick(kind, s)])
           Small(m) == {s \in SUBSET (1..n) : Cardinality(s) <= m}
           Has_(m) == \E f : \A s \in Small(m) : f[s] = Step(f, s)
           N == {m \in Nat : Has_(m)}
<1>1. ASSUME NEW s \in SUBSET (1..n)
      PROVE  IsFiniteSet(s) /\ Cardinality(s) \in Nat /\ Cardinality(s) <= n
  <2>1. IsFiniteSet(1..n) /\ Cardinality(1..n) = n
    BY FS_Interval
  <2>2. IsFiniteSet(s) /\ Cardinality(s) <= Cardinality(1..n)
    BY <2>1, FS_Subset
  <2> QED BY <2>1, <2>2, FS_CardinalityType
<1>2. ASSUME NEW m \in Nat, NEW s \in Small(m + 1), s # {}
      PROVE  s \ {Pick(kind, s)} \in Small(m) /\ s \ {Pick(kind, s)} \in Small(m + 1)
  <2>1. s \in SUBSET (1..n) /\ Cardinality(s) <= m + 1
    OBVIOUS
  <2>2. Pick(kind, s) \in s
    BY <1>2, <2>1, PickIs
  <2>3. Cardinality(s \ {Pick(kind, s)}) = Cardinality(s) - 1
    BY <1>1, <2>1, <2>2, FS_RemoveElement
  <2>4. Cardinality(s \ {Pick(kind, s)}) <= m
    BY <1>1, <2>1, <2>3
  <2>5. s \ {Pick(kind, s)} \in SUBSET (1..n) /\ Cardinality(s \ {Pick(kind, s)}) \in Nat
    BY <1>1, <2>1
  <2> QED BY <2>4, <2>5
<1>3. 0 \in N
  <2>1. ASSUME NEW s \in Small(0) PROVE s = {}
    <3>1. IsFiniteSet(s) /\ Cardinality(s) = 0
      BY <1>1
    <3> QED BY <3>1, FS_EmptySet
  <2> DEFINE f == [s \in Small(0) |-> base]
  <2>2. \A s \in Small(0) : f[s] = Step(f, s)
    <3> HIDE DEF Small
    <3> QED BY <2>1
  <2>3. Has_(0)
    <3> HIDE DEF f, Small, Step
    <3> QED BY <2>2
  <2> HIDE DEF Has_
  <2> QED BY <2>3
<1>4. ASSUME NEW m \in Nat, m \in N PROVE m + 1 \in N
  <2>1. Has_(m)
    <3> HIDE DEF Has_
    <3> QED BY <1>4
  <2>2. PICK f : \A s \in Small(m) : f[s] = Step(f, s)
    <3> HIDE DEF Small, Step
    <3> QED BY <2>1
  <2> DEFINE h == [s \in Small(m + 1) |-> Step(f, s)]
  <2>3. ASSUME NEW s \in Small(m + 1) PROVE h[s] = Step(h, s)
    <3>1. h[s] = Step(f, s)
      <4> HIDE DEF Small, Step
      <4> QED OBVIOUS
    <3>2. CASE s = {}
      <4> HIDE DEF h, Small
      <4> QED BY <3>1, <3>2
    <3>3. CASE s # {}
      <4> DEFINE rest == s \ {Pick(kind, s)}
      <4>1. rest \in Small(m) /\ rest \in Small(m + 1)
        BY <1>2, <3>3
      <4>2. h[rest] = Step(f, rest) /\ f[rest] = Step(f, rest)
        <5> HIDE DEF Small, Step, rest
        <5> QED BY <2>2, <4>1
      <4>3. h[rest] = f[rest]
        <5> HIDE DEF h, Step, rest
        <5> QED BY <4>2
      <4>4. /\ Step(f, s) = StepOf(kind, arg, f[rest], seq[Pick(kind, s)])
            /\ Step(h, s) = StepOf(kind, arg, h[rest], seq[Pick(kind, s)])
        <5> HIDE DEF h, Small
        <5> QED BY <3>3
      <4> HIDE DEF h, Step, rest
      <4> QED BY <3>1, <4>3, <4>4
    <3> QED BY <3>2, <3>3
  <2>4. Has_(m + 1)
    <3> HIDE DEF h, Small, Step
    <3> QED BY <2>3
  <2> HIDE DEF Has_
  <2> QED BY <2>4
<1> HIDE DEF N
<1>5. n \in N
  BY <1>3, <1>4, SetInduction
<1>6. Has_(n)
  <2> HIDE DEF Has_
  <2> QED BY <1>5 DEF N
<1>7. PICK f : \A s \in Small(n) : f[s] = Step(f, s)
  <2> HIDE DEF Small, Step
  <2> QED BY <1>6
<1>8. \A s \in SUBSET (1..n) : s \in Small(n)
  BY <1>1
<1> DEFINE h == [s \in SUBSET (DOMAIN seq) |-> Step(f, s)]
<1>9. ASSUME NEW s \in SUBSET (1..n) PROVE Step(f, s) = Step(h, s)
  <2>1. CASE s = {}
    BY <2>1
  <2>2. CASE s # {}
    <3> DEFINE rest == s \ {Pick(kind, s)}
    <3>1. rest \in SUBSET (1..n)
      OBVIOUS
    <3>2. h[rest] = f[rest]
      <4> HIDE DEF Step, Small, rest
      <4> QED BY <1>7, <1>8, <3>1
    <3>3. /\ Step(f, s) = StepOf(kind, arg, f[rest], seq[Pick(kind, s)])
          /\ Step(h, s) = StepOf(kind, arg, h[rest], seq[Pick(kind, s)])
      <4> HIDE DEF h
      <4> QED BY <2>2
    <3> HIDE DEF h, Step, rest
    <3> QED BY <3>2, <3>3
  <2> QED BY <2>1, <2>2
<1>10. h = [s \in SUBSET (DOMAIN seq) |-> Step(h, s)]
  <2>1. \A s \in SUBSET (DOMAIN seq) : Step(f, s) = Step(h, s)
    <3> HIDE DEF Step, h
    <3> QED BY <1>9
  <2>2. h = [s \in SUBSET (DOMAIN seq) |-> Step(f, s)]
    OBVIOUS
  <2> HIDE DEF Step, h
  <2> QED BY <2>1, <2>2
<1>11. Iterates(h, kind, arg, base, seq)
  <2> HIDE DEF h
  <2> QED BY <1>10 DEF Iterates
<1> HIDE DEF h
<1> QED BY <1>11

\* What is there after each element, from the first on, and from the last on, backwards.
Onward(c, n, kind, arg, base, seq, after) ==
    /\ c[0] = base /\ c[n] = after
    /\ \A k \in 0..(n - 1) : c[k + 1] = StepOf(kind, arg, c[k], seq[k + 1])

Back(c, n, arg, base, seq, after) ==
    /\ c[n] = base /\ c[0] = after
    /\ \A k \in 0..(n - 1) : c[k] = StepOf("nest", arg, c[k + 1], seq[k + 1])

LEMMA IterationForward ==
    ASSUME NEW kind, kind # "nest", NEW arg, NEW base, NEW n \in Nat, NEW seq, DOMAIN seq = 1..n,
           NEW f, Iterates(f, kind, arg, base, seq)
    PROVE  \E c : Onward(c, n, kind, arg, base, seq, f[DOMAIN seq])
<1> DEFINE c == [k \in 0..n |-> f[1..k]]
<1>1. \A s \in SUBSET (1..n) :
        f[s] = IF s = {} THEN base ELSE StepOf(kind, arg, f[s \ {Max(s)}], seq[Max(s)])
  <2>1. f = [s \in SUBSET (1..n) |->
              IF s = {} THEN base ELSE StepOf(kind, arg, f[s \ {Max(s)}], seq[Max(s)])]
    BY DEF Iterates, Pick
  <2> QED BY <2>1
<1>2. c[0] = base
  <2>1. 1..0 = {} /\ 0 \in 0..n /\ {} \in SUBSET (1..n)
    OBVIOUS
  <2> QED BY <1>1, <2>1
<1>3. c[n] = f[DOMAIN seq]
  OBVIOUS
<1>4. ASSUME NEW k \in 0..(n - 1) PROVE c[k + 1] = StepOf(kind, arg, c[k], seq[k + 1])
  <2>1. k \in Nat /\ k + 1 \in Nat /\ k \in 0..n /\ k + 1 \in 0..n /\ k + 1 <= n
    OBVIOUS
  <2>2. (1..(k + 1)) \in SUBSET (1..n) /\ (1..(k + 1)) # {} /\ k + 1 \in 1..(k + 1)
    <3>1. \A i \in 1..(k + 1) : i \in 1..n
      BY <2>1
    <3>2. k + 1 \in 1..(k + 1)
      BY <2>1
    <3> QED BY <3>1, <3>2
  <2>3. Max(1..(k + 1)) = k + 1
    <3>1. Max(1..(k + 1)) \in 1..(k + 1) /\ \A i \in 1..(k + 1) : i <= Max(1..(k + 1))
      BY <2>2, MaxIs
    <3> HIDE DEF Max
    <3> QED BY <2>1, <2>2, <3>1
  <2>4. (1..(k + 1)) \ {k + 1} = 1..k
    BY <2>1
  <2> HIDE DEF Max
  <2>5. f[1..(k + 1)] = StepOf(kind, arg, f[1..k], seq[k + 1])
    BY <1>1, <2>2, <2>3, <2>4
  <2> QED BY <2>1, <2>5
<1> HIDE DEF c
<1> QED BY <1>2, <1>3, <1>4 DEF Onward

LEMMA IterationBackward ==
    ASSUME NEW arg, NEW base, NEW n \in Nat, NEW seq, DOMAIN seq = 1..n,
           NEW f, Iterates(f, "nest", arg, base, seq)
    PROVE  \E c : Back(c, n, arg, base, seq, f[DOMAIN seq])
<1> DEFINE c == [k \in 0..n |-> f[(k + 1)..n]]
<1>1. \A s \in SUBSET (1..n) :
        f[s] = IF s = {} THEN base ELSE StepOf("nest", arg, f[s \ {Min(s)}], seq[Min(s)])
  <2>1. f = [s \in SUBSET (1..n) |->
              IF s = {} THEN base ELSE StepOf("nest", arg, f[s \ {Min(s)}], seq[Min(s)])]
    BY DEF Iterates, Pick
  <2> QED BY <2>1
<1>2. c[n] = base
  <2>1. (n + 1)..n = {} /\ n \in 0..n /\ {} \in SUBSET (1..n)
    OBVIOUS
  <2> QED BY <1>1, <2>1
<1>3. c[0] = f[DOMAIN seq]
  OBVIOUS
<1>4. ASSUME NEW k \in 0..(n - 1) PROVE c[k] = StepOf("nest", arg, c[k + 1], seq[k + 1])
  <2>1. k \in Nat /\ k + 1 \in Nat /\ k \in 0..n /\ k + 1 \in 0..n /\ k + 1 <= n
    OBVIOUS
  <2>2. ((k + 1)..n) \in SUBSET (1..n) /\ ((k + 1)..n) # {} /\ k + 1 \in (k + 1)..n
    <3>1. \A i \in (k + 1)..n : i \in 1..n
      BY <2>1
    <3>2. k + 1 \in (k + 1)..n
      BY <2>1
    <3> QED BY <3>1, <3>2
  <2>3. Min((k + 1)..n) = k + 1
    <3>1. Min((k + 1)..n) \in (k + 1)..n /\ \A i \in (k + 1)..n : Min((k + 1)..n) <= i
      BY <2>2, MinIs
    <3> HIDE DEF Min
    <3> QED BY <2>1, <2>2, <3>1
  <2>4. ((k + 1)..n) \ {k + 1} = (k + 2)..n
    BY <2>1
  <2> HIDE DEF Min
  <2>5. f[(k + 1)..n] = StepOf("nest", arg, f[(k + 2)..n], seq[k + 1])
    BY <1>1, <2>2, <2>3, <2>4
  <2>6. c[k + 1] = f[(k + 2)..n]
    <3>1. (k + 1) + 1 = k + 2
      BY <2>1
    <3> QED BY <2>1, <3>1
  <2> QED BY <2>1, <2>5, <2>6
<1> HIDE DEF c
<1> QED BY <1>2, <1>3, <1>4 DEF Back

\* Walk enters one segment after the other.
Walks(c, n, v, segs) ==
    /\ c[0] = v /\ c[n] = Walk(v, segs)
    /\ \A k \in 0..(n - 1) : c[k + 1] = Enter(c[k], segs[k + 1])

LEMMA WalkGoes ==
    ASSUME NEW v, NEW segs, NEW n \in Nat, DOMAIN segs = 1..n
    PROVE  \E c : Walks(c, n, v, segs)
<1> DEFINE Step(f, s) == IF s = {} THEN v ELSE Enter(f[s \ {Max(s)}], segs[Max(s)])
           walked == CHOOSE f : f = [s \in SUBSET (DOMAIN segs) |-> Step(f, s)]
           Of(f, s) == IF s = {} THEN v
                       ELSE StepOf("walk", 0, f[s \ {Pick("walk", s)}], segs[Pick("walk", s)])
<1>1. Walk(v, segs) = walked[DOMAIN segs]
  BY DEF Walk, FoldLeft, MapThenFoldSet
<1>2. \A f, s : Of(f, s) = Step(f, s)
  BY DEF StepOf, Pick
<1>0. DOMAIN segs = 1..n
  OBVIOUS
<1>3. PICK f : f = [s \in SUBSET (DOMAIN segs) |-> Of(f, s)]
  <2>1. \E f : Iterates(f, "walk", 0, v, segs)
    BY <1>0, IterationExists
  <2> QED BY <2>1 DEF Iterates
<1> HIDE DEF Step, Of
<1>4. f = [s \in SUBSET (DOMAIN segs) |-> Step(f, s)]
  BY <1>2, <1>3
<1>5. walked = [s \in SUBSET (DOMAIN segs) |-> Step(walked, s)]
  BY <1>4
<1> HIDE DEF walked
<1>6. walked = [s \in SUBSET (DOMAIN segs) |-> Of(walked, s)]
  BY <1>2, <1>5
<1>7. Iterates(walked, "walk", 0, v, segs)
  BY <1>6 DEF Iterates, Of
<1>8. PICK c : Onward(c, n, "walk", 0, v, segs, walked[DOMAIN segs])
  <2>1. "walk" # "nest"
    OBVIOUS
  <2> QED BY <1>0, <1>7, <2>1, IterationForward
<1> QED BY <1>1, <1>8 DEF Onward, StepOf, Walks

\* Level goes to the mapping that a path leads to.
Levels(c, n, d, segs) ==
    /\ c[0] = d /\ Level(d, segs) = IF IsMapping(c[n]) THEN c[n] ELSE Dict(NoEntries)
    /\ \A k \in 0..(n - 1) : c[k + 1] = Get(c[k], segs[k + 1], Missing)

LEMMA LevelIs ==
    ASSUME NEW d, NEW segs, NEW n \in Nat, DOMAIN segs = 1..n
    PROVE  \E c : Levels(c, n, d, segs)
<1> DEFINE node == FoldLeft(LAMBDA v, segment : Get(v, segment, Missing), d, segs)
           Step(f, s) == IF s = {} THEN d ELSE Get(f[s \ {Max(s)}], segs[Max(s)], Missing)
           walked == CHOOSE f : f = [s \in SUBSET (DOMAIN segs) |-> Step(f, s)]
           Of(f, s) == IF s = {} THEN d
                       ELSE StepOf("level", 0, f[s \ {Pick("level", s)}], segs[Pick("level", s)])
<1>1. node = walked[DOMAIN segs]
  BY DEF FoldLeft, MapThenFoldSet
<1>2. \A f, s : Of(f, s) = Step(f, s)
  BY DEF StepOf, Pick
<1>0. DOMAIN segs = 1..n
  OBVIOUS
<1>3. PICK f : f = [s \in SUBSET (DOMAIN segs) |-> Of(f, s)]
  <2>1. \E f : Iterates(f, "level", 0, d, segs)
    BY <1>0, IterationExists
  <2> QED BY <2>1 DEF Iterates
<1> HIDE DEF Step, Of
<1>4. f = [s \in SUBSET (DOMAIN segs) |-> Step(f, s)]
  BY <1>2, <1>3
<1>5. walked = [s \in SUBSET (DOMAIN segs) |-> Step(walked, s)]
  BY <1>4
<1> HIDE DEF walked
<1>6. walked = [s \in SUBSET (DOMAIN segs) |-> Of(walked, s)]
  BY <1>2, <1>5
<1>7. Iterates(walked, "level", 0, d, segs)
  BY <1>6 DEF Iterates, Of
<1>8. PICK c : Onward(c, n, "level", 0, d, segs, walked[DOMAIN segs])
  <2>1. "level" # "nest"
    OBVIOUS
  <2> QED BY <1>0, <1>7, <2>1, IterationForward
<1>9. Level(d, segs) = IF IsMapping(node) THEN node ELSE Dict(NoEntries)
  BY DEF Level
<1> HIDE DEF node
<1> QED BY <1>1, <1>8, <1>9 DEF Onward, StepOf, Levels

\* Unflatten makes one assignment after the other.
Unflattens(c, n, output) ==
    /\ c[0] = Dict(NoEntries) /\ c[n] = Unflatten(output)
    /\ \A k \in 0..(n - 1) : c[k + 1] = Nest(c[k], output[k + 1].target, output[k + 1].value)

LEMMA UnflattenIs ==
    ASSUME NEW output, NEW n \in Nat, DOMAIN output = 1..n
    PROVE  \E c : Unflattens(c, n, output)
<1> DEFINE Step(f, s) == IF s = {} THEN Dict(NoEntries) ELSE Nest(f[s \ {Max(s)}], output[Max(s)].target, output[Max(s)].value)
           walked == CHOOSE f : f = [s \in SUBSET (DOMAIN output) |-> Step(f, s)]
           Of(f, s) == IF s = {} THEN Dict(NoEntries)
                       ELSE StepOf("unflatten", 0, f[s \ {Pick("unflatten", s)}], output[Pick("unflatten", s)])
<1>1. Unflatten(output) = walked[DOMAIN output]
  BY DEF Unflatten, FoldLeft, MapThenFoldSet
<1>2. \A f, s : Of(f, s) = Step(f, s)
  BY DEF StepOf, Pick
<1>0. DOMAIN output = 1..n
  OBVIOUS
<1>3. PICK f : f = [s \in SUBSET (DOMAIN output) |-> Of(f, s)]
  <2>1. \E f : Iterates(f, "unflatten", 0, Dict(NoEntries), output)
    BY <1>0, IterationExists
  <2> QED BY <2>1 DEF Iterates
<1> HIDE DEF Step, Of
<1>4. f = [s \in SUBSET (DOMAIN output) |-> Step(f, s)]
  BY <1>2, <1>3
<1>5. walked = [s \in SUBSET (DOMAIN output) |-> Step(walked, s)]
  BY <1>4
<1> HIDE DEF walked
<1>6. walked = [s \in SUBSET (DOMAIN output) |-> Of(walked, s)]
  BY <1>2, <1>5
<1>7. Iterates(walked, "unflatten", 0, Dict(NoEntries), output)
  BY <1>6 DEF Iterates, Of
<1>8. PICK c : Onward(c, n, "unflatten", 0, Dict(NoEntries), output, walked[DOMAIN output])
  <2>1. "unflatten" # "nest"
    OBVIOUS
  <2> QED BY <1>0, <1>7, <2>1, IterationForward
<1> QED BY <1>1, <1>8 DEF Onward, StepOf, Unflattens

\* SourceToTarget takes the entries of the mapping file one after the other.
PairsUp(c, n, file) ==
    /\ c[0] = <<>> /\ c[n] = SourceToTarget(file)
    /\ \A k \in 0..(n - 1) : c[k + 1] = NextPairs(c[k], Entries(file)[k + 1])

LEMMA SourceToTargetIs ==
    ASSUME NEW file, NEW n \in Nat, DOMAIN Entries(file) = 1..n
    PROVE  \E c : PairsUp(c, n, file)
<1> DEFINE Step(f, s) == IF s = {} THEN <<>> ELSE NextPairs(f[s \ {Max(s)}], Entries(file)[Max(s)])
           walked == CHOOSE f : f = [s \in SUBSET (DOMAIN Entries(file)) |-> Step(f, s)]
           Of(f, s) == IF s = {} THEN <<>>
                       ELSE StepOf("pairs", 0, f[s \ {Pick("pairs", s)}], Entries(file)[Pick("pairs", s)])
<1>1. SourceToTarget(file) = walked[DOMAIN Entries(file)]
  BY DEF SourceToTarget, NextPairs, FoldLeft, MapThenFoldSet
<1>2. \A f, s : Of(f, s) = Step(f, s)
  BY DEF StepOf, Pick
<1>0. DOMAIN Entries(file) = 1..n
  OBVIOUS
<1>3. PICK f : f = [s \in SUBSET (DOMAIN Entries(file)) |-> Of(f, s)]
  <2>1. \E f : Iterates(f, "pairs", 0, <<>>, Entries(file))
    BY <1>0, IterationExists
  <2> QED BY <2>1 DEF Iterates
<1> HIDE DEF Step, Of
<1>4. f = [s \in SUBSET (DOMAIN Entries(file)) |-> Step(f, s)]
  BY <1>2, <1>3
<1>5. walked = [s \in SUBSET (DOMAIN Entries(file)) |-> Step(walked, s)]
  BY <1>4
<1> HIDE DEF walked
<1>6. walked = [s \in SUBSET (DOMAIN Entries(file)) |-> Of(walked, s)]
  BY <1>2, <1>5
<1>7. Iterates(walked, "pairs", 0, <<>>, Entries(file))
  BY <1>6 DEF Iterates, Of
<1>8. PICK c : Onward(c, n, "pairs", 0, <<>>, Entries(file), walked[DOMAIN Entries(file)])
  <2>1. "pairs" # "nest"
    OBVIOUS
  <2> QED BY <1>0, <1>7, <2>1, IterationForward
<1> QED BY <1>1, <1>8 DEF Onward, StepOf, PairsUp

\* Mapped takes its pairs one after the other.
Outputs(c, n, file, rec) ==
    /\ c[0] = <<>> /\ c[n] = Mapped(file, rec)
    /\ \A k \in 0..(n - 1) : c[k + 1] = NextOutput(rec, c[k], SourceToTarget(file)[k + 1])

LEMMA MappedIs ==
    ASSUME NEW file, NEW rec, NEW n \in Nat, DOMAIN SourceToTarget(file) = 1..n
    PROVE  \E c : Outputs(c, n, file, rec)
<1> DEFINE Step(f, s) == IF s = {} THEN <<>> ELSE NextOutput(rec, f[s \ {Max(s)}], SourceToTarget(file)[Max(s)])
           walked == CHOOSE f : f = [s \in SUBSET (DOMAIN SourceToTarget(file)) |-> Step(f, s)]
           Of(f, s) == IF s = {} THEN <<>>
                       ELSE StepOf("output", rec, f[s \ {Pick("output", s)}], SourceToTarget(file)[Pick("output", s)])
<1>1. Mapped(file, rec) = walked[DOMAIN SourceToTarget(file)]
  BY DEF Mapped, NextOutput, FoldLeft, MapThenFoldSet
<1>2. \A f, s : Of(f, s) = Step(f, s)
  BY DEF StepOf, Pick
<1>0. DOMAIN SourceToTarget(file) = 1..n
  OBVIOUS
<1>3. PICK f : f = [s \in SUBSET (DOMAIN SourceToTarget(file)) |-> Of(f, s)]
  <2>1. \E f : Iterates(f, "output", rec, <<>>, SourceToTarget(file))
    BY <1>0, IterationExists
  <2> QED BY <2>1 DEF Iterates
<1> HIDE DEF Step, Of
<1>4. f = [s \in SUBSET (DOMAIN SourceToTarget(file)) |-> Step(f, s)]
  BY <1>2, <1>3
<1>5. walked = [s \in SUBSET (DOMAIN SourceToTarget(file)) |-> Step(walked, s)]
  BY <1>4
<1> HIDE DEF walked
<1>6. walked = [s \in SUBSET (DOMAIN SourceToTarget(file)) |-> Of(walked, s)]
  BY <1>2, <1>5
<1>7. Iterates(walked, "output", rec, <<>>, SourceToTarget(file))
  BY <1>6 DEF Iterates, Of
<1>8. PICK c : Onward(c, n, "output", rec, <<>>, SourceToTarget(file), walked[DOMAIN SourceToTarget(file)])
  <2>1. "output" # "nest"
    OBVIOUS
  <2> QED BY <1>0, <1>7, <2>1, IterationForward
<1> QED BY <1>1, <1>8 DEF Onward, StepOf, Outputs

\* Nest goes from the innermost mapping out.
Nests(c, n, d, segs, v) ==
    /\ c[n] = v /\ c[0] = Nest(d, segs, v)
    /\ \A k \in 0..(n - 1) : c[k] = Outward(d, segs, k, c[k + 1])

LEMMA NestIs ==
    ASSUME NEW d, NEW segs, NEW v, NEW n \in Nat, DOMAIN segs = 1..n
    PROVE  \E c : Nests(c, n, d, segs, v)
<1> DEFINE depths == [k \in DOMAIN segs |-> k - 1]
           Step(f, s) == IF s = {} THEN v ELSE Outward(d, segs, depths[Min(s)], f[s \ {Min(s)}])
           walked == CHOOSE f : f = [s \in SUBSET (DOMAIN depths) |-> Step(f, s)]
           Of(f, s) == IF s = {} THEN v
                       ELSE StepOf("nest", <<d, segs>>, f[s \ {Pick("nest", s)}], depths[Pick("nest", s)])
<1>1. Nest(d, segs, v) = walked[DOMAIN depths]
  BY DEF Nest, Outward, FoldRight, MapThenFoldSet
<1>2. \A f, s : Of(f, s) = Step(f, s)
  BY DEF StepOf, Pick
<1>0. DOMAIN depths = 1..n
  OBVIOUS
<1> HIDE DEF depths
<1>3. PICK f : f = [s \in SUBSET (DOMAIN depths) |-> Of(f, s)]
  <2>1. \E f : Iterates(f, "nest", <<d, segs>>, v, depths)
    BY <1>0, IterationExists
  <2> QED BY <2>1 DEF Iterates
<1> HIDE DEF Step, Of
<1>4. f = [s \in SUBSET (DOMAIN depths) |-> Step(f, s)]
  BY <1>2, <1>3
<1>5. walked = [s \in SUBSET (DOMAIN depths) |-> Step(walked, s)]
  BY <1>4
<1> HIDE DEF walked
<1>6. walked = [s \in SUBSET (DOMAIN depths) |-> Of(walked, s)]
  BY <1>2, <1>5
<1>7. Iterates(walked, "nest", <<d, segs>>, v, depths)
  BY <1>6 DEF Iterates, Of
<1>8. PICK c : Back(c, n, <<d, segs>>, v, depths, walked[DOMAIN depths])
  BY <1>0, <1>7, IterationBackward
<1>9. \A k \in 0..(n - 1) : k + 1 \in 1..n /\ depths[k + 1] = k
  BY DEF depths
<1> QED BY <1>1, <1>8, <1>9 DEF Back, StepOf, Outward, Nests

-----------------------------------------------------------------------------
(* What stays at the end of a path while other paths are assigned.                       *)

IsTarget(p) == IsSequence(p) /\ p # <<>>

\* A path leads through mappings from d to the value v.
Through(c, d, path, v) ==
    /\ c[0] = d /\ c[Len(path)] = v
    /\ \A k \in 0..(Len(path) - 1) :
          IsMapping(c[k]) /\ path[k + 1] \in DOMAIN c[k].m /\ c[k + 1] = c[k].m[path[k + 1]]

LeadsTo(d, path, v) == \E c : Through(c, d, path, v)

LEMMA TargetIs ==
    ASSUME NEW p, IsTarget(p)
    PROVE  Len(p) \in Nat /\ Len(p) > 0 /\ DOMAIN p = 1..Len(p)
BY DEF IsTarget, IsSequence

LEMMA WithIs ==
    ASSUME NEW d, NEW key, NEW v
    PROVE  /\ IsMapping(With(d, key, v)) /\ key \in DOMAIN With(d, key, v).m
           /\ With(d, key, v).m[key] = v
           /\ \A other \in DOMAIN d.m : other # key =>
                 other \in DOMAIN With(d, key, v).m /\ With(d, key, v).m[other] = d.m[other]
BY DEF With, Dict, IsMapping

\* Walk comes to the end.
LEMMA WalkReaches ==
    ASSUME NEW d, NEW path, IsTarget(path), NEW v, LeadsTo(d, path, v)
    PROVE  Walk(d, path) = v
<1> DEFINE n == Len(path)
<1>1. n \in Nat /\ DOMAIN path = 1..n
  BY TargetIs
<1>2. PICK c : Through(c, d, path, v)
  BY DEF LeadsTo
<1> HIDE DEF n
<1>3. PICK w : Walks(w, n, d, path)
  BY <1>1, WalkGoes
<1> DEFINE N == {k \in Nat : k <= n => w[k] = c[k]}
<1>4. 0 \in N
  BY <1>2, <1>3 DEF Through, Walks
<1>5. ASSUME NEW k \in Nat, k \in N PROVE k + 1 \in N
  <2> SUFFICES ASSUME k + 1 <= n PROVE w[k + 1] = c[k + 1]
    OBVIOUS
  <2>1. k \in 0..(n - 1) /\ k <= n
    BY <1>1
  <2>2. w[k] = c[k]
    BY <1>5, <2>1
  <2>3. IsMapping(c[k]) /\ path[k + 1] \in DOMAIN c[k].m /\ c[k + 1] = c[k].m[path[k + 1]]
    BY <1>2, <2>1 DEF Through, n
  <2>4. w[k + 1] = Enter(w[k], path[k + 1])
    BY <1>3, <2>1 DEF Walks
  <2> QED BY <2>2, <2>3, <2>4 DEF Enter, Has
<1> HIDE DEF N
<1>6. n \in N
  BY <1>1, <1>4, <1>5, SetInduction
<1>7. w[n] = c[n]
  BY <1>1, <1>6 DEF N
<1>8. c[n] = v
  BY <1>2 DEF Through, n
<1> QED BY <1>3, <1>7, <1>8 DEF Walks

\* Where two paths part.
LEMMA PathsPart ==
    ASSUME NEW p, IsTarget(p), NEW q, IsTarget(q), ~Clashes(p, q)
    PROVE  \E j \in Nat : /\ j < Len(p) /\ j < Len(q) /\ p[j + 1] # q[j + 1]
                          /\ \A i \in 1..j : p[i] = q[i]
<1> DEFINE a == Len(p)
           b == Len(q)
           Parts == \E j \in Nat : j < a /\ j < b /\ p[j + 1] # q[j + 1] /\ \A i \in 1..j : p[i] = q[i]
           N == {k \in Nat : (k <= a /\ k <= b) => Parts \/ \A i \in 1..k : p[i] = q[i]}
<1>1. a \in Nat /\ b \in Nat /\ DOMAIN p = 1..a /\ DOMAIN q = 1..b
  BY TargetIs
<1>2. p \in Seq(ToSet(p)) /\ q \in Seq(ToSet(q))
  BY DEF IsTarget, IsSequence
<1> HIDE DEF Parts
<1>3. 0 \in N
  OBVIOUS
<1>4. ASSUME NEW k \in Nat, k \in N PROVE k + 1 \in N
  <2> SUFFICES ASSUME k + 1 <= a, k + 1 <= b, ~Parts PROVE \A i \in 1..(k + 1) : p[i] = q[i]
    OBVIOUS
  <2>1. k <= a /\ k <= b /\ k < a /\ k < b
    BY <1>1
  <2>2. \A i \in 1..k : p[i] = q[i]
    BY <1>4, <2>1
  <2>3. p[k + 1] = q[k + 1]
    BY <2>1, <2>2 DEF Parts
  <2> QED BY <2>2, <2>3
<1> HIDE DEF N
<1>5. a \in N /\ b \in N
  BY <1>1, <1>3, <1>4, SetInduction
<1>6. ASSUME a <= b, \A i \in 1..a : p[i] = q[i] PROVE Clashes(p, q)
  <2> HIDE DEF a, b
  <2>1. SubSeq(p, 1, a) = [i \in 1..a |-> p[i]] /\ SubSeq(q, 1, a) = [i \in 1..a |-> q[i]]
    BY <1>1, <1>2, <1>6 DEF a, b
  <2>2. SubSeq(p, 1, a) = SubSeq(q, 1, a)
    BY <1>6, <2>1
  <2> QED BY <1>6, <2>2 DEF Clashes, IsPrefix, a, b
<1>7. ASSUME b <= a, \A i \in 1..b : p[i] = q[i] PROVE Clashes(p, q)
  <2> HIDE DEF a, b
  <2>1. SubSeq(p, 1, b) = [i \in 1..b |-> p[i]] /\ SubSeq(q, 1, b) = [i \in 1..b |-> q[i]]
    BY <1>1, <1>2, <1>7 DEF a, b
  <2>2. SubSeq(p, 1, b) = SubSeq(q, 1, b)
    BY <1>7, <2>1
  <2> QED BY <1>7, <2>2 DEF Clashes, IsPrefix, a, b
<1>8. a <= b \/ b <= a
  BY <1>1
<1>9. a <= a /\ b <= b
  BY <1>1
<1>10. Parts
  <2> HIDE DEF a, b
  <2> QED BY <1>5, <1>6, <1>7, <1>8, <1>9 DEF N
<1> QED BY <1>10 DEF Parts

\* A path that runs along another one comes to the same level.
LEMMA LevelAlong ==
    ASSUME NEW c, NEW d, NEW path, IsTarget(path), NEW v, Through(c, d, path, v),
           NEW segs, IsTarget(segs), NEW j \in Nat, j < Len(path), j < Len(segs),
           \A i \in 1..j : segs[i] = path[i]
    PROVE  Level(d, SubSeq(segs, 1, j)) = c[j]
<1> DEFINE front == SubSeq(segs, 1, j)
<1>1. /\ Len(path) \in Nat /\ DOMAIN path = 1..Len(path)
      /\ Len(segs) \in Nat /\ DOMAIN segs = 1..Len(segs) /\ segs \in Seq(ToSet(segs))
  BY TargetIs DEF IsTarget, IsSequence
<1>2. DOMAIN front = 1..j /\ \A i \in 1..j : front[i] = segs[i]
  BY <1>1
<1> HIDE DEF front
<1>3. PICK w : Levels(w, j, d, front)
  BY <1>2, LevelIs
<1> DEFINE N == {k \in Nat : k <= j => w[k] = c[k]}
<1>4. 0 \in N
  BY <1>3 DEF Through, Levels
<1>5. ASSUME NEW k \in Nat, k \in N PROVE k + 1 \in N
  <2> SUFFICES ASSUME k + 1 <= j PROVE w[k + 1] = c[k + 1]
    OBVIOUS
  <2>1. k \in 0..(j - 1) /\ k <= j /\ k \in 0..(Len(path) - 1) /\ k + 1 \in 1..j
    BY <1>1
  <2>2. w[k] = c[k] /\ front[k + 1] = path[k + 1]
    BY <1>2, <1>5, <2>1
  <2>3. IsMapping(c[k]) /\ path[k + 1] \in DOMAIN c[k].m /\ c[k + 1] = c[k].m[path[k + 1]]
    BY <2>1 DEF Through
  <2>4. w[k + 1] = Get(w[k], front[k + 1], Missing)
    BY <1>3, <2>1 DEF Levels
  <2> QED BY <2>2, <2>3, <2>4 DEF Get, Has
<1> HIDE DEF N
<1>6. j \in N
  BY <1>4, <1>5, SetInduction
<1>7. w[j] = c[j]
  BY <1>6 DEF N
<1>8. IsMapping(c[j])
  <2>1. j \in 0..(Len(path) - 1)
    BY <1>1
  <2> QED BY <2>1 DEF Through
<1>9. Level(d, front) = c[j]
  BY <1>3, <1>7, <1>8 DEF Levels
<1> QED BY <1>9 DEF front

\* An assignment leads to what it assigns.
LEMMA NestReaches ==
    ASSUME NEW d, NEW segs, IsTarget(segs), NEW v
    PROVE  LeadsTo(Nest(d, segs, v), segs, v)
<1>1. Len(segs) \in Nat /\ DOMAIN segs = 1..Len(segs)
  BY TargetIs
<1>2. PICK c : Nests(c, Len(segs), d, segs, v)
  BY <1>1, NestIs
<1>3. \A k \in 0..(Len(segs) - 1) :
        IsMapping(c[k]) /\ segs[k + 1] \in DOMAIN c[k].m /\ c[k + 1] = c[k].m[segs[k + 1]]
  BY <1>2, WithIs DEF Outward, Nests
<1>4. Through(c, Nest(d, segs, v), segs, v)
  BY <1>2, <1>3 DEF Through, Nests
<1> QED BY <1>4 DEF LeadsTo

\* And leaves alone what another path leads to.
LEMMA NestKeeps ==
    ASSUME NEW d, NEW segs, IsTarget(segs), NEW v, NEW path, IsTarget(path), ~Clashes(segs, path),
           NEW x, LeadsTo(d, path, x)
    PROVE  LeadsTo(Nest(d, segs, v), path, x)
<1>1. /\ Len(segs) \in Nat /\ DOMAIN segs = 1..Len(segs)
      /\ Len(path) \in Nat /\ DOMAIN path = 1..Len(path)
  BY TargetIs
<1>2. PICK c : Nests(c, Len(segs), d, segs, v)
  BY <1>1, NestIs
<1>3. PICK g : Through(g, d, path, x)
  BY DEF LeadsTo
<1>4. PICK j \in Nat : /\ j < Len(segs) /\ j < Len(path) /\ segs[j + 1] # path[j + 1]
                       /\ \A i \in 1..j : segs[i] = path[i]
  BY PathsPart
<1>5. Level(d, SubSeq(segs, 1, j)) = g[j]
  BY <1>3, <1>4, LevelAlong
<1> DEFINE e == [k \in 0..Len(path) |-> IF k <= j THEN c[k] ELSE g[k]]
<1>6. e[0] = Nest(d, segs, v) /\ e[Len(path)] = x
  BY <1>1, <1>2, <1>3, <1>4 DEF Through, Nests
<1>7. ASSUME NEW k \in 0..(Len(path) - 1)
      PROVE  IsMapping(e[k]) /\ path[k + 1] \in DOMAIN e[k].m /\ e[k + 1] = e[k].m[path[k + 1]]
  <2>1. k \in Nat /\ k + 1 \in Nat /\ k \in 0..Len(path) /\ k + 1 \in 0..Len(path)
    BY <1>1
  <2>2. IsMapping(g[k]) /\ path[k + 1] \in DOMAIN g[k].m /\ g[k + 1] = g[k].m[path[k + 1]]
    BY <1>3 DEF Through
  <2>3. CASE k < j
    <3>1. e[k] = c[k] /\ e[k + 1] = c[k + 1] /\ k \in 0..(Len(segs) - 1) /\ k + 1 \in 1..j
      BY <1>1, <1>4, <2>1, <2>3
    <3>2. segs[k + 1] = path[k + 1] /\ c[k] = Outward(d, segs, k, c[k + 1])
      BY <1>2, <1>4, <3>1 DEF Nests
    <3> HIDE DEF e
    <3> QED BY <3>1, <3>2, WithIs DEF Outward
  <2>4. CASE k = j
    <3>1. e[k] = c[k] /\ e[k + 1] = g[k + 1] /\ k \in 0..(Len(segs) - 1)
      BY <1>1, <1>4, <2>1, <2>4
    <3>2. segs[k + 1] # path[k + 1] /\ c[k] = Outward(d, segs, k, c[k + 1])
      BY <1>2, <1>4, <2>4, <3>1 DEF Nests
    <3>3. c[k] = With(g[k], segs[k + 1], c[k + 1])
      BY <1>5, <2>4, <3>2 DEF Outward
    <3> HIDE DEF e
    <3> QED BY <2>2, <3>1, <3>2, <3>3, WithIs
  <2>5. CASE k > j
    <3>1. e[k] = g[k] /\ e[k + 1] = g[k + 1]
      BY <1>1, <1>4, <2>1, <2>5
    <3> HIDE DEF e
    <3> QED BY <2>2, <3>1
  <2> QED BY <1>4, <2>1, <2>3, <2>4, <2>5
<1> HIDE DEF e
<1>8. Through(e, Nest(d, segs, v), path, x)
  BY <1>6, <1>7 DEF Through
<1> QED BY <1>8 DEF LeadsTo

\* Assignments whose target is T assign x, and the others' targets do not clash with T.
Assigns(output, T, x) ==
    \A i \in DOMAIN output :
        /\ IsTarget(output[i].target)
        /\ \/ output[i].target = T /\ output[i].value = x
           \/ ~Clashes(output[i].target, T)

LEMMA UnflattenReaches ==
    ASSUME NEW output, NEW n \in Nat, DOMAIN output = 1..n, NEW T, IsTarget(T), NEW x,
           Assigns(output, T, x), NEW a \in 1..n, output[a].target = T, output[a].value = x
    PROVE  LeadsTo(Unflatten(output), T, x)
<1>1. PICK c : Unflattens(c, n, output)
  BY UnflattenIs
<1> DEFINE N == {k \in Nat : (k <= n /\ a <= k) => LeadsTo(c[k], T, x)}
<1>2. 0 \in N
  OBVIOUS
<1>3. ASSUME NEW k \in Nat, k \in N PROVE k + 1 \in N
  <2> SUFFICES ASSUME k + 1 <= n, a <= k + 1 PROVE LeadsTo(c[k + 1], T, x)
    OBVIOUS
  <2> DEFINE target == output[k + 1].target
             value  == output[k + 1].value
  <2>1. k + 1 \in 1..n /\ k \in 0..(n - 1) /\ k <= n
    OBVIOUS
  <2>2. c[k + 1] = Nest(c[k], target, value)
    BY <1>1, <2>1 DEF Unflattens
  <2>3. IsTarget(target) /\ ((target = T /\ value = x) \/ ~Clashes(target, T))
    BY <2>1 DEF Assigns
  <2>4. k + 1 = a => target = T /\ value = x
    OBVIOUS
  <2>5. k + 1 # a => LeadsTo(c[k], T, x)
    BY <1>3, <2>1
  <2> HIDE DEF target, value
  <2>6. CASE target = T /\ value = x
    BY <2>2, <2>3, <2>6, NestReaches
  <2>7. CASE ~(target = T /\ value = x)
    <3>1. LeadsTo(c[k], T, x) /\ ~Clashes(target, T)
      BY <2>3, <2>4, <2>5, <2>7
    <3> QED BY <2>2, <2>3, <3>1, NestKeeps
  <2> QED BY <2>6, <2>7
<1> HIDE DEF N
<1>4. n \in N
  BY <1>2, <1>3, SetInduction
<1>5. LeadsTo(c[n], T, x)
  BY <1>4 DEF N
<1> QED BY <1>1, <1>5 DEF Unflattens

-----------------------------------------------------------------------------
(* The pairs of a mapping file, and the outputs they make of a record.                   *)

PairOf(entry) == [source |-> SourceOf(entry), target |-> TargetOf(entry)]

PairsOf(file) == {PairOf(Entries(file)[j]) : j \in DOMAIN Entries(file)}

\* No other entry has the source of entry i, or a target that clashes with its.
Apart(file, i) ==
    \A j \in DOMAIN Entries(file) \ {i} :
        /\ SourceOf(Entries(file)[j]) # SourceOf(Entries(file)[i])
        /\ ~Clashes(TargetOf(Entries(file)[j]), TargetOf(Entries(file)[i]))

\* An entry replaces the target of its source, or is appended.
LEMMA NextPairsIs ==
    ASSUME NEW P, NEW pairs \in Seq(P), NEW entry, PairOf(entry) \in P,
           \A p \in P : p = [source |-> p.source, target |-> p.target]
    PROVE  /\ NextPairs(pairs, entry) \in Seq(P)
           /\ \E i \in DOMAIN NextPairs(pairs, entry) : NextPairs(pairs, entry)[i] = PairOf(entry)
           /\ \A i \in DOMAIN pairs : pairs[i].source # SourceOf(entry) =>
                 i \in DOMAIN NextPairs(pairs, entry) /\ NextPairs(pairs, entry)[i] = pairs[i]
<1> DEFINE replaced == [i \in DOMAIN pairs |-> IF pairs[i].source = SourceOf(entry)
                                               THEN [pairs[i] EXCEPT !.target = TargetOf(entry)] ELSE pairs[i]]
<1>1. Len(pairs) \in Nat /\ DOMAIN pairs = 1..Len(pairs) /\ \A i \in DOMAIN pairs : pairs[i] \in P
  OBVIOUS
<1>2. ASSUME \E i \in DOMAIN pairs : pairs[i].source = SourceOf(entry)
      PROVE  /\ NextPairs(pairs, entry) = replaced /\ replaced \in Seq(P)
             /\ \A i \in DOMAIN pairs : i \in DOMAIN replaced
             /\ \A i \in DOMAIN pairs : replaced[i] = IF pairs[i].source = SourceOf(entry)
                                                      THEN PairOf(entry) ELSE pairs[i]
  <2>1. NextPairs(pairs, entry) = replaced
    BY <1>2 DEF NextPairs
  <2>2. ASSUME NEW i \in DOMAIN pairs
        PROVE  replaced[i] = IF pairs[i].source = SourceOf(entry) THEN PairOf(entry) ELSE pairs[i]
    <3>1. pairs[i] = [source |-> pairs[i].source, target |-> pairs[i].target]
      BY <1>1
    <3>2. CASE pairs[i].source = SourceOf(entry)
      <4>1. [pairs[i] EXCEPT !.target = TargetOf(entry)]
                = [source |-> pairs[i].source, target |-> TargetOf(entry)]
        BY <3>1
      <4> QED BY <3>2, <4>1 DEF PairOf
    <3>3. CASE pairs[i].source # SourceOf(entry)
      BY <3>3
    <3> QED BY <3>2, <3>3
  <2>3. DOMAIN replaced = 1..Len(pairs) /\ \A i \in 1..Len(pairs) : replaced[i] \in P
    <3>1. DOMAIN replaced = 1..Len(pairs)
      BY <1>1
    <3> HIDE DEF replaced
    <3> QED BY <1>1, <2>2, <3>1
  <2>4. replaced = [i \in 1..Len(pairs) |-> replaced[i]]
    BY <1>1
  <2> HIDE DEF replaced
  <2>5. replaced \in Seq(P)
    BY <1>1, <2>3, <2>4
  <2> QED BY <1>1, <2>1, <2>2, <2>3, <2>5
<1> HIDE DEF replaced
<1>3. CASE \E i \in DOMAIN pairs : pairs[i].source = SourceOf(entry)
  <2>1. PICK i \in DOMAIN pairs : pairs[i].source = SourceOf(entry)
    BY <1>3
  <2>2. i \in DOMAIN replaced /\ replaced[i] = PairOf(entry)
    BY <1>2, <1>3, <2>1
  <2> QED BY <1>2, <1>3, <2>2
<1>4. CASE ~\E i \in DOMAIN pairs : pairs[i].source = SourceOf(entry)
  <2>1. NextPairs(pairs, entry) = Append(pairs, PairOf(entry))
    BY <1>4 DEF NextPairs, PairOf
  <2>2. /\ Append(pairs, PairOf(entry)) \in Seq(P)
        /\ DOMAIN Append(pairs, PairOf(entry)) = 1..(Len(pairs) + 1)
        /\ Append(pairs, PairOf(entry))[Len(pairs) + 1] = PairOf(entry)
        /\ \A i \in 1..Len(pairs) : Append(pairs, PairOf(entry))[i] = pairs[i]
    OBVIOUS
  <2>3. Len(pairs) + 1 \in 1..(Len(pairs) + 1) /\ \A i \in 1..Len(pairs) : i \in 1..(Len(pairs) + 1)
    BY <1>1
  <2> QED BY <1>1, <2>1, <2>2, <2>3
<1> QED BY <1>3, <1>4

LEMMA PairsAre ==
    ASSUME NEW file, IsMappingFile(file), NEW i \in DOMAIN Entries(file), Apart(file, i)
    PROVE  /\ SourceToTarget(file) \in Seq(PairsOf(file))
           /\ \E p \in DOMAIN SourceToTarget(file) : SourceToTarget(file)[p] = PairOf(Entries(file)[i])
<1> DEFINE entries == Entries(file)
           n == Len(entries)
           P == PairsOf(file)
<1>1. n \in Nat /\ DOMAIN entries = 1..n
  BY DEF IsMappingFile, IsSequence
<1>2. PICK c : PairsUp(c, n, file)
  BY <1>1, SourceToTargetIs
<1>3. \A p \in P : p = [source |-> p.source, target |-> p.target]
  BY DEF PairsOf, PairOf
<1>4. \A j \in 1..n : PairOf(entries[j]) \in P
  BY <1>1 DEF PairsOf
<1> DEFINE Good(k) == /\ c[k] \in Seq(P)
                      /\ i <= k => \E p \in DOMAIN c[k] : c[k][p] = PairOf(entries[i])
           N == {k \in Nat : k <= n => Good(k)}
<1>5. 0 \in N
  <2>1. c[0] = <<>>
    BY <1>2 DEF PairsUp
  <2>2. <<>> \in Seq(P) /\ ~(i <= 0)
    BY <1>1
  <2> HIDE DEF P
  <2> QED BY <2>1, <2>2
<1>6. ASSUME NEW k \in Nat, k \in N PROVE k + 1 \in N
  <2> SUFFICES ASSUME k + 1 <= n PROVE Good(k + 1)
    <3> HIDE DEF Good
    <3> QED OBVIOUS
  <2>1. k + 1 \in 1..n /\ k \in 0..(n - 1) /\ k <= n
    BY <1>1
  <2>2. Good(k)
    <3> HIDE DEF Good
    <3> QED BY <1>6, <2>1
  <2>3. c[k + 1] = NextPairs(c[k], entries[k + 1])
    BY <1>2, <2>1 DEF PairsUp
  <2>4. c[k] \in Seq(P) /\ PairOf(entries[k + 1]) \in P
    BY <1>4, <2>1, <2>2
  <2> HIDE DEF P
  <2>5. /\ c[k + 1] \in Seq(P)
        /\ \E p \in DOMAIN c[k + 1] : c[k + 1][p] = PairOf(entries[k + 1])
        /\ \A p \in DOMAIN c[k] : c[k][p].source # SourceOf(entries[k + 1]) =>
              p \in DOMAIN c[k + 1] /\ c[k + 1][p] = c[k][p]
    <3> HIDE DEF entries
    <3> QED BY <1>3, <2>3, <2>4, NextPairsIs
  <2>6. ASSUME i <= k + 1 PROVE \E p \in DOMAIN c[k + 1] : c[k + 1][p] = PairOf(entries[i])
    <3>1. CASE i = k + 1
      BY <2>5, <3>1
    <3>2. CASE i # k + 1
      <4>1. i <= k
        BY <1>1, <2>6, <3>2
      <4>2. PICK p \in DOMAIN c[k] : c[k][p] = PairOf(entries[i])
        BY <2>2, <4>1
      <4>3. c[k][p].source = SourceOf(entries[i])
        BY <4>2 DEF PairOf
      <4>4. SourceOf(entries[k + 1]) # SourceOf(entries[i])
        BY <1>1, <2>1, <3>2 DEF Apart
      <4> QED BY <2>5, <4>2, <4>3, <4>4
    <3> QED BY <3>1, <3>2
  <2> QED BY <2>5, <2>6
<1> HIDE DEF N
<1>7. n \in N
  BY <1>1, <1>5, <1>6, SetInduction
<1>8. Good(n)
  <2> HIDE DEF Good
  <2> QED BY <1>1, <1>7 DEF N
<1>9. c[n] = SourceToTarget(file)
  BY <1>2 DEF PairsUp
<1>10. i <= n
  BY <1>1
<1> QED BY <1>8, <1>9, <1>10

OutputOf(rec, pair) == [target |-> pair.target, value |-> rec.m[pair.source]]

\* A source that the record has replaces the value of its target, or is appended.
LEMMA NextOutputIs ==
    ASSUME NEW O, NEW output \in Seq(O), NEW rec, NEW pair,
           pair.source \in DOMAIN rec.m => OutputOf(rec, pair) \in O,
           \A o \in O : o = [target |-> o.target, value |-> o.value]
    PROVE  /\ NextOutput(rec, output, pair) \in Seq(O)
           /\ pair.source \in DOMAIN rec.m =>
                 \E i \in DOMAIN NextOutput(rec, output, pair) :
                     NextOutput(rec, output, pair)[i] = OutputOf(rec, pair)
           /\ \A i \in DOMAIN output :
                 /\ i \in DOMAIN NextOutput(rec, output, pair)
                 /\ NextOutput(rec, output, pair)[i].target = output[i].target
<1> DEFINE q == OutputOf(rec, pair)
           replaced == [i \in DOMAIN output |-> IF output[i].target = pair.target
                                                THEN [output[i] EXCEPT !.value = rec.m[pair.source]] ELSE output[i]]
<1>1. Len(output) \in Nat /\ DOMAIN output = 1..Len(output) /\ \A i \in DOMAIN output : output[i] \in O
  OBVIOUS
<1>2. CASE pair.source \notin DOMAIN rec.m
  <2>1. NextOutput(rec, output, pair) = output
    BY <1>2 DEF NextOutput
  <2> QED BY <1>2, <2>1
<1>3. CASE pair.source \in DOMAIN rec.m /\ \E i \in DOMAIN output : output[i].target = pair.target
  <2>0. q \in O
    BY <1>3
  <2>1. NextOutput(rec, output, pair) = replaced
    BY <1>3 DEF NextOutput
  <2>2. ASSUME NEW i \in DOMAIN output
        PROVE  replaced[i] = IF output[i].target = pair.target THEN q ELSE output[i]
    <3>1. output[i] = [target |-> output[i].target, value |-> output[i].value]
      BY <1>1
    <3>2. CASE output[i].target = pair.target
      <4>1. [output[i] EXCEPT !.value = rec.m[pair.source]]
                = [target |-> output[i].target, value |-> rec.m[pair.source]]
        BY <3>1
      <4> QED BY <3>2, <4>1 DEF OutputOf
    <3>3. CASE output[i].target # pair.target
      BY <3>3
    <3> QED BY <3>2, <3>3
  <2>3. DOMAIN replaced = 1..Len(output) /\ replaced = [i \in 1..Len(output) |-> replaced[i]]
    BY <1>1
  <2>4. q.target = pair.target
    BY DEF OutputOf
  <2> HIDE DEF replaced, q
  <2>5. \A i \in 1..Len(output) : replaced[i] \in O
    BY <1>1, <2>0, <2>2
  <2>6. replaced \in Seq(O)
    BY <1>1, <2>3, <2>5
  <2>7. PICK i \in DOMAIN output : output[i].target = pair.target
    BY <1>3
  <2>8. i \in DOMAIN replaced /\ replaced[i] = q
    BY <1>1, <2>2, <2>3, <2>7
  <2>9. \A k \in DOMAIN output : k \in DOMAIN replaced /\ replaced[k].target = output[k].target
    BY <1>1, <2>2, <2>3, <2>4
  <2> QED BY <2>1, <2>6, <2>8, <2>9 DEF q
<1>4. CASE pair.source \in DOMAIN rec.m /\ ~\E i \in DOMAIN output : output[i].target = pair.target
  <2>0. q \in O
    BY <1>4
  <2>1. NextOutput(rec, output, pair) = Append(output, q)
    BY <1>4 DEF NextOutput, OutputOf
  <2> HIDE DEF q
  <2>2. /\ Append(output, q) \in Seq(O) /\ DOMAIN Append(output, q) = 1..(Len(output) + 1)
        /\ Append(output, q)[Len(output) + 1] = q
        /\ \A i \in 1..Len(output) : Append(output, q)[i] = output[i]
    BY <2>0
  <2>3. Len(output) + 1 \in 1..(Len(output) + 1) /\ \A i \in 1..Len(output) : i \in 1..(Len(output) + 1)
    BY <1>1
  <2> QED BY <1>1, <2>1, <2>2, <2>3 DEF q
<1> HIDE DEF q, replaced
<1> QED BY <1>2, <1>3, <1>4

OutputFollows(O, output, rec, pair, next) ==
    /\ next \in Seq(O)
    /\ pair.source \in DOMAIN rec.m => \E i \in DOMAIN next : next[i] = OutputOf(rec, pair)
    /\ \A i \in DOMAIN output : i \in DOMAIN next /\ next[i].target = output[i].target

AllOutputs(O) == \A o \in O : o = [target |-> o.target, value |-> o.value]

LEMMA OutputFollowsOn ==
    ASSUME NEW O, AllOutputs(O), NEW output, output \in Seq(O), NEW rec, NEW pair, OutputOf(rec, pair) \in O
    PROVE  OutputFollows(O, output, rec, pair, NextOutput(rec, output, pair))
<1>1. /\ pair.source \in DOMAIN rec.m => OutputOf(rec, pair) \in O
      /\ \A o \in O : o = [target |-> o.target, value |-> o.value]
  BY DEF AllOutputs
<1>2. /\ NextOutput(rec, output, pair) \in Seq(O)
      /\ pair.source \in DOMAIN rec.m =>
            \E i \in DOMAIN NextOutput(rec, output, pair) :
                NextOutput(rec, output, pair)[i] = OutputOf(rec, pair)
      /\ \A i \in DOMAIN output :
            /\ i \in DOMAIN NextOutput(rec, output, pair)
            /\ NextOutput(rec, output, pair)[i].target = output[i].target
  BY <1>1, NextOutputIs
<1> QED BY <1>2 DEF OutputFollows

LEMMA ClashesItself ==
    ASSUME NEW T, IsTarget(T)
    PROVE  Clashes(T, T)
<1>1. Len(T) \in Nat
  BY TargetIs
<1> QED BY <1>1 DEF Clashes, IsPrefix

\* What a record has for an entry that is apart from the others is under the entry's target.
LEMMA MappedAssigns ==
    ASSUME NEW file, IsMappingFile(file), NEW i \in DOMAIN Entries(file), Apart(file, i),
           NEW rec, SourceOf(Entries(file)[i]) \in DOMAIN rec.m
    PROVE  LET T == TargetOf(Entries(file)[i])
               x == rec.m[SourceOf(Entries(file)[i])]
           IN  /\ Assigns(Mapped(file, rec), T, x)
               /\ DOMAIN Mapped(file, rec) = 1..Len(Mapped(file, rec)) /\ Len(Mapped(file, rec)) \in Nat
               /\ \E a \in DOMAIN Mapped(file, rec) :
                     Mapped(file, rec)[a].target = T /\ Mapped(file, rec)[a].value = x
<1> DEFINE entries == Entries(file)
           pairs == SourceToTarget(file)
           T == TargetOf(entries[i])
           s == SourceOf(entries[i])
           x == rec.m[s]
           n == Len(pairs)
           All == {OutputOf(rec, PairOf(entries[j])) : j \in DOMAIN entries}
           O == {o \in All : (o.target = T /\ o.value = x) \/ ~Clashes(o.target, T)}
<1>1. /\ n \in Nat /\ DOMAIN pairs = 1..n /\ \A p \in 1..n : pairs[p] \in PairsOf(file)
      /\ \E p \in 1..n : pairs[p] = PairOf(entries[i])
  <2>1. /\ pairs \in Seq(PairsOf(file))
        /\ \E p \in DOMAIN pairs : pairs[p] = PairOf(entries[i])
    BY PairsAre
  <2> HIDE DEF pairs
  <2> QED BY <2>1
<1> HIDE DEF pairs
<1>2. PICK b \in 1..n : pairs[b] = PairOf(entries[i])
  BY <1>1
<1>3. \A j \in DOMAIN entries : IsTarget(TargetOf(entries[j]))
  BY DEF IsMappingFile, IsTarget
<1>4. \A o \in O : o = [target |-> o.target, value |-> o.value] /\ IsTarget(o.target)
  BY <1>3 DEF OutputOf, PairOf
<1>5. ASSUME NEW p \in 1..n PROVE OutputOf(rec, pairs[p]) \in O
  <2>1. PICK j \in DOMAIN entries : pairs[p] = PairOf(entries[j])
    BY <1>1 DEF PairsOf
  <2> DEFINE o == OutputOf(rec, PairOf(entries[j]))
  <2>2. o \in All
    OBVIOUS
  <2>3. o.target = TargetOf(entries[j]) /\ o.value = rec.m[SourceOf(entries[j])]
    BY DEF OutputOf, PairOf
  <2> HIDE DEF o, All
  <2>4. CASE j = i
    BY <2>2, <2>3, <2>4, <2>1 DEF o
  <2>5. CASE j # i
    <3>1. ~Clashes(TargetOf(entries[j]), T)
      BY <2>5 DEF Apart
    <3> QED BY <2>1, <2>2, <2>3, <3>1 DEF o
  <2> QED BY <2>4, <2>5
<1> HIDE DEF n
<1>6. PICK c : Outputs(c, n, file, rec)
  <2>1. DOMAIN SourceToTarget(file) = 1..n /\ n \in Nat
    BY <1>1 DEF pairs
  <2> QED BY <2>1, MappedIs
<1> HIDE DEF entries, T, x, O
<1> DEFINE Good(k) == /\ c[k] \in Seq(O)
                      /\ b <= k => \E a \in DOMAIN c[k] : c[k][a].target = T
           N == {k \in Nat : k <= n => Good(k)}
<1>7. 0 \in N
  <2>1. c[0] = <<>>
    BY <1>6 DEF Outputs
  <2>2. <<>> \in Seq(O) /\ ~(b <= 0)
    BY <1>1
  <2> QED BY <2>1, <2>2
<1>8. ASSUME NEW k \in Nat, k \in N PROVE k + 1 \in N
  <2> SUFFICES ASSUME k + 1 <= n PROVE Good(k + 1)
    <3> HIDE DEF Good
    <3> QED OBVIOUS
  <2>1. k + 1 \in 1..n /\ k \in 0..(n - 1) /\ k <= n
    BY <1>1
  <2>2. Good(k)
    <3> HIDE DEF Good
    <3> QED BY <1>8, <2>1
  <2>3. c[k + 1] = NextOutput(rec, c[k], pairs[k + 1])
    BY <1>6, <2>1 DEF Outputs, pairs
  <2>4. c[k] \in Seq(O) /\ OutputOf(rec, pairs[k + 1]) \in O
    BY <1>5, <2>1, <2>2
  <2>5. AllOutputs(O)
    BY <1>4 DEF AllOutputs
  <2>6. /\ c[k + 1] \in Seq(O)
        /\ pairs[k + 1].source \in DOMAIN rec.m =>
              \E a \in DOMAIN c[k + 1] : c[k + 1][a] = OutputOf(rec, pairs[k + 1])
        /\ \A a \in DOMAIN c[k] : a \in DOMAIN c[k + 1] /\ c[k + 1][a].target = c[k][a].target
    <3> DEFINE pair == pairs[k + 1]
               before == c[k]
    <3>1. before \in Seq(O) /\ OutputOf(rec, pair) \in O
      BY <2>4
    <3> HIDE DEF pair, before
    <3>2. OutputFollows(O, before, rec, pair, NextOutput(rec, before, pair))
      BY <2>5, <3>1, OutputFollowsOn
    <3>3. OutputFollows(O, c[k], rec, pairs[k + 1], c[k + 1])
      BY <2>3, <3>2 DEF pair, before
    <3> QED BY <3>3 DEF OutputFollows
  <2>7. ASSUME b <= k + 1 PROVE \E a \in DOMAIN c[k + 1] : c[k + 1][a].target = T
    <3>1. CASE b = k + 1
      <4>1. pairs[k + 1].source = s /\ pairs[k + 1].target = T
        BY <1>2, <3>1 DEF PairOf, T
      <4>2. OutputOf(rec, pairs[k + 1]).target = T
        BY <4>1 DEF OutputOf
      <4>3. s \in DOMAIN rec.m
        BY DEF entries
      <4> QED BY <2>6, <4>1, <4>2, <4>3
    <3>2. CASE b # k + 1
      <4>1. b <= k
        BY <1>1, <2>7, <3>2
      <4> QED BY <2>2, <2>6, <4>1
    <3> QED BY <3>1, <3>2
  <2> QED BY <2>6, <2>7
<1> HIDE DEF N
<1>9. n \in N
  BY <1>1, <1>7, <1>8, SetInduction
<1>10. Good(n)
  <2> HIDE DEF Good
  <2> QED BY <1>1, <1>9 DEF N
<1> DEFINE M == Mapped(file, rec)
<1>11. M \in Seq(O) /\ \E a \in DOMAIN M : M[a].target = T
  <2>1. c[n] = M /\ b <= n
    BY <1>1, <1>6 DEF Outputs
  <2> HIDE DEF M
  <2> QED BY <1>10, <2>1
<1>12. IsTarget(T)
  BY <1>3 DEF entries, T
<1> HIDE DEF M
<1>13. /\ DOMAIN M = 1..Len(M) /\ Len(M) \in Nat /\ \A a \in DOMAIN M : M[a] \in O
  BY <1>11
<1>14. ASSUME NEW o \in O
       PROVE  IsTarget(o.target) /\ ((o.target = T /\ o.value = x) \/ ~Clashes(o.target, T))
  BY <1>4 DEF O
<1>15. Assigns(M, T, x)
  BY <1>13, <1>14 DEF Assigns
<1>16. PICK a \in DOMAIN M : M[a].target = T
  BY <1>11
<1>17. M[a].value = x
  BY <1>12, <1>13, <1>14, <1>16, ClashesItself
<1> QED BY <1>13, <1>15, <1>16, <1>17 DEF M, T, x, entries

-----------------------------------------------------------------------------
(* The item's id, and a cell of a value.                                                 *)

\* An item with an id is what one more assignment makes of the mapping: that of the id's
\* text to its own path.
LEMMA BuiltIs ==
    ASSUME NEW nested, Built(nested) # None
    PROVE  /\ ItemId(nested) # None
           /\ Built(nested) = Nest(nested, IdPath, ItemId(nested))
           /\ IsTarget(IdPath)
<1> DEFINE id      == ItemId(nested)
           product == Get(nested, "product", None)
           given   == Get(product, "item_id", None)
           g       == [k \in 0..2 |-> IF k = 0 THEN nested ELSE IF k = 1 THEN product ELSE given]
<1>1. id # None /\ Built(nested) = With(nested, "product", With(nested.m["product"], "item_id", id))
  BY DEF Built
<1>2. IsTarget(IdPath) /\ Len(IdPath) = 2 /\ IdPath[1] = "product" /\ IdPath[2] = "item_id"
  <2>1. IdPath = <<"product", "item_id">> /\ ToSet(IdPath) = {"product", "item_id"}
    BY DEF IdPath, ToSet
  <2> QED BY <2>1 DEF IsTarget, IsSequence
<1>3. ~Absent(given)
  BY <1>1 DEF ItemId, TextOrNone
<1>4. None.t = "none" /\ Absent(None)
  BY DEF None, Absent
<1>5. /\ IsMapping(product) /\ "item_id" \in DOMAIN product.m /\ given = product.m["item_id"]
  BY <1>3, <1>4 DEF Get, Has
<1>6. /\ IsMapping(nested) /\ "product" \in DOMAIN nested.m /\ product = nested.m["product"]
  <2>1. ~IsMapping(None)
    BY <1>4 DEF IsMapping
  <2> QED BY <1>5, <2>1 DEF Get, Has
<1> HIDE DEF id, product, given
<1>7. Through(g, nested, IdPath, given)
  <2>1. g[0] = nested /\ g[1] = product /\ g[2] = given
    OBVIOUS
  <2> HIDE DEF g
  <2>2. \A k \in 0..1 : k = 0 \/ k = 1
    OBVIOUS
  <2> QED BY <1>2, <1>5, <1>6, <2>1, <2>2 DEF Through
<1>8. g[0] = nested /\ g[1] = product
  OBVIOUS
<1> HIDE DEF g
<1>9. Level(nested, SubSeq(IdPath, 1, 0)) = nested /\ Level(nested, SubSeq(IdPath, 1, 1)) = product
  <2>1. \A j \in {0, 1} : j \in Nat /\ j < Len(IdPath)
    BY <1>2
  <2>2. \A j \in {0, 1} : Level(nested, SubSeq(IdPath, 1, j)) = g[j]
    BY <1>2, <1>7, <2>1, LevelAlong
  <2> QED BY <1>8, <2>2
<1>10. PICK c : Nests(c, 2, nested, IdPath, id)
  <2>1. 2 \in Nat /\ DOMAIN IdPath = 1..2
    BY <1>2, TargetIs
  <2> QED BY <2>1, NestIs
<1>11. /\ c[0] = Nest(nested, IdPath, id) /\ c[2] = id
       /\ c[0] = Outward(nested, IdPath, 0, c[1]) /\ c[1] = Outward(nested, IdPath, 1, c[2])
  <2>1. 0 \in 0..(2 - 1) /\ 1 \in 0..(2 - 1) /\ 0 + 1 = 1 /\ 1 + 1 = 2
    OBVIOUS
  <2> QED BY <1>10, <2>1 DEF Nests
<1>12. c[1] = With(product, "item_id", id) /\ c[0] = With(nested, "product", c[1])
  <2>1. 0 + 1 = 1 /\ 1 + 1 = 2
    OBVIOUS
  <2> QED BY <1>2, <1>9, <1>11, <2>1 DEF Outward
<1>13. Built(nested) = Nest(nested, IdPath, id)
  BY <1>1, <1>6, <1>11, <1>12
<1> QED BY <1>1, <1>2, <1>13 DEF id

\* So the id is there, and what other paths lead to stays.
LEMMA BuiltReaches ==
    ASSUME NEW nested, Built(nested) # None
    PROVE  /\ LeadsTo(Built(nested), IdPath, ItemId(nested))
           /\ \A T, x : (IsTarget(T) /\ ~Clashes(IdPath, T) /\ LeadsTo(nested, T, x)) =>
                            LeadsTo(Built(nested), T, x)
<1>1. Built(nested) = Nest(nested, IdPath, ItemId(nested)) /\ IsTarget(IdPath)
  BY BuiltIs
<1> QED BY <1>1, NestReaches, NestKeeps

\* The id is the text of what was assigned to it.
LEMMA IdOf ==
    ASSUME NEW nested, NEW x, LeadsTo(nested, IdPath, x)
    PROVE  ItemId(nested) = TextOrNone(x)
<1>1. PICK c : Through(c, nested, IdPath, x)
  BY DEF LeadsTo
<1>2. Len(IdPath) = 2 /\ IdPath[1] = "product" /\ IdPath[2] = "item_id"
  BY DEF IdPath
<1>3. /\ c[0] = nested /\ c[2] = x
      /\ IsMapping(c[0]) /\ "product" \in DOMAIN c[0].m /\ c[1] = c[0].m["product"]
      /\ IsMapping(c[1]) /\ "item_id" \in DOMAIN c[1].m /\ c[2] = c[1].m["item_id"]
  <2>1. 0 \in 0..(2 - 1) /\ 1 \in 0..(2 - 1) /\ 0 + 1 = 1 /\ 1 + 1 = 2
    OBVIOUS
  <2>2. \A k \in 0..(2 - 1) :
          IsMapping(c[k]) /\ IdPath[k + 1] \in DOMAIN c[k].m /\ c[k + 1] = c[k].m[IdPath[k + 1]]
    BY <1>1, <1>2 DEF Through
  <2>3. c[0] = nested /\ c[2] = x
    BY <1>1, <1>2 DEF Through
  <2> QED BY <1>2, <2>1, <2>2, <2>3
<1>4. Get(nested, "product", None) = c[1] /\ Get(c[1], "item_id", None) = x
  BY <1>3 DEF Get, Has
<1> QED BY <1>4 DEF ItemId

\* And is a text that is not empty.
LEMMA IdIsText ==
    ASSUME NEW x, TextOrNone(x) # None
    PROVE  TextOrNone(x).t = "str" /\ TextOrNone(x) # S("empty")
<1>1. TextOrNone(x) = Strip(ToText(x)) /\ Strip(ToText(x)) # S("empty")
  BY DEF TextOrNone
<1>2. Strip(ToText(x)).t = "str"
  BY DEF Strip, Str
<1> QED BY <1>1, <1>2

\* The cell of a value that a record can hold.
LEMMA CellIs ==
    ASSUME NEW x, IsRead(x), NEW presence
    PROVE  WriterValue(ApplyPresence(x, presence)) = IF x = None THEN None ELSE ToText(x)
<1>1. x.t \notin {"emission", "missing"}
  BY DEF IsRead, PlainTypes
<1>2. CASE x.t = "none"
  <2>1. x = None /\ ApplyPresence(x, presence) = Null
    BY <1>1, <1>2 DEF IsRead, ApplyPresence
  <2>2. Null # Omit
    BY DEF Null, Omit
  <2> QED BY <2>1, <2>2 DEF WriterValue
<1>3. CASE x.t # "none"
  <2>1. x # None /\ ApplyPresence(x, presence) = Value(ToText(x))
    BY <1>1, <1>3 DEF None, ApplyPresence
  <2> DEFINE text == ToText(x)
  <2> HIDE DEF text
  <2>2. Value(text).kind = "VALUE" /\ Value(text).value = text
    BY DEF Value
  <2>3. Omit.kind = "OMIT" /\ Null.kind = "NULL"
    BY DEF Omit, Null
  <2>4. WriterValue(Value(text)) = text
    BY <2>2, <2>3 DEF WriterValue
  <2> QED BY <2>1, <2>4 DEF text
<1> QED BY <1>2, <1>3

-----------------------------------------------------------------------------
(* What a record that was read holds.                                                    *)

Texts(C) == \A x \in C : x.t = "str"

\* The cells of lines are texts, with a mark or without.
LEMMA CellsAreTexts ==
    ASSUME NEW format \in Tabular, NEW constants, NEW input, IsInput(format, constants, input)
    PROVE  Texts(AllCells(format, input))
<1> DEFINE given == Taken(format, input)
           N == Numbered(given)
           P == Physical(format, input)
<1>1. /\ DOMAIN N = DOMAIN given
      /\ \A i \in DOMAIN given : N[i].cells = given[i].cells /\ IsLine(given[i])
  <2>1. IsSequence(given) /\ \A i \in DOMAIN given : IsLine(given[i])
    BY DEF IsInput
  <2>2. DOMAIN given = 1..Len(given) /\ Len(given) \in Nat
    BY <2>1 DEF IsSequence
  <2>3. N = [i \in DOMAIN given |-> At(i, given[i])]
    BY DEF Numbered
  <2> HIDE DEF N, given
  <2>4. ASSUME NEW i \in DOMAIN given PROVE N[i].cells = given[i].cells
    <3>1. N[i] = [n |-> i, cells |-> given[i].cells, open |-> given[i].open, bad |-> given[i].bad]
      BY <2>1, <2>2, <2>3, NumberedLine
    <3> QED BY <3>1
  <2> QED BY <2>1, <2>3, <2>4
<1>2. ASSUME NEW i \in DOMAIN N, NEW k \in DOMAIN N[i].cells PROVE N[i].cells[k].t = "str"
  <2>1. N[i].cells = given[i].cells /\ IsLine(given[i])
    BY <1>1
  <2> HIDE DEF N, given
  <2>2. N[i].cells[k] = Str(N[i].cells[k].s, N[i].cells[k].d)
    BY <2>1 DEF IsLine
  <2> QED BY <2>2 DEF Str
<1>3. P = N \/ P = [N EXCEPT ![1].cells[1].d = @ \cup {"bom"}]
  BY DEF Physical
<1> HIDE DEF N, P, given
<1>4. \A x \in CellsOf(N) : x.t = "str"
  BY <1>2 DEF CellsOf, ToSet
<1>5. ASSUME NEW i \in DOMAIN P, NEW k \in DOMAIN P[i].cells PROVE P[i].cells[k].t = "str"
  <2>1. CASE P = N
    BY <1>2, <2>1
  <2>2. CASE P # N
    <3> DEFINE x      == [N[1].cells[1] EXCEPT !.d = @ \cup {"bom"}]
               marked == [N[1].cells EXCEPT ![1] = x]
               first  == [N[1] EXCEPT !.cells = marked]
    <3>1. P = [N EXCEPT ![1] = first] /\ DOMAIN P = DOMAIN N
      BY <1>3, <2>2
    <3>2. CASE i # 1
      <4>1. P[i] = N[i] /\ i \in DOMAIN N
        <5> HIDE DEF first
        <5> QED BY <3>1, <3>2
      <4> QED BY <1>2, <4>1
    <3>3. CASE i = 1
      <4>0. 1 \in DOMAIN N
        BY <3>1, <3>3
      <4>1. P[1] = first
        <5> HIDE DEF first
        <5> QED BY <3>1, <4>0
      <4>2. "cells" \in DOMAIN N[1]
        <5>1. 1 \in DOMAIN given /\ 1 \in Nat
          BY <1>1, <4>0 DEF N
        <5>2. N[1] = At(1, given[1]) /\ IsLine(given[1])
          BY <1>1, <5>1 DEF N, Numbered
        <5>3. N[1] = [n |-> 1, cells |-> given[1].cells, open |-> given[1].open, bad |-> given[1].bad]
          BY <5>1, <5>2, NumberedLine
        <5> QED BY <5>3
      <4>3. P[1].cells = marked
        <5> HIDE DEF marked
        <5> QED BY <4>1, <4>2
      <4>4. DOMAIN marked = DOMAIN N[1].cells
        OBVIOUS
      <4>5. k \in DOMAIN N[1].cells
        BY <3>3, <4>3, <4>4
      <4>6. marked[k] = IF k = 1 THEN x ELSE N[1].cells[k]
        <5> HIDE DEF x
        <5> QED BY <4>5
      <4>7. k = 1 => x.t = N[1].cells[1].t
        <5>1. k = 1 => N[1].cells[1] = Str(N[1].cells[1].s, N[1].cells[1].d)
          <6>1. N[1].cells = given[1].cells /\ IsLine(given[1])
            BY <1>1, <4>0
          <6> QED BY <4>5, <6>1 DEF IsLine
        <5> QED BY <5>1 DEF Str
      <4> HIDE DEF x, marked
      <4> QED BY <1>2, <3>3, <4>0, <4>3, <4>5, <4>6, <4>7
    <3> QED BY <3>2, <3>3
  <2> QED BY <2>1, <2>2
<1>6. \A x \in CellsOf(P) : x.t = "str"
  BY <1>5 DEF CellsOf, ToSet
<1>7. S("joined").t = "str"
  BY DEF S, Str
<1>8. AllCells(format, input) = {S("joined")} \cup CellsOf(N) \cup CellsOf(P)
  BY DEF AllCells, N, P, given
<1> QED BY <1>4, <1>6, <1>7, <1>8 DEF Texts

\* The rows that are found are made of these.
LEMMA FoundRows ==
    ASSUME Fit, Adapter \in Tabular, NEW p \in DOMAIN Found
    PROVE  Found[p] \in Row(AllCells(Adapter, feed.input))
<1> DEFINE input == feed.input
           C     == AllCells(Adapter, input)
           P     == Physical(Adapter, input)
           rows  == InputRows(Adapter, Constants, input)
<1>1. Found = IF HasHeader(Constants) /\ rows # <<>> THEN Tail(rows) ELSE rows
  BY DEF Found, Elements, Tabular, Lines
<1>2. IsInput(Adapter, Constants, input)
  BY DEF Fit
<1>3. P \in Seq(Row(C))
  BY <1>2, LinesAre
<1>4. S("joined") \in C
  BY DEF AllCells
<1>5. rows = ReaderRows(P) \/ (P # <<>> /\ rows = ReaderRows(<<P[1]>> \o P))
  BY DEF InputRows
<1> HIDE DEF C, P, rows
<1>6. ASSUME NEW lines \in Seq(Row(C)) PROVE ReaderRows(lines) \in Seq(Row(C))
  <2>1. PICK r : AreRows(C, r, lines) /\ ReaderRows(lines) = r[Len(lines)]
    BY <1>4, RowsExist
  <2>2. Len(lines) \in 0..Len(lines) /\ r \in [0..Len(lines) -> Seq(Row(C))]
    BY <2>1 DEF AreRows
  <2> QED BY <2>1, <2>2
<1>7. rows \in Seq(Row(C))
  <2>1. P # <<>> => <<P[1]>> \o P \in Seq(Row(C))
    BY <1>3
  <2> QED BY <1>3, <1>5, <1>6, <2>1
<1>8. Found \in Seq(Row(C))
  BY <1>1, <1>7
<1>9. Found[p] \in Row(C)
  BY <1>8
<1> QED BY <1>9 DEF C

\* What a document or a row can hold.
Holds(rec) == \A key \in DOMAIN rec.m : IsRead(rec.m[key])

LEMMA RowHolds ==
    ASSUME NEW C, Texts(C), NEW row \in Row(C), NEW columns
    PROVE  Holds(RowRecord(columns, row))
<1> DEFINE LastOf(name) == CHOOSE i \in DOMAIN columns :
                               /\ columns[i] = name
                               /\ \A j \in DOMAIN columns : columns[j] = name => j <= i
           cell(name) == IF LastOf(name) \in DOMAIN row.cells THEN row.cells[LastOf(name)] ELSE None
<1>1. RowRecord(columns, row) = Dict([name \in ToSet(columns) |-> cell(name)])
  BY DEF RowRecord
<1>2. row.cells \in Seq(C)
  BY DEF Row
<1>3. \A i \in DOMAIN row.cells : row.cells[i].t = "str"
  BY <1>2 DEF Texts
<1>4. \A i \in DOMAIN row.cells : IsRead(row.cells[i])
  BY <1>3 DEF IsRead, PlainTypes
<1>5. IsRead(None)
  BY DEF IsRead, PlainTypes, None
<1> HIDE DEF LastOf
<1>6. \A name : IsRead(cell(name))
  BY <1>4, <1>5
<1> HIDE DEF cell
<1>7. RowRecord(columns, row).m = [name \in ToSet(columns) |-> cell(name)]
  BY <1>1 DEF Dict
<1> QED BY <1>6, <1>7 DEF Holds

\* An element that is numbered has the record that it had.
LEMMA NumberedRecord ==
    ASSUME NEW n, NEW e, IsJson(e)
    PROVE  At(n, e).rec = e.rec /\ Holds(e.rec) /\ {"rec", "json"} \subseteq DOMAIN At(n, e)
<1>1. e = [blank |-> e.blank, long |-> e.long, deep |-> e.deep, json |-> e.json,
           split |-> e.split, rec |-> e.rec]
  BY DEF IsJson
<1>2. "rec" \in DOMAIN e /\ "json" \in DOMAIN e
  BY <1>1
<1>3. At(n, e).rec = e.rec /\ {"rec", "json"} \subseteq DOMAIN At(n, e)
  BY <1>2 DEF At
<1> QED BY <1>3 DEF IsJson, Holds

\* An item that is found holds what a document can.
LEMMA FoundItems ==
    ASSUME Fit, Adapter \notin Tabular, NEW p \in DOMAIN Found
    PROVE  Holds(Found[p].rec)
<1> DEFINE given == feed.input.elements
           N     == Numbered(given)
<1>1. DOMAIN N = DOMAIN given /\ \A i \in DOMAIN given : N[i] = At(i, given[i])
  BY NumberedElements
<1>2. \A i \in DOMAIN given : IsJson(given[i])
  BY TakenIs DEF Fit, IsInput, Tabular
<1>3. DOMAIN given = 1..Len(given) /\ Len(given) \in Nat
  BY NumberedElements
<1> HIDE DEF N, given
<1>4. \A i \in DOMAIN N : Holds(N[i].rec) /\ {"rec", "json"} \subseteq DOMAIN N[i]
  BY <1>1, <1>2, NumberedRecord
<1>5. CASE Adapter \in Lines
  <2>1. Found = JsonLines(Adapter, feed.input)
    BY <1>5 DEF Found, Elements, Tabular, Lines
  <2>2. Found = N \/ Found = [i \in DOMAIN N |-> IF N[i].split THEN [N[i] EXCEPT !.json = "broken"] ELSE N[i]]
    BY <2>1 DEF JsonLines, N, given
  <2>3. p \in DOMAIN N /\ (Found[p] = N[p] \/ Found[p] = [N[p] EXCEPT !.json = "broken"])
    BY <2>2
  <2>4. Found[p].rec = N[p].rec
    <3>1. {"rec", "json"} \subseteq DOMAIN N[p]
      BY <1>4, <2>3
    <3>2. [N[p] EXCEPT !.json = "broken"].rec = N[p].rec
      BY <3>1
    <3> QED BY <2>3, <3>2
  <2> QED BY <1>4, <2>3, <2>4
<1>6. CASE Adapter = "rows"
  <2>1. Found = N
    BY <1>6 DEF Found, Elements, Tabular, Lines, N, given
  <2> QED BY <1>4, <2>1
<1>7. CASE Adapter = "json"
  <2> DEFINE sole == [n |-> 1, json |-> "mapping", rec |-> Dict([items |-> List(<<>>)])]
  <2>1. Found = N \/ Found = <<sole>>
    BY <1>7 DEF Found, Elements, Tabular, Lines, PayloadItems, N, given
  <2>2. Holds(sole.rec)
    <3>1. sole.rec.m = [items |-> List(<<>>)]
      BY DEF Dict
    <3>2. DOMAIN sole.rec.m = {"items"} /\ sole.rec.m["items"] = List(<<>>)
      BY <3>1
    <3>3. IsRead(List(<<>>))
      BY DEF IsRead, PlainTypes, List
    <3> HIDE DEF sole
    <3> QED BY <3>2, <3>3 DEF Holds
  <2> HIDE DEF sole
  <2>3. Found = <<sole>> => Found[p] = sole
    OBVIOUS
  <2> QED BY <1>4, <2>1, <2>2, <2>3
<1>8. CASE Adapter = "streaming_json"
  <2> DEFINE Broken == {i \in DOMAIN N : N[i].json = "broken"}
  <2>1. Found = N \/ Found = <<>> \/ (Broken # {} /\ Found = <<N[Min(Broken)]>>)
    BY <1>8 DEF Found, Elements, Tabular, Lines, StreamedItems, N, given
  <2>2. ASSUME Broken # {} PROVE Min(Broken) \in DOMAIN N
    <3>1. Broken \in SUBSET (1..Len(given))
      BY <1>1, <1>3
    <3>2. Min(Broken) \in Broken
      <4> HIDE DEF Broken
      <4> QED BY <1>3, <2>2, <3>1, MinIs
    <3> HIDE DEF Min
    <3> QED BY <3>2
  <2> DEFINE b == Min(Broken)
  <2> HIDE DEF b
  <2>3. Found = N \/ Found = <<>> \/ (b \in DOMAIN N /\ Found = <<N[b]>>)
    BY <2>1, <2>2 DEF b
  <2>4. CASE Found = <<N[b]>> /\ b \in DOMAIN N
    <3>1. Found[p] = N[b]
      BY <2>4
    <3> QED BY <1>4, <2>4, <3>1
  <2>5. CASE Found = <<>>
    BY <2>5
  <2> QED BY <1>4, <2>3, <2>4, <2>5
<1> QED BY <1>5, <1>6, <1>7, <1>8 DEF Fit, Classes, Streaming, Tabular, Lines

\* Floats in the place of Decimals are read as well.
LEMMA LoadedHolds ==
    ASSUME NEW rec, Holds(rec)
    PROVE  Holds(Loaded(rec))
<1>1. \A v : (v.t # "decimal" => ToFloat(v) = v) /\ (v.t = "decimal" => ToFloat(v).t = "float")
  BY DEF ToFloat, Float
<1>2. ASSUME NEW v, IsRead(v) PROVE IsRead(LoadedField(v))
  <2>1. CASE v.t = "dict"
    <3>1. LoadedField(v).t = "dict"
      BY <2>1 DEF LoadedField, Dict
    <3> QED BY <3>1 DEF IsRead, PlainTypes
  <2>2. CASE v.t = "list"
    <3>1. LoadedField(v).t = "list"
      BY <2>2 DEF LoadedField, List
    <3> QED BY <3>1 DEF IsRead, PlainTypes
  <2>3. CASE v.t \notin {"dict", "list"}
    <3>1. LoadedField(v) = ToFloat(v)
      BY <2>3 DEF LoadedField
    <3>2. CASE v.t = "decimal"
      BY <1>1, <3>1, <3>2 DEF IsRead, PlainTypes
    <3>3. CASE v.t # "decimal"
      BY <1>1, <1>2, <3>1, <3>3
    <3> QED BY <3>2, <3>3
  <2> QED BY <2>1, <2>2, <2>3
<1>3. Loaded(rec).m = [key \in DOMAIN rec.m |-> LoadedField(rec.m[key])]
  BY DEF Loaded, Dict
<1> QED BY <1>2, <1>3 DEF Holds

\* So a record that is yielded holds what can be read.
LEMMA YieldsHold ==
    ASSUME Fit, NEW p \in DOMAIN Found, OutcomeOf(p).yields
    PROVE  Holds(OutcomeOf(p).rec)
<1>1. CASE Adapter \in Tabular
  <2>1. OutcomeOf(p) = RowOutcome(names, Found[p])
    BY <1>1 DEF OutcomeOf, Outcome, Tabular, Lines
  <2>2. OutcomeOf(p).rec = RowRecord(names, Found[p])
    BY <2>1 DEF RowOutcome, Yields, Skips, Raises
  <2>3. Found[p] \in Row(AllCells(Adapter, feed.input))
    BY <1>1, FoundRows
  <2>4. Texts(AllCells(Adapter, feed.input))
    BY <1>1, CellsAreTexts DEF Fit
  <2> QED BY <2>2, <2>3, <2>4, RowHolds
<1>2. CASE Adapter \notin Tabular
  <2>1. \/ OutcomeOf(p) = ItemOutcome(Found[p]) \/ OutcomeOf(p) = StreamedOutcome(Found[p])
        \/ OutcomeOf(p) = PayloadOutcome(Found[p])
        \/ OutcomeOf(p) = LineOutcome(Found[p]) \/ OutcomeOf(p) = Raises("none")
    BY <1>2 DEF Fit, Classes, Streaming, OutcomeOf, Outcome, Tabular, Lines
  <2> DEFINE o == OutcomeOf(p)
             e == Found[p]
  <2>2. /\ ItemOutcome(e).yields => ItemOutcome(e).rec = e.rec
        /\ ~Raises("none").yields
    BY DEF ItemOutcome, Yields, Skips, Raises
  <2>3. StreamedOutcome(e).yields => StreamedOutcome(e) = ItemOutcome(e)
    BY DEF StreamedOutcome, Raises
  <2>4. LineOutcome(e).yields => LineOutcome(e).rec = Loaded(e.rec)
    BY DEF LineOutcome, Yields, Skips, Raises
  <2>7. PayloadOutcome(e).yields => PayloadOutcome(e).rec = Loaded(e.rec)
    BY DEF PayloadOutcome, Yields, Skips
  <2> HIDE DEF o, e
  <2>5. o.yields
    BY DEF o
  <2>6. o.rec = e.rec \/ o.rec = Loaded(e.rec)
    BY <2>1, <2>2, <2>3, <2>4, <2>5, <2>7 DEF o, e
  <2> QED BY <1>2, <2>6, FoundItems, LoadedHolds DEF o, e
<1> QED BY <1>1, <1>2

\* A field keeps the value of its source, and no written item lacks its id.
THEOREM CellsKeepTheirSource == FeedSpec => []CellsComeFromTheirSource
<1> DEFINE entries == Entries(Mapping)
           order   == feed.plan.order
           Expected(v, target) ==
               IF target = IdPath THEN TextOrNone(v) ELSE IF v = None THEN None ELSE ToText(v)
           path(k)    == feed.plan.fields[order[k]].path
           cell(c, k) == chunks[c].record.e[k]
<1>1. ASSUME WayInv, feed.writer = "csv", stage \in {"reading", "failed", "ended"},
             NEW c \in Body, NEW k \in DOMAIN order
      PROVE  /\ \A i \in DOMAIN entries :
                   (/\ Alone(i) /\ TargetOf(entries[i]) = path(k)
                    /\ SourceOf(entries[i]) \in DOMAIN chunks[c].rec.m)
                   => cell(c, k) = Expected(chunks[c].rec.m[SourceOf(entries[i])], path(k))
             /\ path(k) = IdPath => cell(c, k) \notin {Missing, None, S("empty")}
  <2> DEFINE rec      == chunks[c].rec
             mapped   == Mapped(Mapping, rec)
             nested   == Unflatten(mapped)
             made     == Built(nested)
             presence == feed.plan.fields[order[k]].presence
  <2>1. RunInv /\ ChunkInv /\ Fit /\ Split
    BY <1>1 DEF WayInv, RunInv, InputInv
  <2>2. Projects(chunks[c]) /\ \E p \in 1..Done : IsOf(chunks[c], p)
    BY <2>1 DEF ChunkInv
  <2>3. Holds(rec)
    <3>1. PICK p \in 1..Done : IsOf(chunks[c], p)
      BY <2>2
    <3>2. p \in DOMAIN Found
      <4>1. /\ Len(Found) \in Nat /\ DOMAIN Found = 1..Len(Found) /\ index \in 0..Len(Found)
            /\ (Done = index \/ Done + 1 = index) /\ Done \in Nat
        BY <1>1, <2>1, UnderWay
      <4> QED BY <4>1
    <3> QED BY <2>1, <3>1, <3>2, YieldsHold DEF IsOf
  <2>4. made # None /\ chunks[c].record = Projected(made) /\ chunks[c].record.t = "list"
    BY <1>1, <2>2 DEF Projects, IsItem, ItemOf
  <2>5. cell(c, k) = WriterValue(ApplyPresence(ExtractBySourcePath(made, path(k)), presence))
    <3>1. feed.plan.kind = "csv_row"
      <4>1. feed.plan.kind # "csv_row" => Projected(made).t = "dict"
        BY DEF Projected, Dict
      <4> QED BY <2>4, <4>1
    <3>2. Projected(made) = List([i \in DOMAIN order |-> Cell(made, order[i])])
      BY <3>1 DEF Projected
    <3>3. chunks[c].record.e = [i \in DOMAIN order |-> Cell(made, order[i])]
      BY <2>4, <3>2 DEF List
    <3>4. cell(c, k) = Cell(made, order[k])
      BY <3>3
    <3> QED BY <3>4 DEF Cell
  <2> HIDE DEF nested, made, mapped, rec, presence, path, cell, order
  <2>6. /\ LeadsTo(made, IdPath, ItemId(nested)) /\ ItemId(nested) # None /\ IsTarget(IdPath)
        /\ \A T, x : (IsTarget(T) /\ ~Clashes(IdPath, T) /\ LeadsTo(nested, T, x)) => LeadsTo(made, T, x)
    BY <2>4, BuiltIs, BuiltReaches DEF made
  <2>7. ASSUME NEW x, IsTarget(path(k)), LeadsTo(made, path(k), x), IsRead(x)
        PROVE  cell(c, k) = IF x = None THEN None ELSE ToText(x)
    <3>1. Walk(made, path(k)) = x /\ path(k) # <<>>
      BY <2>7, WalkReaches DEF IsTarget
    <3>2. cell(c, k) = WriterValue(ApplyPresence(x, presence))
      BY <2>5, <3>1 DEF ExtractBySourcePath
    <3> QED BY <2>7, <3>2, CellIs
  <2>8. ASSUME path(k) = IdPath
        PROVE  cell(c, k) = ItemId(nested) /\ cell(c, k) \notin {Missing, None, S("empty")}
    <3>1. ItemId(nested).t = "str" /\ ItemId(nested) # S("empty") /\ ItemId(nested) # None
      <4> DEFINE given == Get(Get(nested, "product", None), "item_id", None)
      <4>1. ItemId(nested) = TextOrNone(given)
        BY DEF ItemId
      <4> HIDE DEF given
      <4> QED BY <2>6, <4>1, IdIsText
    <3>2. IsRead(ItemId(nested)) /\ ToText(ItemId(nested)) = ItemId(nested)
      BY <3>1 DEF IsRead, PlainTypes, ToText
    <3>3. cell(c, k) = ItemId(nested)
      BY <2>6, <2>7, <2>8, <3>1, <3>2
    <3>4. Missing.t = "missing"
      BY DEF Missing
    <3> QED BY <3>1, <3>3, <3>4
  <2>9. ASSUME NEW i \in DOMAIN entries, Alone(i), TargetOf(entries[i]) = path(k),
               SourceOf(entries[i]) \in DOMAIN rec.m
        PROVE  cell(c, k) = Expected(rec.m[SourceOf(entries[i])], path(k))
    <3> DEFINE T == TargetOf(entries[i])
               x == rec.m[SourceOf(entries[i])]
    <3>1. IsMappingFile(Mapping) /\ Apart(Mapping, i) /\ (T = IdPath \/ ~Clashes(T, IdPath))
      BY <2>1, <2>9 DEF Split, Alone, Apart
    <3>2. IsTarget(T)
      BY <3>1 DEF IsMappingFile, IsTarget
    <3>3. /\ Assigns(mapped, T, x) /\ DOMAIN mapped = 1..Len(mapped) /\ Len(mapped) \in Nat
          /\ \E a \in DOMAIN mapped : mapped[a].target = T /\ mapped[a].value = x
      BY <2>9, <3>1, MappedAssigns DEF mapped
    <3>4. LeadsTo(nested, T, x)
      <4>1. PICK a \in DOMAIN mapped : mapped[a].target = T /\ mapped[a].value = x
        BY <3>3
      <4> HIDE DEF T, x
      <4> QED BY <3>2, <3>3, <4>1, UnflattenReaches DEF nested
    <3>5. IsRead(x)
      BY <2>3, <2>9 DEF Holds
    <3> HIDE DEF x
    <3>6. CASE T = IdPath
      <4>1. ItemId(nested) = TextOrNone(x)
        BY <3>4, <3>6, IdOf
      <4> QED BY <2>8, <2>9, <3>6, <4>1 DEF x
    <3>7. CASE T # IdPath
      <4>1. ~Clashes(IdPath, T)
        BY <3>1, <3>7 DEF Clashes
      <4>2. LeadsTo(made, T, x)
        BY <2>6, <3>2, <3>4, <4>1
      <4>3. cell(c, k) = IF x = None THEN None ELSE ToText(x)
        BY <2>7, <2>9, <3>2, <3>5, <4>2
      <4> QED BY <2>9, <3>7, <4>3 DEF x
    <3> QED BY <3>6, <3>7
  <2> QED BY <2>8, <2>9 DEF rec
<1>2. WayInv => CellsComeFromTheirSource
  <2> SUFFICES ASSUME WayInv, feed.writer = "csv", stage \in {"reading", "failed", "ended"},
                      NEW c \in Body, NEW k \in DOMAIN order
               PROVE  /\ \A i \in DOMAIN entries :
                            (/\ Alone(i) /\ TargetOf(entries[i]) = path(k)
                             /\ SourceOf(entries[i]) \in DOMAIN chunks[c].rec.m)
                            => cell(c, k) = Expected(chunks[c].rec.m[SourceOf(entries[i])], path(k))
                      /\ path(k) = IdPath => cell(c, k) \notin {Missing, None, S("empty")}
    BY DEF CellsComeFromTheirSource
  <2> HIDE DEF Expected, path, cell, entries, order
  <2> QED BY <1>1
<1> QED BY <1>2, WayInvariant, PTL
=============================================================================
