----------------------------- MODULE ReadProofs -----------------------------
(***************************************************************************)
(* What cfg_read_args and cfg_read_file make of what they read, for        *)
(* argument vectors and files of any length: the loops agree with the      *)
(* reference readings of CfgProps.  And what the option table is to its    *)
(* client, for all texts, limits and client inputs: cfg_add_options tells  *)
(* the truth, and the options by name are the map of ConfigMap.            *)
(***************************************************************************)
EXTENDS HeapProofs, FiniteSetTheorems

-----------------------------------------------------------------------------
(* Rows of names.  N is the set of places that hold one.                   *)

(* A non-empty set of naturals with a bound has a greatest element. *)
LEMMA MaxFacts ==
    ASSUME NEW b \in Nat, NEW S \in SUBSET (0..b), S # {}
    PROVE  Max(S) \in S /\ \A x \in S : x <= Max(S)
<1>. DEFINE T == {y \in 0..b : b - y \in S}
<1>1. T \in SUBSET Nat /\ T # {}
  <2>1. PICK x \in S : TRUE
    OBVIOUS
  <2>2. b - x \in T /\ b - (b - x) = x
    BY <2>1
  <2>. QED  BY <2>2
<1>2. Min(T) \in T /\ \A y \in T : Min(T) <= y
  <2>. HIDE DEF T
  <2>. QED  BY <1>1, MinFacts
<1>. DEFINE g == b - Min(T)
<1>3. Min(T) \in 0..b /\ g \in S
  BY <1>2
<1>4. ASSUME NEW x \in S PROVE g >= x
  <2>1. b - x \in T /\ x \in 0..b
    BY b - (b - x) = x
  <2>. QED  BY <1>2, <1>3, <2>1
<1>5. \E x \in S : \A y \in S : x >= y
  <2>. HIDE DEF g
  <2>. QED  BY <1>3, <1>4
<1>6. Max(S) \in S /\ \A y \in S : Max(S) >= y
  BY <1>5 DEF Max
<1>. QED  BY <1>6

RowSet(N, i) == {0} \cup {n \in 1..(i - 2) : \A j \in (i - n)..(i - 1) : j \in N}
Row(N, i) == Max(RowSet(N, i))

LEMMA RowFacts ==
    ASSUME NEW N, NEW i \in Nat, i >= 2
    PROVE  /\ Row(N, i) \in RowSet(N, i) /\ Row(N, i) \in Nat
           /\ \A n \in RowSet(N, i) : n <= Row(N, i)
<1>1. RowSet(N, i) \in SUBSET (0..i) /\ RowSet(N, i) # {}
  BY DEF RowSet
<1>. QED  BY <1>1, MaxFacts DEF Row

LEMMA RowStep ==
    ASSUME NEW N, NEW i \in Nat, i >= 2
    PROVE  /\ Row(N, i) \in Nat
           /\ Row(N, 2) = 0
           /\ Row(N, i + 1) = IF i \in N THEN Row(N, i) + 1 ELSE 0
<1>1. Row(N, 2) = 0
  <2>1. RowSet(N, 2) = {0}
    BY DEF RowSet
  <2>. QED  BY <2>1, RowFacts
<1>2. /\ Row(N, i) \in RowSet(N, i) /\ Row(N, i) \in Nat
      /\ \A n \in RowSet(N, i) : n <= Row(N, i)
  BY RowFacts
<1>3. /\ Row(N, i + 1) \in RowSet(N, i + 1) /\ Row(N, i + 1) \in Nat
      /\ \A n \in RowSet(N, i + 1) : n <= Row(N, i + 1)
  BY RowFacts, i + 1 \in Nat, i + 1 >= 2
<1>4. CASE i \notin N
  <2>1. RowSet(N, i + 1) = {0}
    <3>1. ASSUME NEW n \in 1..((i + 1) - 2), \A j \in ((i + 1) - n)..((i + 1) - 1) : j \in N
          PROVE  FALSE
      <4>1. i \in ((i + 1) - n)..((i + 1) - 1)
        OBVIOUS
      <4>. QED  BY <1>4, <3>1, <4>1
    <3>. QED  BY <3>1 DEF RowSet
  <2>. QED  BY <1>1, <1>2, <1>3, <1>4, <2>1
<1>5. CASE i \in N
  <2>1. ASSUME NEW n \in RowSet(N, i) PROVE n + 1 \in RowSet(N, i + 1)
    <3>1. n \in 0..(i - 2) /\ \A j \in (i - n)..(i - 1) : j \in N
      BY <2>1 DEF RowSet
    <3>2. n + 1 \in 1..((i + 1) - 2)
      BY <3>1
    <3>3. ASSUME NEW j \in ((i + 1) - (n + 1))..((i + 1) - 1) PROVE j \in N
      <4>1. j = i \/ j \in (i - n)..(i - 1)
        BY <3>1
      <4>. QED  BY <1>5, <3>1, <4>1
    <3>. QED  BY <3>2, <3>3 DEF RowSet
  <2>2. ASSUME NEW n \in RowSet(N, i + 1), n # 0 PROVE n - 1 \in RowSet(N, i)
    <3>1. n \in 1..(i - 1) /\ \A j \in ((i + 1) - n)..((i + 1) - 1) : j \in N
      BY <2>2 DEF RowSet
    <3>2. \A j \in (i - (n - 1))..(i - 1) : j \in N
      <4>1. ASSUME NEW j \in (i - (n - 1))..(i - 1) PROVE j \in N
        <5>1. j \in ((i + 1) - n)..((i + 1) - 1)
          BY <3>1
        <5>. QED  BY <3>1, <5>1
      <4>. QED  BY <4>1
    <3>3. CASE n = 1
      BY <3>3 DEF RowSet
    <3>4. CASE n # 1
      <4>1. n - 1 \in 1..(i - 2)
        BY <3>1, <3>4
      <4>. QED  BY <3>2, <4>1 DEF RowSet
    <3>. QED  BY <3>3, <3>4
  <2>3. Row(N, i) + 1 <= Row(N, i + 1)
    BY <1>2, <1>3, <2>1
  <2>4. Row(N, i + 1) # 0
    BY <1>2, <1>3, <2>3
  <2>5. Row(N, i + 1) - 1 <= Row(N, i)
    BY <1>2, <1>3, <2>2, <2>4
  <2>. QED  BY <1>1, <1>2, <1>3, <1>5, <2>3, <2>5
<1>. QED  BY <1>4, <1>5

(* A listing grows at its end. *)
LEMMA ListingStep ==
    ASSUME NEW n \in Nat, NEW L \in SUBSET (1..(n - 1)), NEW s
    PROVE  /\ Listing({}, s) = <<>>
           /\ Listing(L \cup {n}, s) = Append(Listing(L, s), s[n])
           /\ Len(Listing(L, s)) \in Nat
<1>. DEFINE M == L \cup {n}
            c == Cardinality(L)
            PlaceL(k) == CHOOSE i \in L : Cardinality({j \in L : j <= i}) = k
            PlaceM(k) == CHOOSE i \in M : Cardinality({j \in M : j <= i}) = k
<1>1. Listing({}, s) = <<>>
  BY FS_EmptySet DEF Listing
<1>2. IsFiniteSet(L) /\ c \in Nat
  <2>1. IsFiniteSet(1..(n - 1))
    BY FS_Interval
  <2>. QED  BY <2>1, FS_Subset, FS_CardinalityType
<1>3. IsFiniteSet(M) /\ Cardinality(M) = c + 1
  BY <1>2, FS_AddElement
<1>4. ASSUME NEW i \in L
      PROVE  /\ {j \in M : j <= i} = {j \in L : j <= i}
             /\ Cardinality({j \in L : j <= i}) \in Nat
             /\ Cardinality({j \in L : j <= i}) <= c
  <2>1. {j \in M : j <= i} = {j \in L : j <= i}
    OBVIOUS
  <2>2. {j \in L : j <= i} \subseteq L
    OBVIOUS
  <2>. QED  BY <1>2, <2>1, <2>2, FS_Subset, FS_CardinalityType
<1>5. Cardinality({j \in M : j <= n}) = c + 1
  <2>1. \A j \in M : j <= n
    OBVIOUS
  <2>2. {j \in M : j <= n} = M
    BY <2>1
  <2>. QED  BY <1>3, <2>2
<1>6. ASSUME NEW k \in 1..c
      PROVE  PlaceM(k) = PlaceL(k)
  <2>1. ASSUME NEW i
        PROVE  (i \in M /\ Cardinality({j \in M : j <= i}) = k)
                 <=> (i \in L /\ Cardinality({j \in L : j <= i}) = k)
    <3>1. CASE i \in L
      BY <1>4, <3>1
    <3>2. CASE i = n
      <4>1. n \notin L
        OBVIOUS
      <4>. HIDE DEF c, M
      <4>. QED  BY <1>2, <1>5, <3>2, <4>1
    <3>. QED  BY <3>1, <3>2
  <2>. QED  BY <2>1
<1>7. PlaceM(c + 1) = n
  <2>1. \A i \in M : Cardinality({j \in M : j <= i}) = c + 1 <=> i = n
    BY <1>2, <1>4, <1>5
  <2>. QED  BY <2>1
<1>8. Listing(L, s) = [k \in 1..c |-> s[PlaceL(k)]]
  BY DEF Listing
<1>9. Listing(M, s) = [k \in 1..(c + 1) |-> s[PlaceM(k)]]
  BY <1>3 DEF Listing
<1>. HIDE DEF M, c, PlaceL, PlaceM
<1>10. Listing(M, s) = Append(Listing(L, s), s[n])
  BY <1>2, <1>6, <1>7, <1>8, <1>9
<1>11. Len(Listing(L, s)) \in Nat
  BY <1>2, <1>8
<1>. QED  BY <1>1, <1>10, <1>11 DEF M

-----------------------------------------------------------------------------
(* What a step does to the table: option i may change its value, no other, *)
(* and of the cells of the heap only those in freed may.                   *)
TableStep(i, freed) ==
    /\ Len(opts') = Len(opts) /\ Len(mem) <= Len(mem')
    /\ \A j \in 1..Len(opts) : j # i => opts'[j] = opts[j]
    /\ i # 0 => /\ opts'[i].name = opts[i].name /\ opts'[i].abbrev = opts[i].abbrev
                /\ opts'[i].type = opts[i].type
                /\ opts'[i].str \in {opts[i].str, NULL} \cup Added
    /\ \A a \in 1..Len(mem) : mem'[a] # mem[a] => a \in freed

(* Option i has been given v, unless malloc refused the string. *)
Assigned(i, v) ==
    /\ opts'[i].input
    /\ \/ ValueOf(i)' = v
       \/ failed' /\ opts'[i].type = "STRING" /\ opts'[i].str = NULL

LEMMA SameTable ==
    ASSUME TypeOK, UNCHANGED opts, Extends(mem, mem')
    PROVE  TableStep(0, {})
BY DEF TableStep, Extends, TypeOK

LEMMA NumberTable ==
    ASSUME TypeOK, NEW i \in 1..Len(opts), NEW n \in Int, SetNumber(i, n)
    PROVE  /\ TableStep(i, {})
           /\ opts[i].type # "STRING" => Assigned(i, n)
<1>. DEFINE new == [opts[i] EXCEPT !.num = n, !.input = TRUE]
<1>1. opts \in Seq(Slot) /\ opts[i] \in Slot /\ mem \in Seq(Content)
  BY DEF TypeOK
<1>2. opts' = [opts EXCEPT ![i] = new] /\ mem' = mem
  BY DEF SetNumber, heapVars
<1>3. new \in Slot /\ new.name = opts[i].name /\ new.abbrev = opts[i].abbrev
      /\ new.type = opts[i].type /\ new.num = n /\ new.str = opts[i].str /\ new.input
  BY <1>1 DEF Slot
<1>. HIDE DEF new
<1>4. Len(opts') = Len(opts) /\ opts'[i] = new
      /\ \A j \in 1..Len(opts) : j # i => opts'[j] = opts[j]
  BY <1>1, <1>2, <1>3
<1>5. TableStep(i, {})
  BY <1>1, <1>2, <1>3, <1>4 DEF TableStep
<1>6. opts[i].type # "STRING" => Assigned(i, n)
  BY <1>3, <1>4 DEF Assigned, ValueOf
<1>. QED  BY <1>5, <1>6

LEMMA StringTable ==
    ASSUME TypeOK, NEW i \in 1..Len(opts), NEW s \in Text \cup {NULL}, NEW ok \in Grant,
           NEW m \in Seq(Content), Len(m) = Len(mem), NEW freed,
           \A a \in 1..Len(mem) : m[a] # mem[a] => a \in freed,
           SetString(m, i, s, ok)
    PROVE  /\ TableStep(i, freed)
           /\ opts[i].type = "STRING" => Assigned(i, s)
<1>. DEFINE copy == cfg_copy_string(m, s, ok)
            new == [opts[i] EXCEPT !.str = copy.ptr, !.input = TRUE]
<1>1. opts \in Seq(Slot) /\ opts[i] \in Slot /\ mem \in Seq(Content) /\ failed \in BOOLEAN
  BY DEF TypeOK
<1>2. opts' = [opts EXCEPT ![i] = new] /\ mem' = copy.mem /\ failed' = (failed \/ Refused(s, copy))
  BY DEF SetString
<1>3. Extends(m, copy.mem) /\ Fresh(m, copy.mem, s, copy.ptr)
  BY CopyExtends, GrantType
<1>4. copy.ptr \in Ptr /\ (Refused(s, copy) <=> s # NULL /\ copy.ptr = NULL)
  <2>. HIDE DEF copy
  <2>. QED  BY <1>3 DEF Refused, Extends, Fresh, Ptr
<1>. HIDE DEF copy
<1>5. new \in Slot /\ new.name = opts[i].name /\ new.abbrev = opts[i].abbrev
      /\ new.type = opts[i].type /\ new.str = copy.ptr /\ new.input
  BY <1>1, <1>4 DEF Slot
<1>. HIDE DEF new
<1>6. Len(opts') = Len(opts) /\ opts'[i] = new
      /\ \A j \in 1..Len(opts) : j # i => opts'[j] = opts[j]
  BY <1>1, <1>2, <1>5
<1>7. TableStep(i, freed)
  BY <1>1, <1>2, <1>3, <1>5, <1>6 DEF TableStep, Extends, Fresh, Added
<1>8. opts[i].type = "STRING" => Assigned(i, s)
  BY <1>2, <1>3, <1>4, <1>5, <1>6 DEF Assigned, ValueOf, Fresh
<1>. QED  BY <1>7, <1>8

-----------------------------------------------------------------------------
(* Lookups and the grammar of an argument vector, for any options os,      *)
(* memory m and vector in.                                                 *)
FindIn(os, m, key) ==
    LET hits == {i \in DOMAIN os :
                   Live(m, os[i].name) =>
                     m[os[i].name] = key \/ (Live(m, os[i].abbrev) /\ m[os[i].abbrev] = key)}
    IN  IF hits = {} THEN 0 ELSE Min(hits)
TypeIn(os, m, key) == IF FindIn(os, m, key) = 0 THEN "NOEXIST" ELSE os[FindIn(os, m, key)].type

NamesIn(os, m, in) ==
    {j \in 1..Len(in) : First[in[j]] = "-" /\ TypeIn(os, m, Rest[in[j]]) \in Capturing}
ValueIn(os, m, in, i) == Row(NamesIn(os, m, in), i) % 2 = 1
LeftIn(os, m, in, i) ==
    \/ i = 1
    \/ ~ValueIn(os, m, in, i) /\ \/ First[in[i]] = "other"
                                 \/ First[in[i]] = "-" /\ TypeIn(os, m, Rest[in[i]]) = "NOEXIST"
RefusedIn(os, m, in, i) ==
    i > 1 /\ ~ValueIn(os, m, in, i) /\ First[in[i]] = "+" /\ TypeIn(os, m, Rest[in[i]]) # "SWITCH"

LEMMA FindIs ==
    /\ \A key : cfg_find(key) = FindIn(opts, mem, key) /\ cfg_type(key) = TypeIn(opts, mem, key)
    /\ \A key : cfg_find(key)' = FindIn(opts', mem', key)
                /\ cfg_type(key)' = TypeIn(opts', mem', key)
<1>1. \A key : cfg_find(key) = FindIn(opts, mem, key)
  BY DEF cfg_find, StopsAt, Matches, FindIn
<1>2. \A key : cfg_find(key)' = FindIn(opts', mem', key)
  BY DEF cfg_find, StopsAt, Matches, FindIn
<1>3. \A key : cfg_type(key) = TypeIn(opts, mem, key)
  BY <1>1 DEF cfg_type, TypeIn
<1>4. \A key : cfg_type(key)' = TypeIn(opts', mem', key)
  BY <1>2 DEF cfg_type, TypeIn
<1>. QED  BY <1>1, <1>2, <1>3, <1>4

LEMMA ReadingIs ==
    ASSUME NEW i \in Nat, i >= 2, i <= Len(input) + 1, Len(input) \in Nat
    PROVE  /\ IsValue(i) <=> ValueIn(opts, mem, input, i)
           /\ IsLeft(i) <=> LeftIn(opts, mem, input, i)
           /\ IsRefused(i) <=> RefusedIn(opts, mem, input, i)
<1>. DEFINE N == NamesIn(opts, mem, input)
<1>1. \A j \in 1..Len(input) : NamesOption(j) <=> j \in N
  BY FindIs DEF NamesOption, NamesIn
<1>2. IsValue(i) <=> ValueIn(opts, mem, input, i)
  <2>. HIDE DEF N
  <2>1. RowBefore(i) = Row(N, i)
    <3>1. ASSUME NEW n \in 1..(i - 2)
          PROVE  (\A j \in (i - n)..(i - 1) : NamesOption(j)) <=> (\A j \in (i - n)..(i - 1) : j \in N)
      <4>1. (i - n)..(i - 1) \subseteq 1..Len(input)
        OBVIOUS
      <4>. QED  BY <1>1, <4>1
    <3>. QED  BY <3>1 DEF RowBefore, Row, RowSet
  <2>. QED  BY <2>1 DEF IsValue, ValueIn, N
<1>3. cfg_type(Rest[input[i]]) = TypeIn(opts, mem, Rest[input[i]])
  BY FindIs
<1>. QED  BY <1>2, <1>3 DEF IsLeft, LeftIn, IsRefused, RefusedIn

LEMMA ReadingIsNext ==
    ASSUME NEW i \in Nat, i >= 2, i <= Len(input') + 1, Len(input') \in Nat
    PROVE  /\ IsValue(i)' <=> ValueIn(opts', mem', input', i)
           /\ IsLeft(i)' <=> LeftIn(opts', mem', input', i)
           /\ IsRefused(i)' <=> RefusedIn(opts', mem', input', i)
<1>. DEFINE N == NamesIn(opts', mem', input')
<1>0. \A j : cfg_type(Rest[input[j]])' = TypeIn(opts', mem', Rest[input'[j]])
  BY DEF cfg_type, cfg_find, StopsAt, Matches, FindIn, TypeIn
<1>1. \A j \in 1..Len(input') : NamesOption(j)' <=> j \in N
  BY <1>0 DEF NamesOption, NamesIn
<1>2. IsValue(i)' <=> ValueIn(opts', mem', input', i)
  <2>. HIDE DEF N
  <2>1. RowBefore(i)' = Row(N, i)
    <3>1. ASSUME NEW n \in 1..(i - 2)
          PROVE  (\A j \in (i - n)..(i - 1) : NamesOption(j)') <=> (\A j \in (i - n)..(i - 1) : j \in N)
      <4>1. (i - n)..(i - 1) \subseteq 1..Len(input')
        OBVIOUS
      <4>. QED  BY <1>1, <4>1
    <3>. QED  BY <3>1 DEF RowBefore, Row, RowSet
  <2>. QED  BY <2>1 DEF IsValue, ValueIn, N
<1>. QED  BY <1>0, <1>2 DEF IsLeft, LeftIn, IsRefused, RefusedIn

(* Lookups do not change while nothing of a name or abbreviation is freed. *)
LEMMA FindKept ==
    ASSUME TypeOK, TypeOK', InRange, NEW i \in 0..Len(opts), NEW freed, TableStep(i, freed),
           \A j \in 1..Len(opts) :
              /\ opts[j].name # NULL => opts[j].name \notin freed
              /\ opts[j].abbrev # NULL => opts[j].abbrev \notin freed
    PROVE  \A key : /\ FindIn(opts', mem', key) = FindIn(opts, mem, key)
                    /\ TypeIn(opts', mem', key) = TypeIn(opts, mem, key)
<1>1. /\ DOMAIN opts = 1..Len(opts) /\ DOMAIN opts' = 1..Len(opts)
      /\ DOMAIN mem = 1..Len(mem) /\ DOMAIN mem' = 1..Len(mem') /\ Len(mem) <= Len(mem')
      /\ Len(mem) \in Nat /\ Len(mem') \in Nat
  BY DEF TypeOK, TableStep
<1>2. \A j \in 1..Len(opts) : /\ opts'[j].name = opts[j].name /\ opts'[j].abbrev = opts[j].abbrev
                              /\ opts'[j].type = opts[j].type
  BY DEF TableStep
<1>3. ASSUME NEW j \in 1..Len(opts), NEW ptr \in {opts[j].name, opts[j].abbrev}
      PROVE  Live(mem', ptr) = Live(mem, ptr) /\ (Live(mem, ptr) => mem'[ptr] = mem[ptr])
  <2>1. ptr \in 1..Len(mem) \cup {NULL} /\ (ptr # NULL => ptr \notin freed)
    BY <1>1, <1>3 DEF InRange
  <2>2. CASE ptr = NULL
    <3>1. ptr \notin 1..Len(mem) /\ ptr \notin 1..Len(mem')
      BY <2>2, HeapAssumption
    <3>. QED  BY <1>1, <3>1 DEF Live
  <2>3. CASE ptr # NULL
    <3>1. ptr \in 1..Len(mem) /\ mem'[ptr] = mem[ptr]
      BY <2>1, <2>3 DEF TableStep
    <3>. QED  BY <1>1, <3>1 DEF Live
  <2>. QED  BY <2>2, <2>3
<1>4. ASSUME NEW key
      PROVE  FindIn(opts', mem', key) = FindIn(opts, mem, key)
  <2>1. ASSUME NEW j \in 1..Len(opts)
        PROVE  (Live(mem', opts'[j].name) =>
                  mem'[opts'[j].name] = key
                    \/ (Live(mem', opts'[j].abbrev) /\ mem'[opts'[j].abbrev] = key))
               <=> (Live(mem, opts[j].name) =>
                  mem[opts[j].name] = key
                    \/ (Live(mem, opts[j].abbrev) /\ mem[opts[j].abbrev] = key))
    BY <1>2, <1>3
  <2>. QED  BY <1>1, <2>1 DEF FindIn
<1>5. ASSUME NEW key
      PROVE  FindIn(opts, mem, key) \in 0..Len(opts)
  BY FindIs, FindType DEF TypeOK
<1>6. ASSUME NEW key
      PROVE  TypeIn(opts', mem', key) = TypeIn(opts, mem, key)
  BY <1>2, <1>4, <1>5 DEF TypeIn
<1>. QED  BY <1>4, <1>6

-----------------------------------------------------------------------------
(* The loop of cfg_read_args. *)
LEMMA AssignTable ==
    ASSUME TypeOK, NEW i \in 1..Len(opts), NEW s \in Text, Assign(i, s)
    PROVE  /\ TableStep(i, {})
           /\ Assigned(i, IF opts[i].type = "STRING" THEN s ELSE Number(opts[i].type, s))
<1>1. CASE opts[i].type = "STRING"
  <2>1. PICK ok \in Grant : SetString(mem, i, s, ok)
    BY <1>1 DEF Assign
  <2>2. mem \in Seq(Content) /\ \A a \in 1..Len(mem) : mem[a] # mem[a] => a \in {}
    BY DEF TypeOK
  <2>3. TableStep(i, {}) /\ Assigned(i, s)
    BY <1>1, <2>1, <2>2, StringTable
  <2>. QED  BY <1>1, <2>3
<1>2. CASE opts[i].type # "STRING"
  <2>. DEFINE n == Number(opts[i].type, s)
  <2>1. SetNumber(i, n) /\ n \in Int
    BY <1>2, NumberType DEF Assign
  <2>. HIDE DEF n
  <2>2. TableStep(i, {}) /\ Assigned(i, n)
    BY <1>2, <2>1, NumberTable
  <2>. QED  BY <1>2, <2>2 DEF n
<1>. QED  BY <1>1, <1>2

LEMMA ArgTable ==
    ASSUME TypeOK, CallState, KeyStored, ArgStep
    PROVE  \E i \in 0..Len(opts) : TableStep(i, {})
<1>1. call = "read_args" /\ input \in Seq(Text) /\ (More => Arg \in Text) /\ 0 \in 0..Len(opts)
  <2>1. call = "read_args"
    BY DEF ArgStep, ArgSwitchOff, ArgRefused, ArgSwitchOn, ArgCapture, ArgCopied, ArgValue,
           ArgCrashes, ArgsReturn, Normal, InArgs, In
  <2>. QED  BY <2>1 DEF More, Arg, TypeOK
<1>2. ASSUME ArgSwitchOff \/ ArgSwitchOn
      PROVE  \E i \in 0..Len(opts) : TableStep(i, {})
  <2>. DEFINE i == cfg_find(Rest[Arg])
  <2>1. (SetNumber(i, 0) \/ SetNumber(i, 1)) /\ i # 0
    BY <1>2 DEF ArgSwitchOff, ArgSwitchOn, cfg_type
  <2>2. i \in 1..Len(opts)
    BY <2>1, FindType DEF TypeOK
  <2>. HIDE DEF i
  <2>. QED  BY <2>1, <2>2, NumberTable
<1>3. ASSUME ArgRefused \/ ArgsReturn \/ ArgCapture \/ ArgCrashes
      PROVE  \E i \in 0..Len(opts) : TableStep(i, {})
  <2>1. UNCHANGED <<mem, opts>>
    BY <1>3 DEF ArgRefused, ArgsReturn, ArgCapture, ArgCrashes, Halt, heapVars
  <2>2. Extends(mem, mem')
    BY <2>1 DEF TypeOK, Extends
  <2>. QED  BY <1>1, <2>1, <2>2, SameTable
<1>4. CASE ArgCopied
  <2>1. Copy(Arg) /\ UNCHANGED opts /\ Arg \in Text
    BY <1>1, <1>4 DEF ArgCopied, Normal, InArgs
  <2>2. Extends(mem, mem')
    BY <1>1, <2>1, CopyType DEF TypeOK, CallState
  <2>. QED  BY <1>1, <2>1, <2>2, SameTable
<1>5. CASE ArgValue
  <2>. DEFINE i == cfg_find(current_option)
  <2>1. Assign(i, Arg) /\ Arg \in Text /\ state = "CAPTURE"
    BY <1>1, <1>5 DEF ArgValue, InArgs
  <2>2. i # 0
    BY <2>1 DEF KeyStored, cfg_type, Capturing
  <2>3. i \in 1..Len(opts)
    BY <2>2, FindType DEF TypeOK
  <2>. HIDE DEF i
  <2>. QED  BY <2>1, <2>3, AssignTable
<1>. QED  BY <1>2, <1>3, <1>4, <1>5 DEF ArgStep

(* The arguments read the same after each step. *)
LEMMA ArgsKept ==
    ASSUME TypeOK, TypeOK', CallState, KeyStored, InRange, ArgStep
    PROVE  /\ \A key : /\ FindIn(opts', mem', key) = FindIn(opts, mem, key)
                       /\ TypeIn(opts', mem', key) = TypeIn(opts, mem, key)
           /\ \A i : /\ ValueIn(opts', mem', input, i) <=> ValueIn(opts, mem, input, i)
                     /\ LeftIn(opts', mem', input, i) <=> LeftIn(opts, mem, input, i)
                     /\ RefusedIn(opts', mem', input, i) <=> RefusedIn(opts, mem, input, i)
<1>1. PICK i \in 0..Len(opts) : TableStep(i, {})
  BY ArgTable
<1>2. \A key : /\ FindIn(opts', mem', key) = FindIn(opts, mem, key)
               /\ TypeIn(opts', mem', key) = TypeIn(opts, mem, key)
  BY <1>1, FindKept
<1>3. NamesIn(opts', mem', input) = NamesIn(opts, mem, input)
  BY <1>2 DEF NamesIn
<1>4. \A j : ValueIn(opts', mem', input, j) <=> ValueIn(opts, mem, input, j)
  BY <1>3 DEF ValueIn
<1>5. \A j : LeftIn(opts', mem', input, j) <=> LeftIn(opts, mem, input, j)
  BY <1>2, <1>4 DEF LeftIn
<1>6. \A j : RefusedIn(opts', mem', input, j) <=> RefusedIn(opts, mem, input, j)
  BY <1>2, <1>4 DEF RefusedIn
<1>. QED  BY <1>2, <1>4, <1>5, <1>6

(* What one argument is, and what the loop makes of it. *)
LEMMA ArgKinds ==
    ASSUME TypeOK, ArgStep, call' = "read_args", fault' = "none"
    PROVE  /\ call = "read_args" /\ fault = "none" /\ More /\ Arg \in Text
           /\ input' = input /\ next' = next + 1
           /\ \/ /\ state = "NORMAL" /\ state' = "NORMAL" /\ UNCHANGED <<block, failed>>
                 /\ First[Arg] \in {"+", "-"} /\ cfg_type(Rest[Arg]) = "SWITCH"
              \/ /\ state = "NORMAL" /\ state' = "CAPTURE" /\ UNCHANGED <<block, failed>>
                 /\ First[Arg] = "-" /\ cfg_type(Rest[Arg]) \in Capturing
                 /\ current_option' = Rest[Arg]
              \/ /\ state = "NORMAL" /\ state' = "NORMAL" /\ Copy(Arg)
                 /\ \/ First[Arg] = "other"
                    \/ First[Arg] = "-" /\ cfg_type(Rest[Arg]) = "NOEXIST"
              \/ state = "CAPTURE" /\ state' = "NORMAL" /\ UNCHANGED block
<1>1. fault = "none" /\ call = "read_args"
  BY DEF ArgStep, ArgSwitchOff, ArgRefused, ArgSwitchOn, ArgCapture, ArgCopied, ArgValue,
         ArgCrashes, ArgsReturn, Normal, InArgs, In
<1>2. ~ArgRefused /\ ~ArgsReturn /\ ~ArgCrashes
  BY DEF ArgRefused, ArgsReturn, ArgCrashes, Finish, Return, Halt
<1>3. More /\ input' = input /\ next' = next + 1
  BY <1>2 DEF ArgStep, ArgSwitchOff, ArgSwitchOn, ArgCapture, ArgCopied, ArgValue, Normal, InArgs, Advance
<1>4. Arg \in Text
  BY <1>1, <1>3 DEF Arg, More, TypeOK
<1>5. CASE ArgSwitchOff \/ ArgSwitchOn
  BY <1>1, <1>3, <1>4, <1>5
     DEF ArgSwitchOff, ArgSwitchOn, Normal, SetNumber, argVars, heapVars
<1>6. CASE ArgCapture
  BY <1>1, <1>3, <1>4, <1>6 DEF ArgCapture, Normal, heapVars
<1>7. CASE ArgCopied
  BY <1>1, <1>3, <1>4, <1>7 DEF ArgCopied, Normal
<1>8. CASE ArgValue
  BY <1>1, <1>3, <1>4, <1>8 DEF ArgValue
<1>. QED  BY <1>2, <1>5, <1>6, <1>7, <1>8 DEF ArgStep

(* Whether the argument after this one is a value. *)
LEMMA ValueAfter ==
    ASSUME NEW os, NEW m, NEW in \in Seq(Text), NEW n \in 2..Len(in)
    PROVE  ValueIn(os, m, in, n + 1) <=>
              /\ ~ValueIn(os, m, in, n)
              /\ First[in[n]] = "-" /\ TypeIn(os, m, Rest[in[n]]) \in Capturing
<1>. DEFINE N == NamesIn(os, m, in)
<1>1. n \in N <=> First[in[n]] = "-" /\ TypeIn(os, m, Rest[in[n]]) \in Capturing
  BY DEF NamesIn
<1>2. Row(N, n) \in Nat /\ Row(N, n + 1) = IF n \in N THEN Row(N, n) + 1 ELSE 0
  <2>. HIDE DEF N
  <2>. QED  BY RowStep
<1>. HIDE DEF N
<1>3. Row(N, n + 1) % 2 = 1 <=> n \in N /\ ~(Row(N, n) % 2 = 1)
  BY <1>2
<1>. QED  BY <1>1, <1>3 DEF ValueIn, N

LEMMA NoValueFirst ==
    ASSUME NEW os, NEW m, NEW in
    PROVE  ~ValueIn(os, m, in, 2)
<1>1. Row(NamesIn(os, m, in), 2) = 0
  BY RowStep
<1>. QED  BY <1>1 DEF ValueIn

InLoop ==
    /\ TypeOK /\ TypeOK' /\ CallState /\ CallState' /\ KeyStored /\ KeyStored' /\ InRange
    /\ BlockRoom /\ BlockRoom' /\ ArgsSoFar /\ CaptureConsistent
    /\ ArgStep /\ call' = "read_args" /\ fault' = "none"

LEMMA LoopPlaces ==
    ASSUME InLoop
    PROVE  /\ call = "read_args" /\ fault = "none" /\ input \in Seq(Text) /\ input' = input
           /\ next \in 2..Len(input) /\ next' = next + 1 /\ Len(input) \in Nat
           /\ state = "CAPTURE" <=> ValueIn(opts, mem, input, next)
           /\ IsValue(next)' <=> ValueIn(opts, mem, input, next + 1)
           /\ \A i \in 1..next : IsRefused(i)' <=> RefusedIn(opts, mem, input, i)
           /\ \A i \in 1..(next - 1) : IsRefused(i) <=> RefusedIn(opts, mem, input, i)
           /\ \A i \in 1..next : IsLeft(i)' <=> LeftIn(opts, mem, input, i)
           /\ \A i \in 1..next : IsLeft(i) <=> LeftIn(opts, mem, input, i)
<1>1. /\ call = "read_args" /\ fault = "none" /\ More /\ input' = input /\ next' = next + 1
      /\ input \in Seq(Text) /\ Len(input) \in Nat /\ next \in Nat /\ next >= 2
  BY ArgKinds DEF InLoop, TypeOK, ArgsSoFar, FirstArg
<1>2. next \in 2..Len(input)
  BY <1>1 DEF More
<1>3. /\ \A i : ValueIn(opts', mem', input, i) <=> ValueIn(opts, mem, input, i)
      /\ \A i : LeftIn(opts', mem', input, i) <=> LeftIn(opts, mem, input, i)
      /\ \A i : RefusedIn(opts', mem', input, i) <=> RefusedIn(opts, mem, input, i)
  BY ArgsKept DEF InLoop
<1>4. state = "CAPTURE" <=> ValueIn(opts, mem, input, next)
  BY <1>1, <1>2, ReadingIs DEF InLoop, CaptureConsistent
<1>5. IsValue(next)' <=> ValueIn(opts, mem, input, next + 1)
  <2>2. next' \in 2..(Len(input) + 1)
    BY <1>1, <1>2
  <2>3. IsValue(next)' <=> ValueIn(opts', mem', input, next')
    <3>1. RowBefore(next)' = Row(NamesIn(opts', mem', input'), next')
      <4>0. \A j : cfg_type(Rest[input[j]])' = TypeIn(opts', mem', Rest[input'[j]])
        BY DEF cfg_type, cfg_find, StopsAt, Matches, FindIn, TypeIn
      <4>1. \A j \in 1..Len(input') : NamesOption(j)' <=> j \in NamesIn(opts', mem', input')
        BY <4>0 DEF NamesOption, NamesIn
      <4>2. ASSUME NEW n \in 1..(next' - 2)
            PROVE  (\A j \in (next' - n)..(next' - 1) : NamesOption(j)')
                     <=> (\A j \in (next' - n)..(next' - 1) : j \in NamesIn(opts', mem', input'))
        <5>1. (next' - n)..(next' - 1) \subseteq 1..Len(input')
          BY <1>1, <2>2
        <5>. QED  BY <4>1, <5>1
      <4>. QED  BY <4>2 DEF RowBefore, Row, RowSet
    <3>. QED  BY <1>1, <3>1 DEF IsValue, ValueIn
  <2>. QED  BY <1>1, <1>3, <2>3
<1>6. ASSUME NEW i \in 1..next
      PROVE  /\ IsRefused(i)' <=> RefusedIn(opts, mem, input, i)
             /\ IsRefused(i) <=> RefusedIn(opts, mem, input, i)
             /\ IsLeft(i)' <=> LeftIn(opts, mem, input, i)
             /\ IsLeft(i) <=> LeftIn(opts, mem, input, i)
  <2>1. CASE i = 1
    BY <2>1 DEF IsRefused, RefusedIn, IsLeft, LeftIn
  <2>2. CASE i # 1
    <3>1. i \in Nat /\ i >= 2 /\ i <= Len(input) + 1 /\ i <= Len(input') + 1 /\ Len(input') \in Nat
      BY <1>1, <1>2, <2>2
    <3>2. /\ IsRefused(i)' <=> RefusedIn(opts', mem', input', i)
          /\ IsLeft(i)' <=> LeftIn(opts', mem', input', i)
      BY <3>1, ReadingIsNext
    <3>3. /\ IsRefused(i) <=> RefusedIn(opts, mem, input, i)
          /\ IsLeft(i) <=> LeftIn(opts, mem, input, i)
      BY <1>1, <3>1, ReadingIs
    <3>. QED  BY <1>1, <1>3, <3>2, <3>3
  <2>. QED  BY <2>1, <2>2
<1>. QED  BY <1>1, <1>2, <1>4, <1>5, <1>6

LEMMA CaptureStep ==
    ASSUME InLoop
    PROVE  CaptureConsistent'
<1>1. /\ next \in 2..Len(input) /\ next' = next + 1 /\ input' = input /\ input \in Seq(Text)
      /\ state = "CAPTURE" <=> ValueIn(opts, mem, input, next)
      /\ IsValue(next)' <=> ValueIn(opts, mem, input, next + 1)
  BY LoopPlaces
<1>2. cfg_type(Rest[Arg]) = TypeIn(opts, mem, Rest[input[next]])
  BY FindIs DEF Arg
<1>3. IsValue(next)' <=>
        state = "NORMAL" /\ First[Arg] = "-" /\ cfg_type(Rest[Arg]) \in Capturing
  BY <1>1, <1>2, ValueAfter DEF Arg, InLoop, TypeOK
<1>4. /\ state' = "CAPTURE" <=> IsValue(next)'
      /\ state' = "CAPTURE" => current_option' = Rest[Arg]
  BY <1>3, ArgKinds DEF InLoop, Capturing
<1>5. Rest[input[next - 1]]' = Rest[Arg]
  BY <1>1 DEF Arg
<1>6. state' = "CAPTURE" => cfg_type(current_option)' \in Capturing
  BY DEF InLoop, KeyStored
<1>. QED  BY <1>4, <1>5, <1>6 DEF CaptureConsistent

LEMMA LoopMemory ==
    ASSUME InLoop
    PROVE  /\ Len(mem) <= Len(mem') /\ \A a \in 1..Len(mem) : mem'[a] = mem[a]
           /\ mem \in Seq(Content) /\ mem' \in Seq(Content)
           /\ block \in Block /\ block' \in Block
<1>1. PICK i \in 0..Len(opts) : TableStep(i, {})
  BY ArgTable DEF InLoop
<1>. QED  BY <1>1, LoopPlaces DEF TableStep, InLoop, TypeOK, CallState

LEMMA CopyItems ==
    ASSUME TypeOK, block \in Block, NEW s \in Text, Copy(s)
    PROVE  \E ptr \in Ptr :
              /\ block'.items = Append(block.items, ptr)
              /\ ptr = NULL => failed'
              /\ ptr # NULL => ptr \in 1..Len(mem') /\ mem'[ptr] = s
<1>1. PICK ok \in Grant :
        LET copy == cfg_copy_string(mem, s, ok)
        IN  /\ mem' = copy.mem
            /\ block' = [block EXCEPT !.items = Append(@, copy.ptr)]
            /\ failed' = (failed \/ Refused(s, copy))
  BY DEF Copy
<1>. DEFINE copy == cfg_copy_string(mem, s, ok)
<1>2. Extends(mem, copy.mem) /\ Fresh(mem, copy.mem, s, copy.ptr)
  BY CopyExtends, GrantType DEF TypeOK
<1>3. /\ mem' = copy.mem /\ block' = [block EXCEPT !.items = Append(@, copy.ptr)]
      /\ copy.ptr = NULL => failed'
  BY <1>1, HeapAssumption DEF Refused
<1>. HIDE DEF copy
<1>4. copy.ptr \in Ptr /\ (copy.ptr # NULL => copy.ptr \in 1..Len(mem') /\ mem'[copy.ptr] = s)
  BY <1>2, <1>3 DEF Extends, Fresh, Ptr
<1>5. block'.items = Append(block.items, copy.ptr)
  BY <1>3 DEF Block
<1>. QED  BY <1>3, <1>4, <1>5

LEMMA ArgsSoFarStep ==
    ASSUME InLoop
    PROVE  ArgsSoFar'
<1>1. /\ next \in 2..Len(input) /\ next' = next + 1 /\ fault = "none" /\ call = "read_args"
      /\ state = "CAPTURE" <=> ValueIn(opts, mem, input, next)
      /\ \A i \in 1..next : IsRefused(i)' <=> RefusedIn(opts, mem, input, i)
      /\ \A i \in 1..(next - 1) : IsRefused(i) <=> RefusedIn(opts, mem, input, i)
  BY LoopPlaces
<1>2. cfg_type(Rest[Arg]) = TypeIn(opts, mem, Rest[input[next]])
  BY FindIs DEF Arg
<1>3. ~RefusedIn(opts, mem, input, next)
  BY <1>1, <1>2, ArgKinds DEF InLoop, RefusedIn, Arg
<1>4. \A i \in 1..(next' - 1) : ~IsRefused(i)'
  BY <1>1, <1>3 DEF InLoop, ArgsSoFar
<1>5. \A k \in DOMAIN block'.items : block'.items[k] \in DOMAIN mem' \cup {NULL}
  <2>1. /\ DOMAIN mem \subseteq DOMAIN mem' /\ DOMAIN mem' = 1..Len(mem')
        /\ block.items \in Seq(Ptr)
    BY LoopMemory DEF Block
  <2>2. \A k \in DOMAIN block.items : block.items[k] \in DOMAIN mem' \cup {NULL}
    BY <1>1, <2>1 DEF InLoop, ArgsSoFar
  <2>3. CASE UNCHANGED block
    BY <2>2, <2>3
  <2>4. CASE Copy(Arg) /\ Arg \in Text
    <3>1. PICK ptr \in Ptr : /\ block'.items = Append(block.items, ptr)
                             /\ ptr # NULL => ptr \in 1..Len(mem')
      BY <2>4, CopyItems, LoopMemory DEF InLoop
    <3>. QED  BY <2>1, <2>2, <3>1
  <2>. QED  BY <2>3, <2>4, ArgKinds DEF InLoop
<1>. QED  BY <1>1, <1>4, <1>5 DEF ArgsSoFar, FirstArg

LEMMA LeftoverStep ==
    ASSUME InLoop, LeftoverExact, failed => failed'
    PROVE  LeftoverExact'
<1>. SUFFICES ASSUME ~failed'
              PROVE  Contents(block.items)' = LeftBefore(next)'
  BY DEF LeftoverExact
<1>. DEFINE L == {i \in 1..(next - 1) : LeftIn(opts, mem, input, i)}
            M == {i \in 1..next : LeftIn(opts, mem, input, i)}
<1>1. /\ next \in 2..Len(input) /\ next' = next + 1 /\ call = "read_args" /\ input' = input
      /\ Len(input) \in Nat
      /\ state = "CAPTURE" <=> ValueIn(opts, mem, input, next)
      /\ \A i \in 1..next : IsLeft(i)' <=> LeftIn(opts, mem, input, i)
      /\ \A i \in 1..next : IsLeft(i) <=> LeftIn(opts, mem, input, i)
  BY LoopPlaces
<1>2. LeftBefore(next) = Listing(L, input)
  <2>1. {i \in 1..(next - 1) : IsLeft(i)} = L
    BY <1>1
  <2>. HIDE DEF L
  <2>. QED  BY <2>1 DEF LeftBefore
<1>3. LeftBefore(next)' = Listing(M, input)
  <2>1. {i \in 1..(next' - 1) : IsLeft(i)'} = M
    BY <1>1
  <2>. HIDE DEF M
  <2>. QED  BY <1>1, <2>1 DEF LeftBefore
<1>4. Contents(block.items) = Listing(L, input)
  BY <1>1, <1>2 DEF LeftoverExact
<1>5. /\ block.items \in Seq(Ptr) /\ DOMAIN mem = 1..Len(mem) /\ DOMAIN mem' = 1..Len(mem')
      /\ \A k \in DOMAIN block.items :
            block.items[k] # NULL => mem'[block.items[k]] = mem[block.items[k]]
  <2>1. block.items \in Seq(Ptr) /\ DOMAIN mem = 1..Len(mem) /\ DOMAIN mem' = 1..Len(mem')
    BY LoopMemory DEF Block
  <2>2. \A k \in DOMAIN block.items : block.items[k] \in DOMAIN mem \cup {NULL}
    BY <1>1 DEF InLoop, ArgsSoFar
  <2>. QED  BY <2>1, <2>2, LoopMemory
<1>6. cfg_type(Rest[Arg]) = TypeIn(opts, mem, Rest[input[next]])
  BY FindIs DEF Arg
<1>7. CASE UNCHANGED block /\ ~LeftIn(opts, mem, input, next)
  <2>1. M = L
    BY <1>1, <1>7
  <2>2. Contents(block.items)' = Contents(block.items)
    BY <1>5, <1>7 DEF Contents
  <2>. QED  BY <1>3, <1>4, <2>1, <2>2
<1>8. CASE Copy(Arg) /\ Arg \in Text /\ LeftIn(opts, mem, input, next)
  <2>1. M = L \cup {next} /\ L \in SUBSET (1..(next - 1)) /\ next \in Nat
    BY <1>1, <1>8
  <2>. HIDE DEF L, M
  <2>2. Listing(M, input) = Append(Listing(L, input), Arg)
    BY <2>1, ListingStep DEF Arg
  <2>3. PICK ptr \in Ptr : /\ block'.items = Append(block.items, ptr)
                           /\ ptr # NULL /\ mem'[ptr] = Arg
    BY <1>8, CopyItems, LoopMemory DEF InLoop
  <2>4. Contents(block.items)' = Append(Contents(block.items), Arg)
    <3>1. block.items \in Seq(Ptr) /\ Len(block.items) \in Nat
      BY <1>5
    <3>2. /\ DOMAIN block'.items = 1..(Len(block.items) + 1)
          /\ block'.items[Len(block.items) + 1] = ptr
          /\ \A k \in DOMAIN block.items : block'.items[k] = block.items[k]
      BY <2>3, <3>1
    <3>3. /\ Contents(block.items) = [k \in 1..Len(block.items) |->
                 IF block.items[k] = NULL THEN NULL ELSE mem[block.items[k]]]
          /\ Contents(block.items)' = [k \in 1..(Len(block.items) + 1) |->
                 IF block'.items[k] = NULL THEN NULL ELSE mem'[block'.items[k]]]
      BY <3>1, <3>2 DEF Contents
    <3>. QED  BY <1>5, <2>3, <3>1, <3>2, <3>3
  <2>. QED  BY <1>3, <1>4, <2>2, <2>4
<1>9. \/ UNCHANGED block /\ ~LeftIn(opts, mem, input, next)
      \/ Copy(Arg) /\ Arg \in Text /\ LeftIn(opts, mem, input, next)
  BY <1>1, <1>6, ArgKinds DEF InLoop, LeftIn, Arg, Capturing
<1>. QED  BY <1>7, <1>8, <1>9

(* The steps outside the loop: the call starts, dies, or nothing happens.  *)
LEMMA ArgSteps ==
    ASSUME [Next]_vars, call' = "read_args"
    PROVE  UNCHANGED vars \/ ArgStep \/ \E argv \in ArgVectors : ReadArgs(argv)
<1>1. ASSUME ClientStep PROVE \E argv \in ArgVectors : ReadArgs(argv)
  BY <1>1 DEF ClientStep, cfg_init, cfg_exit, ExitCrashes, LifeHalts, AddOptions, ReadArgsHalts,
              ReadFile, ReadFileMissing, ReadFileNoBuffer, cfg_set_number, cfg_set_string,
              AccessHalts, Idle, Halt, Enter, Return, callVars
<1>2. ASSUME StoreStep PROVE FALSE
  <2>1. ASSUME NEW o, NEW ok, cfg_store(o, ok), call # "read_args" PROVE FALSE
    BY <2>1 DEF cfg_store, Advance, Return
  <2>. QED  BY <1>2, <2>1
            DEF StoreStep, StoreOption, StoreHalts, AddOptionsReturns, In, Halt, Return, callVars
<1>3. ASSUME LineStep PROVE FALSE
  BY <1>3 DEF LineStep, LineSwitch, LineValue, LineSkipped, LineRefused, LineHalts, LineCrashes,
              FileReturns, At, In, Halt, Close, Return, Advance, callVars
<1>. QED  BY <1>1, <1>2, <1>3 DEF Next

LEMMA DeadStill ==
    ASSUME ArgStep, call' = "read_args", fault' # "none"
    PROVE  Unchanged
<1>1. ArgCrashes => Unchanged
  BY DEF ArgCrashes, Halt, Unchanged
<1>2. fault = "none"
  BY DEF ArgStep, ArgSwitchOff, ArgRefused, ArgSwitchOn, ArgCapture, ArgCopied, ArgValue,
         ArgCrashes, ArgsReturn, Normal, InArgs, In
<1>. QED  BY <1>1, <1>2 DEF ArgStep, ArgSwitchOff, ArgRefused, ArgSwitchOn, ArgCapture, ArgCopied,
             ArgValue, ArgsReturn, Finish, Return

LEMMA StillArgs ==
    ASSUME ArgsInvariant, Unchanged, fault' = "none" => fault = "none", Len(input) \in Nat,
           BlockRoom, call' = "read_args", next \in Nat
    PROVE  ArgsInvariant'
<1>1. /\ UNCHANGED <<mem, failed, opts, block, state, current_option, input, next>>
      /\ call = "read_args"
  BY DEF Unchanged, heapVars, argVars, callVars
<1>2. next >= 2 /\ next <= Len(input) + 1
  BY <1>1 DEF ArgsInvariant, ArgsSoFar, FirstArg, BlockRoom
<1>3. \A j : cfg_type(Rest[input[j]])' = TypeIn(opts, mem, Rest[input[j]])
  BY <1>1 DEF cfg_type, cfg_find, StopsAt, Matches, FindIn, TypeIn
<1>4. \A j : NamesOption(j)' <=> NamesOption(j)
  BY <1>1, <1>3, FindIs DEF NamesOption
<1>5. \A i : RowBefore(i)' = RowBefore(i)
  BY <1>4 DEF RowBefore
<1>6. \A i : /\ IsValue(i)' <=> IsValue(i)
             /\ IsRefused(i)' <=> IsRefused(i)
             /\ IsLeft(i)' <=> IsLeft(i)
  BY <1>1, <1>3, <1>5, FindIs DEF IsValue, IsRefused, IsLeft
<1>7. ArgsSoFar'
  BY <1>1, <1>6 DEF ArgsInvariant, ArgsSoFar, FirstArg
<1>8. CaptureConsistent'
  <2>1. RowBefore(next)' = RowBefore(next)
    BY <1>1, <1>4 DEF RowBefore
  <2>2. IsValue(next)' <=> IsValue(next)
    BY <2>1 DEF IsValue
  <2>3. cfg_type(current_option)' = cfg_type(current_option)
    BY <1>1 DEF cfg_type, cfg_find, StopsAt, Matches
  <2>4. Rest[input[next - 1]]' = Rest[input[next - 1]]
    BY <1>1
  <2>. QED  BY <1>1, <2>2, <2>3, <2>4 DEF ArgsInvariant, CaptureConsistent
<1>9. LeftoverExact'
  <2>1. {i \in 1..(next - 1) : IsLeft(i)}' = {i \in 1..(next - 1) : IsLeft(i)}
    BY <1>1, <1>6
  <2>2. LeftBefore(next)' = LeftBefore(next)
    BY <1>1, <2>1 DEF LeftBefore
  <2>3. Contents(block.items)' = Contents(block.items)
    BY <1>1 DEF Contents
  <2>. QED  BY <1>1, <2>2, <2>3 DEF ArgsInvariant, LeftoverExact
<1>. QED  BY <1>7, <1>8, <1>9 DEF ArgsInvariant

LEMMA StartArgs ==
    ASSUME TypeOK, TypeOK', CallState', NEW argv \in ArgVectors, ReadArgs(argv)
    PROVE  ArgsInvariant'
<1>1. /\ input' = argv /\ next' = 2 /\ state' = "NORMAL" /\ current_option' = NULL
      /\ call' = "read_args"
  BY DEF ReadArgs, Enter, FirstArg
<1>2. /\ argv \in Seq(Text) /\ Len(argv) \in Nat /\ Len(argv) >= 1 /\ argv[1] \in Text
  BY ClientAssumption
<1>3. ~IsValue(2)' /\ (IsValue(next)' <=> IsValue(2)')
  <2>1. ~IsValue(2)'
    BY <1>1, <1>2, ReadingIsNext, NoValueFirst
  <2>2. RowBefore(next)' = RowBefore(2)'
    BY <1>1 DEF RowBefore, NamesOption
  <2>. QED  BY <2>1, <2>2 DEF IsValue
<1>. DEFINE vector == cfgALLOC(mem, Raw, TRUE)
<1>4. vector.mem \in Seq(Content) /\ vector.ptr = Len(mem) + 1
  BY DEF cfgALLOC, Content, TypeOK
<1>5. PICK ok \in Grant :
        LET first == cfg_copy_string(vector.mem, argv[1], ok)
        IN  /\ mem' = first.mem
            /\ block' = NewBlock(vector.ptr, Len(argv), first.ptr)
            /\ failed' = (failed \/ Refused(argv[1], first))
  BY DEF ReadArgs
<1>. HIDE DEF vector
<1>. DEFINE first == cfg_copy_string(vector.mem, argv[1], ok)
<1>6. Extends(vector.mem, first.mem) /\ Fresh(vector.mem, first.mem, argv[1], first.ptr)
  BY <1>2, <1>4, CopyExtends, GrantType
<1>7. /\ mem' = first.mem /\ block'.items = <<first.ptr>>
      /\ failed' = (failed \/ Refused(argv[1], first))
  BY <1>5 DEF NewBlock
<1>. HIDE DEF first
<1>8. /\ first.ptr = NULL => failed'
      /\ first.ptr # NULL => first.ptr \in 1..Len(mem') /\ mem'[first.ptr] = argv[1]
  <2>1. argv[1] # NULL
    BY <1>2, HeapAssumption
  <2>2. first.ptr = NULL => failed'
    BY <1>7, <2>1 DEF Refused
  <2>3. first.ptr # NULL =>
          first.ptr \in Len(vector.mem) + 1 .. Len(mem') /\ mem'[first.ptr] = argv[1]
    BY <1>6, <1>7 DEF Fresh
  <2>4. Len(vector.mem) \in Nat /\ Len(mem') \in Nat
    BY <1>4 DEF TypeOK
  <2>. QED  BY <2>2, <2>3, <2>4
<1>9. ArgsSoFar'
  <2>1. \A k \in DOMAIN block'.items : block'.items[k] \in DOMAIN mem' \cup {NULL}
    BY <1>7, <1>8 DEF TypeOK
  <2>2. \A i \in 1..(next' - 1) : ~IsRefused(i)'
    BY <1>1 DEF IsRefused
  <2>. QED  BY <1>1, <2>1, <2>2 DEF ArgsSoFar, FirstArg
<1>10. CaptureConsistent'
  BY <1>1, <1>3 DEF CaptureConsistent
<1>11. LeftoverExact'
  <2>. SUFFICES ASSUME ~failed'
                PROVE  Contents(block.items)' = LeftBefore(next)'
    BY DEF LeftoverExact
  <2>1. Contents(block.items)' = <<argv[1]>>
    BY <1>7, <1>8 DEF Contents
  <2>2. {i \in 1..(next' - 1) : IsLeft(i)'} = {1}
    BY <1>1 DEF IsLeft
  <2>3. Listing({1}, argv) = Append(Listing({}, argv), argv[1])
    <3>1. {} \in SUBSET (1..(1 - 1)) /\ 1 \in Nat /\ {} \cup {1} = {1}
      OBVIOUS
    <3>. QED  BY <3>1, ListingStep
  <2>4. Listing({}, argv) = <<>>
    <3>1. {} \in SUBSET (1..(1 - 1)) /\ 1 \in Nat
      OBVIOUS
    <3>. QED  BY <3>1, ListingStep
  <2>5. Append(<<>>, argv[1]) = <<argv[1]>>
    OBVIOUS
  <2>. QED  BY <1>1, <2>1, <2>2, <2>3, <2>4, <2>5 DEF LeftBefore
<1>. QED  BY <1>9, <1>10, <1>11 DEF ArgsInvariant

LEMMA ArgsInvariantStep ==
    ASSUME TypeOK, TypeOK', CallState, CallState', Naming, MemoryInvariant, MemoryInvariant',
           ArgsInvariant, [Next]_vars
    PROVE  ArgsInvariant'
<1>1. CASE call' # "read_args"
  BY <1>1 DEF ArgsInvariant, ArgsSoFar, CaptureConsistent, LeftoverExact
<1>2. CASE call' = "read_args" /\ UNCHANGED vars
  <2>1. Unchanged /\ fault' = fault /\ call = "read_args"
    BY <1>2 DEF vars, Unchanged, callVars
  <2>. QED  BY <1>2, <2>1, StillArgs DEF TypeOK, MemoryInvariant
<1>3. CASE call' = "read_args" /\ ArgStep /\ fault' # "none"
  <2>1. Unchanged
    BY <1>3, DeadStill
  <2>2. call = "read_args"
    BY <1>3, <2>1 DEF Unchanged, callVars
  <2>. QED  BY <1>3, <2>1, <2>2, StillArgs DEF TypeOK, MemoryInvariant
<1>4. CASE call' = "read_args" /\ ArgStep /\ fault' = "none"
  <2>1. InLoop
    BY <1>4 DEF InLoop, MemoryInvariant, ArgsInvariant, Naming
  <2>2. LeftoverExact'
    BY <2>1, FailedStays, LeftoverStep DEF ArgsInvariant
  <2>. QED  BY <2>1, <2>2, CaptureStep, ArgsSoFarStep DEF ArgsInvariant
<1>5. CASE \E argv \in ArgVectors : ReadArgs(argv)
  BY <1>5, StartArgs
<1>. QED  BY <1>1, <1>2, <1>3, <1>4, <1>5, ArgSteps

LEMMA InitArgs == Init => ArgsInvariant
BY DEF Init, ArgsInvariant, ArgsSoFar, CaptureConsistent, LeftoverExact

(* What cfg_read_args has made of its arguments in every state: the        *)
(* invariant that the theorems on CaptureConsistent, LeftoverExact and     *)
(* ArgsVerdict follow from.                                                *)
THEOREM ArgsHold ==
    Spec => [](TypeOK /\ CallState /\ Naming /\ MemoryInvariant /\ ArgsInvariant)
<1>1. TypeOK /\ TypeOK' /\ CallState /\ CallState' /\ Naming /\ MemoryInvariant /\ MemoryInvariant'
        /\ ArgsInvariant /\ [Next]_vars => ArgsInvariant'
  BY ArgsInvariantStep
<1>. QED  BY <1>1, InitArgs, MemoryHolds, PTL DEF Spec

(* For argument vectors of any length, the loop waits for a value exactly  *)
(* when the argument under it is one by the grammar, and the key it waits  *)
(* for names an option with a value: the "no option" and "bad value type"  *)
(* branches of cfg_copy_to_option are dead code.                           *)
THEOREM CaptureConsistentHolds == Spec => []CaptureConsistent
<1>1. ArgsInvariant => CaptureConsistent
  BY DEF ArgsInvariant
<1>. QED  BY <1>1, ArgsHold, PTL

(* The new argv holds all the arguments cfg_read_args did not use and no   *)
(* other, in order, while malloc has not failed.                           *)
THEOREM LeftoverExactHolds == Spec => []LeftoverExact
<1>1. ArgsInvariant => LeftoverExact
  BY DEF ArgsInvariant
<1>. QED  BY <1>1, ArgsHold, PTL

LEMMA ArgsVerdictStep ==
    ASSUME TypeOK, MemoryInvariant, ArgsInvariant, [Next]_vars, call = "read_args", call' = "none"
    PROVE  /\ result' = (\A i \in DOMAIN input : ~IsRefused(i))
           /\ ~result' => IsRefused(next) /\ \A i \in 1..(next - 1) : ~IsRefused(i)
<1>1. ArgRefused \/ ArgsReturn
  <2>1. ~ClientStep
    BY DEF ClientStep, cfg_init, cfg_exit, ExitCrashes, LifeHalts, AddOptions, ReadArgs, ReadArgsHalts,
           ReadFile, ReadFileMissing, ReadFileNoBuffer, cfg_set_number, cfg_set_string, AccessHalts, Idle
  <2>2. ~StoreStep /\ ~LineStep /\ ~UNCHANGED vars
    BY DEF StoreStep, StoreOption, StoreHalts, AddOptionsReturns, LineStep, LineSwitch, LineValue,
           LineSkipped, LineRefused, LineHalts, LineCrashes, FileReturns, At, In, vars, callVars
  <2>3. ArgStep
    BY <2>1, <2>2 DEF Next
  <2>. QED  BY <2>3 DEF ArgStep, ArgSwitchOff, ArgSwitchOn, ArgCapture, ArgCopied, ArgValue, ArgCrashes,
                Advance, Halt, callVars
<1>2. /\ DOMAIN input = 1..Len(input) /\ Len(input) \in Nat /\ next \in Nat /\ next >= 2
      /\ next <= Len(input) + 1 /\ fault = "none"
  <2>1. fault = "none"
    BY <1>1 DEF ArgRefused, ArgsReturn, Normal, InArgs, In
  <2>2. DOMAIN input = 1..Len(input) /\ Len(input) \in Nat /\ next \in Nat
    BY DEF TypeOK
  <2>. QED  BY <2>1, <2>2 DEF MemoryInvariant, BlockRoom, ArgsInvariant, ArgsSoFar, FirstArg
<1>3. \A i \in 1..(next - 1) : ~IsRefused(i)
  BY <1>2 DEF ArgsInvariant, ArgsSoFar
<1>4. CASE ArgRefused
  <2>1. /\ result' = FALSE /\ More /\ state = "NORMAL"
        /\ First[Arg] = "+" /\ cfg_type(Rest[Arg]) # "SWITCH"
    BY <1>4 DEF ArgRefused, Normal, InArgs, Finish, Return
  <2>2. IsRefused(next)
    BY <1>2, <2>1 DEF ArgsInvariant, CaptureConsistent, IsRefused, Arg
  <2>3. next \in DOMAIN input
    BY <1>2, <2>1 DEF More
  <2>. QED  BY <1>3, <2>1, <2>2, <2>3
<1>5. CASE ArgsReturn
  <2>1. result' = TRUE /\ ~More
    BY <1>5 DEF ArgsReturn, Finish, Return
  <2>2. DOMAIN input \subseteq 1..(next - 1)
    BY <1>2, <2>1 DEF More
  <2>. QED  BY <1>3, <2>1, <2>2
<1>. QED  BY <1>1, <1>4, <1>5

(* cfg_read_args fails iff an argument in the place of an option is +x     *)
(* where x is no switch, and it stops at the first such argument.          *)
THEOREM ArgsVerdictHolds == Spec => ArgsVerdict
<1>1. TypeOK /\ MemoryInvariant /\ ArgsInvariant /\ [Next]_vars =>
        [ call = "read_args" /\ call' = "none" =>
            /\ result' = (\A i \in DOMAIN input : ~IsRefused(i))
            /\ ~result' => IsRefused(next) /\ \A i \in 1..(next - 1) : ~IsRefused(i) ]_vars
  BY ArgsVerdictStep
<1>. QED  BY <1>1, ArgsHold, PTL DEF Spec, ArgsVerdict

-----------------------------------------------------------------------------
(* Which option each element of the input sets, and to what, for any       *)
(* options os, memory m and input in of the call c.                        *)
SetsIn(c, os, m, in, p, i) ==
    IF c = "read_args"
    THEN \/ ValueIn(os, m, in, p) /\ FindIn(os, m, Rest[in[p - 1]]) = i
         \/ /\ ~ValueIn(os, m, in, p) /\ First[in[p]] \in {"+", "-"}
            /\ FindIn(os, m, Rest[in[p]]) = i /\ os[i].type = "SWITCH"
    ELSE /\ in[p].kind \in {"on", "off", "set"}
         /\ FindIn(os, m, in[p].key) = i
         /\ in[p].kind = "set" <=> os[i].type \in Capturing

GivenIn(c, type, in, p) ==
    LET isOn == IF c = "read_args" THEN First[in[p]] = "-" ELSE in[p].kind = "on"
        text == IF c = "read_args" THEN in[p] ELSE in[p].value
    IN  CASE type = "SWITCH" -> IF isOn THEN 1 ELSE 0
          [] type = "INT"    -> Atoi[text]
          [] type = "FLOAT"  -> Atof[text]
          [] type = "STRING" -> text

FirstPlace(c) == IF c = "read_args" THEN 2 ELSE 1
PlacesIn(c, os, m, in, n, i) == {p \in FirstPlace(c)..(n - 1) : SetsIn(c, os, m, in, p, i)}

(* Option i has the value that element Max(S) of the input gives it. *)
Won(c, in, S, slot, value, lost) ==
    S # {} =>
      /\ slot.input
      /\ \/ value = GivenIn(c, slot.type, in, Max(S))
         \/ lost /\ slot.type = "STRING" /\ slot.str = NULL

Wins ==
    call \in {"read_args", "read_file"} /\ fault = "none" =>
        \A i \in DOMAIN opts :
            Won(call, input, PlacesIn(call, opts, mem, input, next, i), opts[i], ValueOf(i), failed)

Placed == call = "read_args" => next >= 2 /\ next <= Len(input) + 1 /\ Len(input) \in Nat

LEMMA SetsIs ==
    ASSUME call \in {"read_args", "read_file"}, Placed, next \in Nat,
           NEW p \in FirstPlace(call)..(next - 1), NEW i
    PROVE  Sets(p, i) <=> SetsIn(call, opts, mem, input, p, i)
<1>1. CASE call = "read_args"
  <2>1. p \in Nat /\ p >= 2 /\ p <= Len(input) + 1 /\ Len(input) \in Nat
    BY <1>1 DEF FirstPlace, Placed
  <2>2. IsValue(p) <=> ValueIn(opts, mem, input, p)
    BY <2>1, ReadingIs
  <2>. QED  BY <1>1, <2>2, FindIs DEF Sets, SetsIn
<1>2. CASE call # "read_args"
  BY <1>2, FindIs DEF Sets, SetsIn
<1>. QED  BY <1>1, <1>2

LEMMA GivenIs == \A p, i : Given(p, i) = GivenIn(call, opts[i].type, input, p)
BY DEF Given, GivenIn

LEMMA WinsIs ==
    ASSUME next \in Nat, Placed
    PROVE  LastWins <=> Wins
<1>1. ASSUME call \in {"read_args", "read_file"}, NEW i
      PROVE  {p \in (IF call = "read_args" THEN 2 ELSE 1)..(next - 1) : Sets(p, i)}
               = PlacesIn(call, opts, mem, input, next, i)
  BY <1>1, SetsIs DEF PlacesIn, FirstPlace
<1>. QED  BY <1>1, GivenIs DEF LastWins, Wins, Won

-----------------------------------------------------------------------------
(* Every pointer miniconf holds is live and held once (Intact), but for    *)
(* the options of an earlier life: then the first of them has no name, and *)
(* every lookup dies there.                                                *)
Whole == Intact \/ Nameless

LEMMA NamelessCrashes ==
    ASSUME TypeOK, Nameless, NEW key
    PROVE  Crashes(key)
<1>1. opts \in Seq(Slot) /\ 1 \in 1..Len(opts)
  BY DEF TypeOK, Nameless
<1>2. ~Live(mem, opts[1].name) /\ StopsAt(1, key)
  <2>1. opts[1].name \notin DOMAIN mem
    BY HeapAssumption DEF TypeOK, Nameless
  <2>. QED  BY <2>1 DEF Live, StopsAt
<1>3. cfg_find(key) = 1
  <2>1. cfg_find(key) # 0
    BY <1>1, <1>2, FindFacts
  <2>2. cfg_find(key) \in 1..Len(opts) /\ \A j \in 1..(cfg_find(key) - 1) : ~StopsAt(j, key)
    BY <1>1, <2>1, FindFacts
  <2>3. CASE cfg_find(key) > 1
    <3>1. 1 \in 1..(cfg_find(key) - 1)
      BY <2>2, <2>3
    <3>. QED  BY <1>2, <2>2, <3>1
  <2>. QED  BY <2>2, <2>3
<1>. QED  BY <1>2, <1>3 DEF Crashes

(* The string of option i is nobody else's memory. *)
LEMMA StringApart ==
    ASSUME TypeOK, Intact, NEW i \in 1..Len(opts), opts[i].str # NULL, NEW j \in 1..Len(opts)
    PROVE  /\ opts[j].name # opts[i].str /\ opts[j].abbrev # opts[i].str
           /\ j # i => opts[j].str # opts[i].str
<1>. DEFINE Hold(h) == Target(h, opts, AllBlocks, buffer)
<1>1. DOMAIN opts = 1..Len(opts)
  BY DEF TypeOK
<1>. HIDE DEF Hold
<1>2. ASSUME NEW n \in DOMAIN opts, NEW k \in 1..4
      PROVE  <<"option", n, k>> \in Holders(opts, AllBlocks) /\ Hold(<<"option", n, k>>) = Field(opts[n], k)
  BY OptionHolder DEF Hold
<1>3. ASSUME NEW k \in 1..4, Field(opts[j], k) = opts[i].str
      PROVE  j = i /\ k = 4
  <2>1. i \in DOMAIN opts /\ j \in DOMAIN opts /\ 4 \in 1..4 /\ Field(opts[i], 4) = opts[i].str
    BY <1>1, FieldFacts
  <2>. DEFINE g == <<"option", j, k>>  h == <<"option", i, 4>>
  <2>2. g \in Holders(opts, AllBlocks) /\ Hold(g) = opts[i].str
    BY <1>2, <1>3, <2>1
  <2>3. h \in Holders(opts, AllBlocks) /\ Hold(h) = opts[i].str
    BY <1>2, <2>1
  <2>4. g = h => j = i /\ k = 4
    OBVIOUS
  <2>. HIDE DEF g, h
  <2>5. g = h
    BY <2>2, <2>3 DEF Intact, Sound, Hold
  <2>. QED  BY <2>4, <2>5
<1>. QED  BY <1>3, FieldFacts

LEMMA EmptyIntact ==
    ASSUME opts = <<>>, AllBlocks = <<>>, buffer = NULL
    PROVE  Intact
<1>1. ASSUME NEW h \in Holders(<<>>, <<>>)
      PROVE  Target(h, <<>>, <<>>, NULL) = NULL
  <2>1. h = <<"buffer", 1, 0>>
    BY HolderCases
  <2>. QED  BY <2>1, TargetFacts
<1>2. Sound(mem, <<>>, <<>>, NULL)
  BY <1>1 DEF Sound
<1>. QED  BY <1>2 DEF Intact

LEMMA InitWhole == Init => Whole
<1>. SUFFICES ASSUME Init PROVE Intact
  BY DEF Whole
<1>1. opts = <<>> /\ AllBlocks = <<>> /\ buffer = NULL
  BY DEF Init, AllBlocks
<1>. QED  BY <1>1, EmptyIntact

LEMMA WholeStep ==
    ASSUME TypeOK, TypeOK', CallState, Naming, Locals, KeyStored, Whole, [Next]_vars
    PROVE  Whole'
<1>1. CASE cfg_exit
  <2>1. opts' # <<>> => Nameless'
    <3>1. \A i \in DOMAIN opts' : opts'[i].name = NULL
      BY <1>1, ExitDisposes
    <3>2. opts' # <<>> => 1 \in DOMAIN opts'
      BY DEF TypeOK
    <3>. QED  BY <3>1, <3>2 DEF Nameless
  <2>2. AllBlocks' = <<>> /\ buffer' = NULL
    BY <1>1 DEF cfg_exit, Idle, Locals, AllBlocks, fileVars
  <2>. QED  BY <2>1, <2>2, NothingHeld DEF Whole
<1>2. CASE ~cfg_exit /\ Intact
  BY <1>2, StepMoves DEF MovesAt, Outcome, Intact, Whole
<1>3. CASE ~cfg_exit /\ Nameless
  <2>1. opts \in Seq(Slot) /\ opts' \in Seq(Slot) /\ 1 \in 1..Len(opts)
    BY <1>3 DEF TypeOK, Nameless
  <2>2. CASE KeepsNames /\ Len(opts') = Len(opts)
    BY <1>3, <2>1, <2>2 DEF KeepsNames, Nameless, Whole
  <2>3. CASE StoreOption
    <3>1. PICK slot \in Slot : opts' = Append(opts, slot)
      BY <2>3, StoreMoves
    <3>. QED  BY <1>3, <2>1, <3>1 DEF Nameless, Whole
  <2>. QED  BY <1>3, <2>2, <2>3, StepKeeps
<1>. QED  BY <1>1, <1>2, <1>3 DEF Whole

-----------------------------------------------------------------------------
(* A turn of the loop of cfg_read_args or cfg_read_file: it sets the option *)
(* the grammar says, i, or none (0), and frees at most its old string.     *)
Turn(i) ==
    /\ TableStep(i, IF i = 0 THEN {} ELSE {opts[i].str})
    /\ \A j \in 1..Len(opts) : SetsIn(call, opts, mem, input, next, j) <=> j = i
    /\ i # 0 => ~Nameless /\ Assigned(i, GivenIn(call, opts[i].type, input, next))

LEMMA TableFrees ==
    ASSUME NEW i, NEW freed, TableStep(i, {}) PROVE TableStep(i, freed)
BY DEF TableStep

LEMMA FoundOption ==
    ASSUME TypeOK, NEW key, cfg_type(key) # "NOEXIST", ~Crashes(key)
    PROVE  /\ cfg_find(key) \in 1..Len(opts) /\ ~Nameless
           /\ cfg_type(key) = opts[cfg_find(key)].type
<1>1. cfg_find(key) # 0 /\ cfg_type(key) = opts[cfg_find(key)].type
  BY DEF cfg_type
<1>2. cfg_find(key) \in 0..Len(opts)
  BY FindType DEF TypeOK
<1>3. ~Nameless
  BY NamelessCrashes
<1>. QED  BY <1>1, <1>2, <1>3

LEMMA NumberTurn ==
    ASSUME TypeOK, NEW i \in 1..Len(opts), ~Nameless, opts[i].type # "STRING",
           NEW n \in Int, SetNumber(i, n), n = GivenIn(call, opts[i].type, input, next),
           \A j \in 1..Len(opts) : SetsIn(call, opts, mem, input, next, j) <=> j = i
    PROVE  Turn(i)
<1>1. TableStep(i, {}) /\ Assigned(i, n)
  BY NumberTable
<1>. QED  BY <1>1, TableFrees DEF Turn

LEMMA QuietTurn ==
    ASSUME TypeOK, UNCHANGED opts, Extends(mem, mem'),
           \A j \in 1..Len(opts) : ~SetsIn(call, opts, mem, input, next, j)
    PROVE  Turn(0)
<1>1. TableStep(0, {})
  BY SameTable
<1>. QED  BY <1>1 DEF Turn

LEMMA ArgTurn ==
    ASSUME InLoop
    PROVE  \E i \in 0..Len(opts) : Turn(i)
<1>1. /\ call = "read_args" /\ fault = "none" /\ input \in Seq(Text) /\ Arg \in Text
      /\ next \in 2..Len(input) /\ Len(input) \in Nat /\ Arg = input[next]
      /\ state = "CAPTURE" <=> ValueIn(opts, mem, input, next)
      /\ TypeOK /\ mem \in Seq(Content) /\ opts \in Seq(Slot)
  BY LoopPlaces, ArgKinds DEF InLoop, TypeOK, Arg
<1>2. /\ \A key : cfg_find(key) = FindIn(opts, mem, key)
      /\ First[Arg] \in Marks
  BY <1>1, FindIs, DataAssumption
<1>3. 0 \in 0..Len(opts)
  BY <1>1
<1>4. ASSUME ArgSwitchOff \/ ArgSwitchOn
      PROVE  \E i \in 0..Len(opts) : Turn(i)
  <2>. DEFINE i == cfg_find(Rest[Arg])  n == IF First[Arg] = "-" THEN 1 ELSE 0
  <2>1. /\ SetNumber(i, n) /\ state = "NORMAL" /\ First[Arg] \in {"+", "-"}
        /\ cfg_type(Rest[Arg]) = "SWITCH" /\ ~Crashes(Rest[Arg])
    BY <1>4 DEF ArgSwitchOff, ArgSwitchOn, Normal
  <2>2. i \in 1..Len(opts) /\ ~Nameless /\ opts[i].type = "SWITCH"
    BY <1>1, <2>1, FoundOption
  <2>3. i = FindIn(opts, mem, Rest[input[next]]) /\ n = GivenIn(call, opts[i].type, input, next) /\ n \in Int
    BY <1>1, <1>2, <2>2 DEF GivenIn
  <2>. HIDE DEF i, n
  <2>4. \A j \in 1..Len(opts) : SetsIn(call, opts, mem, input, next, j) <=> j = i
    BY <1>1, <2>1, <2>2, <2>3 DEF SetsIn
  <2>5. Turn(i)
    BY <1>1, <2>1, <2>2, <2>3, <2>4, NumberTurn
  <2>. QED  BY <2>2, <2>5
<1>5. CASE ArgCapture
  <2>1. /\ UNCHANGED <<mem, opts>> /\ state = "NORMAL" /\ First[Arg] = "-"
        /\ cfg_type(Rest[Arg]) \in Capturing /\ ~Crashes(Rest[Arg])
    BY <1>5 DEF ArgCapture, Normal, heapVars
  <2>2. opts[cfg_find(Rest[Arg])].type # "SWITCH"
    BY <1>1, <2>1, FoundOption DEF Capturing
  <2>3. \A j \in 1..Len(opts) : ~SetsIn(call, opts, mem, input, next, j)
    BY <1>1, <1>2, <2>1, <2>2 DEF SetsIn
  <2>4. Extends(mem, mem')
    BY <1>1, <2>1 DEF Extends
  <2>. QED  BY <1>1, <1>3, <2>1, <2>3, <2>4, QuietTurn
<1>6. CASE ArgCopied
  <2>1. /\ Copy(Arg) /\ UNCHANGED opts /\ state = "NORMAL"
        /\ \/ First[Arg] = "other"
           \/ First[Arg] = "-" /\ cfg_type(Rest[Arg]) = "NOEXIST"
    BY <1>6 DEF ArgCopied, Normal
  <2>2. Extends(mem, mem')
    BY <1>1, <2>1, CopyType DEF InLoop, TypeOK, CallState
  <2>3. First[Arg] = "-" => cfg_find(Rest[Arg]) = 0
    <3>1. ASSUME cfg_find(Rest[Arg]) # 0 PROVE opts[cfg_find(Rest[Arg])].type # "NOEXIST"
      <4>1. cfg_find(Rest[Arg]) \in 1..Len(opts)
        BY <1>1, <3>1, FindType
      <4>2. opts[cfg_find(Rest[Arg])] \in Slot
        BY <1>1, <4>1
      <4>. QED  BY <4>2 DEF Slot, ValueType
    <3>. QED  BY <2>1, <3>1 DEF cfg_type
  <2>4. \A j \in 1..Len(opts) : ~SetsIn(call, opts, mem, input, next, j)
    BY <1>1, <1>2, <2>1, <2>3 DEF SetsIn
  <2>. QED  BY <1>1, <1>3, <2>1, <2>2, <2>4, QuietTurn
<1>7. CASE ArgValue
  <2>. DEFINE i == cfg_find(current_option)
              v == IF opts[i].type = "STRING" THEN Arg ELSE Number(opts[i].type, Arg)
  <2>1. Assign(i, Arg) /\ state = "CAPTURE" /\ ~Crashes(current_option)
    BY <1>7 DEF ArgValue, InArgs
  <2>2. cfg_type(current_option) \in Capturing /\ current_option = Rest[input[next - 1]]
    BY <1>1, <2>1 DEF InLoop, KeyStored, CaptureConsistent
  <2>3. i \in 1..Len(opts) /\ ~Nameless /\ opts[i].type \in Capturing
    BY <1>1, <2>1, <2>2, FoundOption DEF Capturing
  <2>4. i = FindIn(opts, mem, Rest[input[next - 1]]) /\ v = GivenIn(call, opts[i].type, input, next)
    BY <1>1, <1>2, <2>2, <2>3 DEF GivenIn, Number, Capturing
  <2>5. TableStep(i, {}) /\ Assigned(i, v)
    BY <1>1, <2>1, <2>3, AssignTable
  <2>. HIDE DEF i, v
  <2>6. \A j \in 1..Len(opts) : SetsIn(call, opts, mem, input, next, j) <=> j = i
    BY <1>1, <2>1, <2>4 DEF SetsIn
  <2>7. Turn(i)
    BY <2>3, <2>4, <2>5, <2>6, TableFrees DEF Turn
  <2>. QED  BY <2>3, <2>7
<1>8. ~ArgRefused /\ ~ArgsReturn /\ ~ArgCrashes
  BY DEF ArgRefused, ArgsReturn, ArgCrashes, Finish, Return, Halt, InLoop
<1>. QED  BY <1>4, <1>5, <1>6, <1>7, <1>8 DEF ArgStep, InLoop

LEMMA ReplaceTable ==
    ASSUME TypeOK, NEW i \in 1..Len(opts), NEW s \in Text \cup {NULL}, ReplaceString(i, s),
           opts[i].type = "STRING"
    PROVE  TableStep(i, {opts[i].str}) /\ Assigned(i, s)
<1>. DEFINE m == cfgFREE(mem, {opts[i].str})
<1>1. PICK ok \in Grant : SetString(m, i, s, ok)
  BY DEF ReplaceString
<1>2. m \in Seq(Content) /\ Len(m) = Len(mem)
      /\ \A a \in 1..Len(mem) : m[a] = IF a \in {opts[i].str} THEN Freed ELSE mem[a]
  BY FreeFacts DEF TypeOK
<1>. HIDE DEF m
<1>. QED  BY <1>1, <1>2, StringTable

InLines == TypeOK /\ TypeOK' /\ LineStep /\ call' = "read_file" /\ fault' = "none"

LEMMA LineKinds ==
    ASSUME InLines
    PROVE  /\ LineSwitch \/ LineValue \/ LineSkipped
           /\ call = "read_file" /\ fault = "none" /\ TheLine \in Line
           /\ input' = input /\ next' = next + 1 /\ next \in 1..Len(input) /\ Len(input) \in Nat
<1>1. LineSwitch \/ LineValue \/ LineSkipped
  BY DEF InLines, LineStep, LineRefused, LineHalts, LineCrashes, FileReturns, Close, Return, Halt
<1>2. call = "read_file" /\ fault = "none" /\ More /\ Advance
  BY <1>1 DEF LineSwitch, LineValue, LineSkipped, At, In
<1>3. input \in Seq(Line) /\ next \in Nat \ {0}
  BY <1>2 DEF InLines, TypeOK
<1>4. next \in 1..Len(input) /\ Len(input) \in Nat
  BY <1>2, <1>3 DEF More
<1>. QED  BY <1>1, <1>2, <1>3, <1>4 DEF Advance, TheLine

LEMMA LineTurn ==
    ASSUME InLines
    PROVE  \E i \in 0..Len(opts) : Turn(i)
<1>1. /\ call = "read_file" /\ fault = "none" /\ TheLine \in Line /\ TheLine = input[next]
      /\ TheLine.key \in Text /\ TheLine.value \in Text /\ 0 \in 0..Len(opts)
      /\ TypeOK /\ mem \in Seq(Content) /\ opts \in Seq(Slot)
  BY LineKinds DEF InLines, TypeOK, TheLine, Line
<1>. DEFINE i == cfg_find(TheLine.key)
<1>2. i = FindIn(opts, mem, input[next].key)
  BY <1>1, FindIs
<1>3. CASE LineSwitch
  <2>. DEFINE n == IF TheLine.kind = "on" THEN 1 ELSE 0
  <2>1. /\ SetNumber(i, n) /\ TheLine.kind \in {"on", "off"} /\ ~Crashes(TheLine.key)
        /\ cfg_type(TheLine.key) = "SWITCH"
    BY <1>3 DEF LineSwitch, At, Known
  <2>2. i \in 1..Len(opts) /\ ~Nameless /\ opts[i].type = "SWITCH"
    BY <1>1, <2>1, FoundOption
  <2>3. n = GivenIn(call, opts[i].type, input, next) /\ n \in Int
    BY <1>1, <2>2 DEF GivenIn
  <2>. HIDE DEF i, n
  <2>4. \A j \in 1..Len(opts) : SetsIn(call, opts, mem, input, next, j) <=> j = i
    BY <1>1, <1>2, <2>1, <2>2 DEF SetsIn, Capturing
  <2>5. Turn(i)
    BY <1>1, <2>1, <2>2, <2>3, <2>4, NumberTurn
  <2>. QED  BY <2>2, <2>5
<1>4. CASE LineValue
  <2>1. /\ TheLine.kind = "set" /\ ~Crashes(TheLine.key) /\ cfg_type(TheLine.key) \in Capturing
        /\ IF opts[i].type = "STRING" THEN ReplaceString(i, TheLine.value)
                                      ELSE SetNumber(i, Number(opts[i].type, TheLine.value))
    BY <1>4 DEF LineValue, At, Known
  <2>2. i \in 1..Len(opts) /\ ~Nameless /\ opts[i].type \in Capturing
    BY <1>1, <2>1, FoundOption DEF Capturing
  <2>3. \A j \in 1..Len(opts) : SetsIn(call, opts, mem, input, next, j) <=> j = i
    <3>. HIDE DEF i
    <3>. QED  BY <1>1, <1>2, <2>1, <2>2 DEF SetsIn
  <2>4. CASE opts[i].type = "STRING"
    <3>1. TableStep(i, {opts[i].str}) /\ Assigned(i, TheLine.value)
      BY <1>1, <2>1, <2>2, <2>4, ReplaceTable
    <3>2. TheLine.value = GivenIn(call, opts[i].type, input, next)
      BY <1>1, <2>4 DEF GivenIn
    <3>. HIDE DEF i
    <3>3. Turn(i)
      BY <2>2, <2>3, <3>1, <3>2 DEF Turn
    <3>. QED  BY <2>2, <3>3
  <2>5. CASE opts[i].type # "STRING"
    <3>. DEFINE n == Number(opts[i].type, TheLine.value)
    <3>1. SetNumber(i, n) /\ n \in Int
      BY <1>1, <2>1, <2>5, NumberType
    <3>2. n = GivenIn(call, opts[i].type, input, next)
      BY <1>1, <2>2, <2>5 DEF GivenIn, Number, Capturing
    <3>. HIDE DEF i, n
    <3>3. Turn(i)
      BY <1>1, <2>2, <2>3, <2>5, <3>1, <3>2, NumberTurn
    <3>. QED  BY <2>2, <3>3
  <2>. QED  BY <2>4, <2>5
<1>5. CASE LineSkipped
  <2>1. /\ UNCHANGED <<mem, opts>>
        /\ \/ TheLine.kind = "comment"
           \/ /\ TheLine.kind = "set" /\ ~Crashes(TheLine.key)
              /\ cfg_type(TheLine.key) \in {"NOEXIST", "SWITCH"}
    BY <1>5 DEF LineSkipped, At, Known, heapVars
  <2>2. Extends(mem, mem')
    BY <1>1, <2>1 DEF Extends
  <2>3. TheLine.kind = "set" => i = 0 \/ opts[i].type \notin Capturing
    BY <2>1 DEF cfg_type, Capturing
  <2>. HIDE DEF i
  <2>4. \A j \in 1..Len(opts) : ~SetsIn(call, opts, mem, input, next, j)
    BY <1>1, <1>2, <2>1, <2>3 DEF SetsIn
  <2>. QED  BY <1>1, <2>1, <2>2, <2>4, QuietTurn
<1>. QED  BY <1>3, <1>4, <1>5, LineKinds

(* Nothing else changes in the table, and the element is the last of those *)
(* that set option i.                                                      *)
LEMMA TurnFacts ==
    ASSUME TypeOK, TypeOK', InRange, Whole, NEW i \in 0..Len(opts), Turn(i), next >= FirstPlace(call)
    PROVE  /\ DOMAIN opts = 1..Len(opts) /\ DOMAIN opts' = 1..Len(opts)
           /\ \A key : /\ FindIn(opts', mem', key) = FindIn(opts, mem, key)
                       /\ TypeIn(opts', mem', key) = TypeIn(opts, mem, key)
           /\ \A j \in 1..Len(opts) :
                 LET new == PlacesIn(call, opts', mem', input, next + 1, j)
                 IN  /\ opts'[j].type = opts[j].type
                     /\ IF j = i THEN new # {} /\ Max(new) = next
                        ELSE /\ new = PlacesIn(call, opts, mem, input, next, j)
                             /\ opts'[j] = opts[j] /\ ValueOf(j)' = ValueOf(j)
<1>. DEFINE freed == IF i = 0 THEN {} ELSE {opts[i].str}
            Sets1(p, j) == SetsIn(call, opts, mem, input, p, j)
            Sets2(p, j) == SetsIn(call, opts', mem', input, p, j)
            Old(j) == PlacesIn(call, opts, mem, input, next, j)
            New(j) == PlacesIn(call, opts', mem', input, next + 1, j)
<1>1. /\ opts \in Seq(Slot) /\ opts' \in Seq(Slot) /\ next \in Nat /\ FirstPlace(call) \in {1, 2}
      /\ DOMAIN opts = 1..Len(opts) /\ DOMAIN opts' = 1..Len(opts) /\ DOMAIN mem = 1..Len(mem)
  BY DEF TypeOK, FirstPlace, Turn, TableStep
<1>2. ASSUME NEW j \in 1..Len(opts)
      PROVE  /\ opts[j].name # NULL => opts[j].name \notin freed
             /\ opts[j].abbrev # NULL => opts[j].abbrev \notin freed
             /\ j # i /\ opts[j].str # NULL => opts[j].str \notin freed
  <2>1. i # 0 => Intact
    BY DEF Turn, Whole
  <2>2. i # 0 => i \in 1..Len(opts)
    BY <1>1
  <2>. QED  BY <2>1, <2>2, StringApart
<1>3. TableStep(i, freed)
  BY DEF Turn
<1>4. \A key : /\ FindIn(opts', mem', key) = FindIn(opts, mem, key)
               /\ TypeIn(opts', mem', key) = TypeIn(opts, mem, key)
  <2>. HIDE DEF freed
  <2>. QED  BY <1>2, <1>3, FindKept
<1>5. ASSUME NEW j \in 1..Len(opts)
      PROVE  opts'[j].type = opts[j].type /\ \A p : Sets2(p, j) <=> Sets1(p, j)
  <2>1. opts'[j].type = opts[j].type
    BY <1>3 DEF TableStep
  <2>2. NamesIn(opts', mem', input) = NamesIn(opts, mem, input)
    BY <1>4 DEF NamesIn
  <2>3. \A p : ValueIn(opts', mem', input, p) <=> ValueIn(opts, mem, input, p)
    BY <2>2 DEF ValueIn
  <2>. QED  BY <1>4, <2>1, <2>3 DEF SetsIn
<1>6. ASSUME NEW j \in 1..Len(opts)
      PROVE  IF j = i THEN New(j) # {} /\ Max(New(j)) = next
             ELSE New(j) = Old(j) /\ opts'[j] = opts[j] /\ ValueOf(j)' = ValueOf(j)
  <2>1. \A p : Sets2(p, j) <=> Sets1(p, j)
    BY <1>5
  <2>2. Sets1(next, j) <=> j = i
    BY DEF Turn
  <2>3. CASE j = i
    <3>1. New(j) \in SUBSET (0..next) /\ next \in New(j)
      <4>. HIDE DEF Sets1
      <4>1. Sets2(next, j)
        BY <2>1, <2>2, <2>3
      <4>. QED  BY <1>1, <4>1 DEF PlacesIn
    <3>. HIDE DEF New
    <3>2. Max(New(j)) \in New(j) /\ \A x \in New(j) : x <= Max(New(j))
      BY <1>1, <3>1, MaxFacts
    <3>3. Max(New(j)) \in 0..next /\ next <= Max(New(j))
      BY <3>1, <3>2
    <3>. QED  BY <1>1, <2>3, <3>1, <3>3
  <2>4. CASE j # i
    <3>1. New(j) = Old(j)
      <4>1. ~Sets1(next, j)
        BY <2>2, <2>4
      <4>2. \A p \in FirstPlace(call)..next : Sets2(p, j) <=> Sets1(p, j)
        BY <2>1
      <4>. HIDE DEF Sets1, Sets2
      <4>3. {p \in FirstPlace(call)..next : Sets2(p, j)} = {p \in FirstPlace(call)..(next - 1) : Sets1(p, j)}
        BY <1>1, <4>1, <4>2
      <4>4. FirstPlace(call)..((next + 1) - 1) = FirstPlace(call)..next
        BY <1>1
      <4>. QED  BY <4>3, <4>4 DEF PlacesIn, Sets1, Sets2
    <3>2. opts'[j] = opts[j]
      BY <1>3, <2>4 DEF TableStep
    <3>3. ValueOf(j)' = ValueOf(j)
      <4>1. opts[j].str = NULL \/ (opts[j].str \in 1..Len(mem) /\ mem'[opts[j].str] = mem[opts[j].str])
        <5>. HIDE DEF freed
        <5>. QED  BY <1>1, <1>2, <1>3, <2>4 DEF InRange, TableStep
      <4>. QED  BY <3>2, <4>1 DEF ValueOf
    <3>. HIDE DEF Old, New
    <3>. QED  BY <2>4, <3>1, <3>2, <3>3
  <2>. QED  BY <2>3, <2>4
<1>. HIDE DEF Old, New
<1>7. \A j \in 1..Len(opts) :
         /\ opts'[j].type = opts[j].type
         /\ IF j = i THEN New(j) # {} /\ Max(New(j)) = next
            ELSE New(j) = Old(j) /\ opts'[j] = opts[j] /\ ValueOf(j)' = ValueOf(j)
  BY <1>5, <1>6
<1>. QED  BY <1>1, <1>4, <1>7 DEF Old, New

LEMMA WinsTurn ==
    ASSUME TypeOK, TypeOK', InRange, Whole, Wins, NEW i \in 0..Len(opts), Turn(i), failed => failed',
           call \in {"read_args", "read_file"}, fault = "none", UNCHANGED <<call, input>>,
           next' = next + 1, next >= FirstPlace(call)
    PROVE  Wins'
<1>. DEFINE Old(j) == PlacesIn(call, opts, mem, input, next, j)
            New(j) == PlacesIn(call, opts', mem', input, next + 1, j)
<1>1. /\ DOMAIN opts = 1..Len(opts) /\ DOMAIN opts' = 1..Len(opts)
      /\ \A j \in 1..Len(opts) :
            /\ opts'[j].type = opts[j].type
            /\ IF j = i THEN New(j) # {} /\ Max(New(j)) = next
               ELSE New(j) = Old(j) /\ opts'[j] = opts[j] /\ ValueOf(j)' = ValueOf(j)
  BY TurnFacts
<1>2. i # 0 => /\ opts'[i].input
               /\ \/ ValueOf(i)' = GivenIn(call, opts[i].type, input, next)
                  \/ failed' /\ opts'[i].type = "STRING" /\ opts'[i].str = NULL
  BY DEF Turn, Assigned
<1>3. \A j \in 1..Len(opts) : Won(call, input, Old(j), opts[j], ValueOf(j), failed)
  BY <1>1 DEF Wins
<1>. HIDE DEF Old, New
<1>4. ASSUME NEW j \in 1..Len(opts)
      PROVE  Won(call, input, New(j), opts'[j], ValueOf(j)', failed')
  BY <1>1, <1>2, <1>3 DEF Won
<1>5. \A j \in DOMAIN opts' : Won(call', input', New(j), opts'[j], ValueOf(j)', failed')
  BY <1>1, <1>4
<1>. QED  BY <1>5 DEF Wins, New

(* The steps outside the loop of cfg_read_file. *)
LEMMA LineSteps ==
    ASSUME [Next]_vars, call' = "read_file"
    PROVE  UNCHANGED vars \/ LineStep \/ \E lines : ReadFile(lines)
<1>1. ASSUME ClientStep PROVE \E lines : ReadFile(lines)
  BY <1>1 DEF ClientStep, cfg_init, cfg_exit, ExitCrashes, LifeHalts, AddOptions, ReadArgsHalts,
              ReadArgs, ReadFileMissing, ReadFileNoBuffer, cfg_set_number, cfg_set_string,
              AccessHalts, Idle, Halt, Enter, Return, callVars
<1>2. ASSUME StoreStep PROVE FALSE
  <2>1. ASSUME NEW o, NEW ok, cfg_store(o, ok), call # "read_file" PROVE FALSE
    BY <2>1 DEF cfg_store, Advance, Return
  <2>. QED  BY <1>2, <2>1
            DEF StoreStep, StoreOption, StoreHalts, AddOptionsReturns, In, Halt, Return, callVars
<1>3. ASSUME ArgStep PROVE FALSE
  BY <1>3 DEF ArgStep, ArgSwitchOff, ArgRefused, ArgSwitchOn, ArgCapture, ArgCopied, ArgValue,
              ArgCrashes, ArgsReturn, Normal, InArgs, In, Halt, Finish, Return, Advance, callVars
<1>. QED  BY <1>1, <1>2, <1>3 DEF Next

LEMMA StillWins ==
    ASSUME Wins, UNCHANGED vars
    PROVE  Wins'
<1>1. UNCHANGED <<mem, failed, opts, call, input, next, fault>>
  BY DEF vars, heapVars, callVars
<1>2. \A i : ValueOf(i)' = ValueOf(i)
  BY <1>1 DEF ValueOf
<1>. QED  BY <1>1, <1>2 DEF Wins

(* A call that starts has read nothing. *)
LEMMA StartWins ==
    ASSUME call' \in {"read_args", "read_file"}, next' = FirstPlace(call')
    PROVE  Wins'
<1>1. \A i : PlacesIn(call', opts', mem', input', next', i) = {}
  BY DEF PlacesIn, FirstPlace
<1>. QED  BY <1>1 DEF Wins, Won

LEMMA WinsStep ==
    ASSUME TypeOK, TypeOK', CallState, CallState', Naming, MemoryInvariant, MemoryInvariant',
           ArgsInvariant, Whole, Wins, [Next]_vars
    PROVE  Wins'
<1>1. CASE call' \notin {"read_args", "read_file"} \/ fault' # "none" \/ UNCHANGED vars
  BY <1>1, StillWins DEF Wins
<1>2. CASE call' = "read_args" /\ fault' = "none" /\ ArgStep
  <2>1. InLoop
    BY <1>2 DEF InLoop, MemoryInvariant, ArgsInvariant, Naming
  <2>2. /\ call = "read_args" /\ fault = "none" /\ input' = input /\ next' = next + 1
        /\ next >= FirstPlace(call)
    BY <2>1, LoopPlaces DEF FirstPlace
  <2>3. PICK i \in 0..Len(opts) : Turn(i)
    BY <2>1, ArgTurn
  <2>. QED  BY <1>2, <2>2, <2>3, FailedStays, WinsTurn DEF Naming
<1>3. CASE call' = "read_file" /\ fault' = "none" /\ LineStep
  <2>1. InLines
    BY <1>3 DEF InLines
  <2>2. /\ call = "read_file" /\ fault = "none" /\ input' = input /\ next' = next + 1
        /\ next >= FirstPlace(call)
    BY <2>1, LineKinds DEF FirstPlace
  <2>3. PICK i \in 0..Len(opts) : Turn(i)
    BY <2>1, LineTurn
  <2>. QED  BY <1>3, <2>2, <2>3, FailedStays, WinsTurn DEF Naming
<1>4. CASE \E argv \in ArgVectors : ReadArgs(argv)
  BY <1>4, StartWins DEF ReadArgs, Enter, FirstArg, FirstPlace
<1>5. CASE \E lines : ReadFile(lines)
  BY <1>5, StartWins DEF ReadFile, Enter, FirstPlace
<1>. QED  BY <1>1, <1>2, <1>3, <1>4, <1>5, ArgSteps, LineSteps

LEMMA WinsGiveLast ==
    ASSUME TypeOK, MemoryInvariant, ArgsInvariant
    PROVE  next \in Nat /\ (LastWins <=> Wins)
<1>1. next \in Nat /\ Placed
  BY DEF TypeOK, MemoryInvariant, BlockRoom, ArgsInvariant, ArgsSoFar, FirstArg, Placed
<1>. QED  BY <1>1, WinsIs

(* While arguments or a file are read, of any length and in any table,     *)
(* every option has the value last given for it, by its name or its        *)
(* abbreviation, or none if malloc refused it (cfg_copy_to_option,         *)
(* cfg_read_file).                                                         *)
THEOREM LastWinsHolds == Spec => []LastWins
<1>1. Init => Whole /\ Wins
  BY InitWhole DEF Init, Wins
<1>2. TypeOK /\ TypeOK' /\ CallState /\ CallState' /\ Naming /\ MemoryInvariant /\ MemoryInvariant'
        /\ ArgsInvariant /\ Whole /\ Wins /\ [Next]_vars => Whole' /\ Wins'
  BY WinsStep, WholeStep DEF MemoryInvariant
<1>3. TypeOK /\ MemoryInvariant /\ ArgsInvariant /\ Wins => LastWins
  BY WinsGiveLast
<1>. QED  BY <1>1, <1>2, <1>3, ArgsHold, PTL DEF Spec

-----------------------------------------------------------------------------
(* The slot cfg_store adds has the option's texts wherever it has a        *)
(* pointer, and the call goes on only if the two it can be found by are    *)
(* there.                                                                  *)
SlotOf(o, slot) ==
    /\ slot \in Slot
    /\ slot.type = o.type /\ slot.num = o.num /\ ~slot.input
    /\ slot.name # NULL => Live(mem', slot.name) /\ mem'[slot.name] = o.name
    /\ slot.abbrev # NULL => Live(mem', slot.abbrev) /\ mem'[slot.abbrev] = o.abbrev
    /\ slot.str # NULL => mem'[slot.str] = o.str
    /\ Advance \/ (Return(FALSE) /\ failed')
    /\ Advance => slot.name # NULL /\ (o.abbrev # NULL => slot.abbrev # NULL)

LEMMA CopyOf ==
    ASSUME NEW m, NEW n \in Seq(Content), NEW l, NEW s \in Text, NEW ptr,
           Fresh(m, n, s, ptr), Extends(n, l), ptr # NULL, Len(m) \in Nat
    PROVE  Live(l, ptr) /\ l[ptr] = s
<1>1. ptr \in 1..Len(n) /\ n[ptr] = s /\ ptr \in 1..Len(l) /\ l[ptr] = n[ptr] /\ l \in Seq(Content)
  BY DEF Fresh, Extends
<1>. QED  BY <1>1, HeapAssumption DEF Live

LEMMA SlotStored ==
    ASSUME TypeOK, StoreOption
    PROVE  /\ input[next] \in Option /\ Extends(mem, mem')
           /\ \E slot : opts' = Append(opts, slot) /\ SlotOf(input[next], slot)
<1>. DEFINE o == input[next]
<1>1. o \in Option /\ mem \in Seq(Content) /\ opts \in Seq(Slot) /\ failed \in BOOLEAN
  BY DEF StoreOption, In, More, TypeOK
<1>2. PICK ok \in [1..4 -> Grant] : cfg_store(o, ok)
  BY DEF StoreOption
<1>. HIDE DEF o
<1>. DEFINE name   == cfg_copy_string(mem, o.name, ok[1])
            abbrev == cfg_copy_string(name.mem, o.abbrev, ok[2])
            desc   == cfg_copy_string(abbrev.mem, o.desc, ok[3])
            value  == IF o.type = "STRING" THEN o.str ELSE NULL
            str    == cfg_copy_string(desc.mem, value, ok[4])
            slot   == [name |-> name.ptr, abbrev |-> abbrev.ptr, desc |-> desc.ptr,
                       type |-> o.type, num |-> o.num, str |-> str.ptr, input |-> FALSE]
<1>3. /\ mem' = str.mem /\ opts' = Append(opts, slot)
      /\ IF name.ptr # NULL /\ (abbrev.ptr = NULL <=> o.abbrev = NULL) THEN Advance ELSE Return(FALSE)
      /\ o.name # NULL /\ name.ptr = NULL => failed'
      /\ o.abbrev # NULL /\ abbrev.ptr = NULL => failed'
  <2>. HIDE DEF slot, str, value, desc, abbrev, name
  <2>. QED  BY <1>2 DEF cfg_store, Complete, Refused, name, abbrev, desc, value, str, slot
<1>4. /\ o.name \in Text /\ o.abbrev \in Text \cup {NULL}
      /\ o.desc \in Text \cup {NULL} /\ value \in Text \cup {NULL}
      /\ o.type \in ValueType /\ o.num \in Int
  BY <1>1 DEF Option
<1>5. ok[1] \in BOOLEAN /\ ok[2] \in BOOLEAN /\ ok[3] \in BOOLEAN /\ ok[4] \in BOOLEAN
  BY GrantType
<1>6. str.ptr # NULL => value = o.str /\ value # NULL
  BY DEF cfg_copy_string, cfgALLOC
<1>7. abbrev.ptr # NULL => o.abbrev # NULL
  BY DEF cfg_copy_string, cfgALLOC
<1>. HIDE DEF value
<1>8. Extends(mem, name.mem) /\ Fresh(mem, name.mem, o.name, name.ptr)
  BY <1>1, <1>4, <1>5, CopyExtends
<1>. HIDE DEF name
<1>9. Extends(name.mem, abbrev.mem) /\ Fresh(name.mem, abbrev.mem, o.abbrev, abbrev.ptr)
  BY <1>4, <1>5, <1>8, CopyExtends DEF Extends
<1>. HIDE DEF abbrev
<1>10. Extends(abbrev.mem, desc.mem) /\ Fresh(abbrev.mem, desc.mem, o.desc, desc.ptr)
  BY <1>4, <1>5, <1>9, CopyExtends DEF Extends
<1>. HIDE DEF desc
<1>11. Extends(desc.mem, str.mem) /\ Fresh(desc.mem, str.mem, value, str.ptr)
  BY <1>4, <1>5, <1>10, CopyExtends DEF Extends
<1>. HIDE DEF str
<1>12. /\ Extends(abbrev.mem, mem') /\ Extends(name.mem, mem') /\ Extends(mem, mem')
       /\ Extends(mem', mem')
  <2>1. Extends(abbrev.mem, mem')
    BY <1>3, <1>10, <1>11, ExtendsTransitive
  <2>2. Extends(name.mem, mem')
    BY <1>9, <2>1, ExtendsTransitive
  <2>3. Extends(mem, mem')
    BY <1>8, <2>2, ExtendsTransitive
  <2>. QED  BY <2>1, <2>2, <2>3 DEF Extends
<1>13. /\ name.mem \in Seq(Content) /\ abbrev.mem \in Seq(Content) /\ desc.mem \in Seq(Content)
       /\ mem' \in Seq(Content)
  BY <1>12, <1>10, <1>11 DEF Extends
<1>14. name.ptr # NULL => Live(mem', name.ptr) /\ mem'[name.ptr] = o.name
  BY <1>1, <1>4, <1>8, <1>12, <1>13, CopyOf
<1>15. abbrev.ptr # NULL => Live(mem', abbrev.ptr) /\ mem'[abbrev.ptr] = o.abbrev
  BY <1>4, <1>7, <1>9, <1>12, <1>13, CopyOf
<1>16. str.ptr # NULL => mem'[str.ptr] = o.str
  BY <1>3, <1>6, <1>11 DEF Fresh
<1>17. slot \in Slot
  <2>1. /\ Len(mem) \in Nat /\ Len(name.mem) \in Nat /\ Len(abbrev.mem) \in Nat
        /\ Len(desc.mem) \in Nat /\ Len(mem') \in Nat
    BY <1>1, <1>13
  <2>2. name.ptr \in Ptr
    BY <1>8, <2>1 DEF Fresh, Ptr
  <2>3. abbrev.ptr \in Ptr
    BY <1>9, <2>1 DEF Fresh, Ptr
  <2>4. desc.ptr \in Ptr
    BY <1>10, <2>1 DEF Fresh, Ptr
  <2>5. str.ptr \in Ptr
    BY <1>11, <2>1, <1>3 DEF Fresh, Ptr
  <2>. QED  BY <1>4, <2>2, <2>3, <2>4, <2>5 DEF Slot
<1>18. /\ slot.name = name.ptr /\ slot.abbrev = abbrev.ptr /\ slot.str = str.ptr
       /\ slot.type = o.type /\ slot.num = o.num /\ ~slot.input
  OBVIOUS
<1>. HIDE DEF slot
<1>19. Advance => ~Return(FALSE)
  BY DEF Advance, Return, StoreOption, In
<1>20. /\ Advance \/ (Return(FALSE) /\ failed')
       /\ Advance => name.ptr # NULL /\ (o.abbrev # NULL => abbrev.ptr # NULL)
  <2>1. CASE name.ptr # NULL /\ (abbrev.ptr = NULL <=> o.abbrev = NULL)
    BY <1>3, <2>1
  <2>2. CASE ~(name.ptr # NULL /\ (abbrev.ptr = NULL <=> o.abbrev = NULL))
    <3>1. Return(FALSE)
      BY <1>3, <2>2
    <3>2. failed'
      BY <1>3, <1>4, <1>7, <2>2, HeapAssumption
    <3>. QED  BY <1>19, <3>1, <3>2
  <2>. QED  BY <2>1, <2>2
<1>21. SlotOf(o, slot)
  BY <1>14, <1>15, <1>16, <1>17, <1>18, <1>20 DEF SlotOf
<1>. QED  BY <1>1, <1>3, <1>12, <1>21 DEF o

-----------------------------------------------------------------------------
(* cfg_add_options tells the truth. *)
LEMMA AddedStep ==
    ASSUME TypeOK, TypeOK', AddedSoFar, [Next]_vars
    PROVE  AddedSoFar'
<1>. SUFFICES ASSUME call' = "add_options" PROVE AddedSoFar'
  BY DEF AddedSoFar
<1>1. CASE \E list : AddOptions(list)
  <2>1. next' = 1
    BY <1>1 DEF AddOptions, Enter
  <2>. QED  BY <2>1 DEF AddedSoFar
<1>2. CASE StoreOption
  <2>1. PICK slot : opts' = Append(opts, slot) /\ SlotOf(input[next], slot)
    BY <1>2, SlotStored
  <2>2. /\ Advance /\ call = "add_options" /\ next \in Nat \ {0} /\ input' = input /\ next' = next + 1
        /\ opts \in Seq(Slot) /\ slot \in Slot /\ mem \in Seq(Content) /\ Extends(mem, mem')
    BY <1>2, <2>1, SlotStored DEF SlotOf, Return, StoreOption, In, TypeOK, Advance
  <2>3. /\ DOMAIN opts = 1..Len(opts) /\ DOMAIN opts' = 1..(Len(opts) + 1) /\ Len(opts) \in Nat
        /\ \A i \in 1..Len(opts) : opts'[i] = opts[i]
        /\ opts'[Len(opts) + 1] = slot
    BY <2>1, <2>2
  <2>4. ASSUME NEW k \in 1..(next - 1)
        PROVE  \E i \in DOMAIN opts' : StoredAs(i, input[k])'
    <3>1. PICK i \in DOMAIN opts : StoredAs(i, input[k])
      BY <2>2 DEF AddedSoFar
    <3>2. \A ptr : Live(mem, ptr) => Live(mem', ptr) /\ mem'[ptr] = mem[ptr]
      BY <2>2 DEF Live, Extends
    <3>3. StoredAs(i, input[k])'
      BY <2>2, <2>3, <3>1, <3>2 DEF StoredAs
    <3>. QED  BY <2>3, <3>3
  <2>5. ASSUME NEW i, i = Len(opts) + 1, NEW o, o = input[next]
        PROVE  StoredAs(i, o)'
    <3>1. opts'[i] = slot /\ slot.name # NULL /\ (o.abbrev # NULL => slot.abbrev # NULL)
      BY <2>1, <2>2, <2>3, <2>5 DEF SlotOf
    <3>. QED  BY <2>1, <2>5, <3>1 DEF StoredAs, SlotOf
  <2>6. ASSUME NEW k, k = next
        PROVE  \E i \in DOMAIN opts' : StoredAs(i, input[k])'
    <3>1. PICK i : i = Len(opts) + 1
      OBVIOUS
    <3>2. PICK o : o = input[next]
      OBVIOUS
    <3>3. StoredAs(i, o)' /\ i \in DOMAIN opts'
      BY <2>3, <2>5, <3>1, <3>2
    <3>4. o' = o /\ i' = i /\ input'[k] = o
      BY <2>2, <2>6, <3>2
    <3>. QED  BY <3>3, <3>4 DEF StoredAs
  <2>7. ASSUME NEW k \in 1..(next' - 1)
        PROVE  k \in 1..(next - 1) \/ k = next
    BY <2>2
  <2>. QED  BY <2>4, <2>6, <2>7 DEF AddedSoFar
<1>3. ASSUME UNCHANGED <<mem, opts, call, input, next>>
      PROVE  AddedSoFar'
  BY <1>3 DEF AddedSoFar, StoredAs
<1>4. CASE ClientStep
  <2>1. ClientStep => call = "none"
    BY DEF ClientStep, cfg_init, cfg_exit, ExitCrashes, LifeHalts, AddOptions, ReadArgs, ReadArgsHalts,
           ReadFile, ReadFileMissing, ReadFileNoBuffer, cfg_set_number, cfg_set_string, AccessHalts, Idle
  <2>2. \E list : AddOptions(list)
    BY <1>4, <2>1 DEF ClientStep, cfg_init, cfg_exit, ExitCrashes, LifeHalts, ReadArgs, ReadArgsHalts,
           ReadFile, ReadFileMissing, ReadFileNoBuffer, cfg_set_number, cfg_set_string, AccessHalts,
           Enter, Return, Halt, callVars
  <2>. QED  BY <1>1, <2>2
<1>5. CASE StoreHalts \/ AddOptionsReturns \/ UNCHANGED vars
  <2>1. UNCHANGED <<mem, opts, call, input, next>>
    BY <1>5 DEF StoreHalts, AddOptionsReturns, Return, Halt, vars, heapVars, callVars
  <2>. QED  BY <1>3, <2>1
<1>6. ~ArgStep /\ ~LineStep
  BY DEF ArgStep, ArgSwitchOff, ArgRefused, ArgSwitchOn, ArgCapture, ArgCopied, ArgValue, ArgCrashes,
         ArgsReturn, Normal, InArgs, In, Finish, Return, Advance, Halt, callVars, LineStep, LineSwitch,
         LineValue, LineSkipped, LineRefused, LineHalts, LineCrashes, FileReturns, At, Close
<1>. QED  BY <1>2, <1>4, <1>5, <1>6 DEF Next, StoreStep

LEMMA AddReportsStep ==
    ASSUME TypeOK, AddedSoFar, [Next]_vars, call = "add_options", call' = "none", result'
    PROVE  \A k \in DOMAIN input : \E i \in DOMAIN opts : StoredAs(i, input[k])
<1>1. AddOptionsReturns
  <2>1. ~ClientStep
    BY DEF ClientStep, cfg_init, cfg_exit, ExitCrashes, LifeHalts, AddOptions, ReadArgs, ReadArgsHalts,
           ReadFile, ReadFileMissing, ReadFileNoBuffer, cfg_set_number, cfg_set_string, AccessHalts, Idle
  <2>2. ~ArgStep /\ ~LineStep
    BY DEF ArgStep, ArgSwitchOff, ArgRefused, ArgSwitchOn, ArgCapture, ArgCopied, ArgValue, ArgCrashes,
           ArgsReturn, Normal, InArgs, In, LineStep, LineSwitch,
           LineValue, LineSkipped, LineRefused, LineHalts, LineCrashes, FileReturns, At
  <2>3. ~StoreHalts /\ ~UNCHANGED vars
    BY DEF StoreHalts, Halt, vars, callVars
  <2>4. ~StoreOption
    <3>1. StoreOption => Advance \/ Return(FALSE)
      BY SlotStored DEF SlotOf
    <3>. QED  BY <3>1 DEF Advance, Return
  <2>. QED  BY <2>1, <2>2, <2>3, <2>4 DEF Next, StoreStep
<1>2. next \in Nat \ {0} /\ input \in Seq(Option) /\ ~(next <= Len(input))
  BY <1>1 DEF AddOptionsReturns, More, In, TypeOK
<1>3. \A k \in DOMAIN input : k \in 1..(next - 1)
  BY <1>2
<1>. QED  BY <1>3 DEF AddedSoFar

(* When cfg_add_options returns true, every option of the array is in the  *)
(* table under its name, with its abbreviation and its type, for arrays of *)
(* any length and whichever allocations fail (config.c:120-134, 330-334).  *)
THEOREM AddReportsFailureHolds == Spec => AddReportsFailure
<1>1. Init => AddedSoFar
  BY DEF Init, AddedSoFar
<1>2. TypeOK /\ TypeOK' /\ AddedSoFar /\ [Next]_vars => AddedSoFar'
  BY AddedStep
<1>3. TypeOK /\ AddedSoFar /\ [Next]_vars =>
        [ call = "add_options" /\ call' = "none" /\ result' =>
            \A k \in DOMAIN input : \E i \in DOMAIN opts :
                /\ opts[i].type = input[k].type
                /\ Live(mem, opts[i].name) /\ mem[opts[i].name] = input[k].name
                /\ input[k].abbrev # NULL =>
                      Live(mem, opts[i].abbrev) /\ mem[opts[i].abbrev] = input[k].abbrev ]_vars
  BY AddReportsStep DEF StoredAs
<1>. QED  BY <1>1, <1>2, <1>3, TypeCorrect, PTL DEF Spec, AddReportsFailure

-----------------------------------------------------------------------------
(* The options by name, for any options os and memory m. *)
NamedIn(os, m) == {i \in DOMAIN os : Live(m, os[i].name)}

StoredValue(os, m, i) ==
    IF os[i].type # "STRING" THEN os[i].num
    ELSE IF os[i].str = NULL THEN NULL ELSE m[os[i].str]

SettingIn(os, m, i) == [type |-> os[i].type, value |-> StoredValue(os, m, i), input |-> os[i].input]

SettingsIn(os, m) ==
    [n \in {m[os[i].name] : i \in NamedIn(os, m)} |->
        SettingIn(os, m, CHOOSE j \in NamedIn(os, m) : m[os[j].name] = n)]

LEMMA SettingsIs ==
    /\ settings = SettingsIn(opts, mem) /\ settings' = SettingsIn(opts', mem')
    /\ \A i : ValueOf(i) = StoredValue(opts, mem, i) /\ ValueOf(i)' = StoredValue(opts', mem', i)
<1>1. \A i : ValueOf(i) = StoredValue(opts, mem, i) /\ ValueOf(i)' = StoredValue(opts', mem', i)
  BY DEF ValueOf, StoredValue
<1>2. settings = SettingsIn(opts, mem)
  BY DEF settings, NamedOptions, SettingsIn, SettingIn, NamedIn, ValueOf, StoredValue
<1>3. settings' = SettingsIn(opts', mem')
  BY DEF settings, NamedOptions, SettingsIn, SettingIn, NamedIn, ValueOf, StoredValue
<1>. QED  BY <1>1, <1>2, <1>3

(* No two options have the same name. *)
Apart(os, m) == \A i, j \in NamedIn(os, m) : m[os[i].name] = m[os[j].name] => i = j

LEMMA NamesDiffer ==
    ASSUME NEW os \in Seq(Slot), NEW m \in Seq(Content),
           \A i \in DOMAIN os : Live(m, os[i].name) =>
               \A j \in 1..(i - 1) : Live(m, os[j].name) /\ m[os[j].name] # m[os[i].name]
    PROVE  /\ Apart(os, m)
           /\ os # <<>> /\ os[1].name = NULL => NamedIn(os, m) = {}
<1>1. DOMAIN os = 1..Len(os) /\ Len(os) \in Nat /\ DOMAIN m = 1..Len(m) /\ Len(m) \in Nat
  OBVIOUS
<1>2. ASSUME NEW i \in NamedIn(os, m), NEW j \in NamedIn(os, m), m[os[i].name] = m[os[j].name], i # j
      PROVE  FALSE
  <2>1. i \in 1..(j - 1) \/ j \in 1..(i - 1)
    BY <1>1, <1>2 DEF NamedIn
  <2>. QED  BY <1>1, <1>2, <2>1 DEF NamedIn
<1>3. ASSUME os[1].name = NULL, NEW i \in NamedIn(os, m)
      PROVE  FALSE
  <2>1. ~Live(m, os[1].name)
    BY <1>1, <1>3, HeapAssumption DEF Live
  <2>2. i = 1 \/ 1 \in 1..(i - 1)
    BY <1>1 DEF NamedIn
  <2>. QED  BY <1>1, <1>3, <2>1, <2>2 DEF NamedIn
<1>. QED  BY <1>2, <1>3 DEF Apart

LEMMA NowApart ==
    ASSUME TypeOK, TypeOK', NamesApart, NamesApart'
    PROVE  /\ Apart(opts, mem) /\ Apart(opts', mem')
           /\ Nameless => NamedIn(opts, mem) = {}
           /\ Nameless' => NamedIn(opts', mem') = {}
<1>1. /\ opts \in Seq(Slot) /\ opts' \in Seq(Slot) /\ mem \in Seq(Content) /\ mem' \in Seq(Content)
  BY DEF TypeOK
<1>2. \A i \in DOMAIN opts : Live(mem, opts[i].name) =>
         \A j \in 1..(i - 1) : Live(mem, opts[j].name) /\ mem[opts[j].name] # mem[opts[i].name]
  BY DEF NamesApart, StopsAt, Matches
<1>3. \A i \in DOMAIN opts' : Live(mem', opts'[i].name) =>
         \A j \in 1..(i - 1) : Live(mem', opts'[j].name) /\ mem'[opts'[j].name] # mem'[opts'[i].name]
  BY DEF NamesApart, StopsAt, Matches
<1>. QED  BY <1>1, <1>2, <1>3, NamesDiffer DEF Nameless

LEMMA SettingsFacts ==
    ASSUME NEW os, NEW m, Apart(os, m)
    PROVE  /\ DOMAIN SettingsIn(os, m) = {m[os[i].name] : i \in NamedIn(os, m)}
           /\ \A i \in NamedIn(os, m) : SettingsIn(os, m)[m[os[i].name]] = SettingIn(os, m, i)
<1>1. ASSUME NEW i \in NamedIn(os, m)
      PROVE  (CHOOSE j \in NamedIn(os, m) : m[os[j].name] = m[os[i].name]) = i
  BY DEF Apart
<1>. QED  BY <1>1 DEF SettingsIn

LEMMA NothingNamed ==
    ASSUME NEW os, NEW m, NamedIn(os, m) = {}
    PROVE  DOMAIN SettingsIn(os, m) = {}
<1>1. DOMAIN SettingsIn(os, m) = {m[os[i].name] : i \in NamedIn(os, m)}
  BY DEF SettingsIn
<1>2. \A n \in {m[os[i].name] : i \in NamedIn(os, m)} : \E i \in NamedIn(os, m) : TRUE
  OBVIOUS
<1>. QED  BY <1>1, <1>2

LEMMA SettingsSame ==
    ASSUME NEW os, NEW m, NEW os2, NEW m2,
           DOMAIN SettingsIn(os2, m2) = DOMAIN SettingsIn(os, m),
           \A n \in DOMAIN SettingsIn(os, m) : SettingsIn(os2, m2)[n] = SettingsIn(os, m)[n]
    PROVE  SettingsIn(os2, m2) = SettingsIn(os, m)
<1>. DEFINE f == SettingsIn(os, m)  g == SettingsIn(os2, m2)
<1>1. f = [n \in DOMAIN f |-> f[n]] /\ g = [n \in DOMAIN g |-> g[n]]
  BY DEF SettingsIn
<1>. HIDE DEF f, g
<1>2. DOMAIN g = DOMAIN f /\ \A n \in DOMAIN f : g[n] = f[n]
  BY DEF f, g
<1>3. f = g
  BY <1>1, <1>2
<1>. QED  BY <1>3 DEF f, g

-----------------------------------------------------------------------------
(* What a step of a call does to the table: it gives option i, if it is    *)
(* not 0, the value v of its type, and frees nothing another option needs. *)
Spares(i, freed) ==
    \A j \in 1..Len(opts) :
        /\ opts[j].name # NULL => opts[j].name \notin freed
        /\ opts[j].abbrev # NULL => opts[j].abbrev \notin freed
        /\ j # i /\ opts[j].str # NULL => opts[j].str \notin freed

Gives(i, v) ==
    Live(mem, opts[i].name) /\ Legal(opts[i].type, v) /\ Assigned(i, v)

Effect(i) ==
    /\ \E freed : TableStep(i, freed) /\ Spares(i, freed)
    /\ i # 0 => \E v : Gives(i, v)

AllLegal == \A i \in DOMAIN opts : Legal(opts[i].type, ValueOf(i))

LEMMA EffectTable ==
    ASSUME TypeOK, TypeOK', Naming, Intact, NEW i \in 0..Len(opts), Effect(i)
    PROVE  /\ NamedIn(opts', mem') = NamedIn(opts, mem)
           /\ \A j \in NamedIn(opts, mem) : mem'[opts'[j].name] = mem[opts[j].name]
           /\ \A j \in DOMAIN opts : j # i => SettingIn(opts', mem', j) = SettingIn(opts, mem, j)
           /\ \A j \in DOMAIN opts : opts'[j].type = opts[j].type
<1>1. PICK freed : TableStep(i, freed) /\ Spares(i, freed)
  BY DEF Effect
<1>2. /\ DOMAIN opts = 1..Len(opts) /\ DOMAIN opts' = 1..Len(opts)
      /\ DOMAIN mem = 1..Len(mem) /\ DOMAIN mem' = 1..Len(mem') /\ Len(mem) <= Len(mem')
      /\ Len(mem) \in Nat /\ Len(mem') \in Nat
  BY <1>1 DEF TypeOK, TableStep
<1>3. \A j \in 1..Len(opts) : opts'[j].name = opts[j].name /\ opts'[j].type = opts[j].type
  BY <1>1 DEF TableStep
<1>4. ASSUME NEW j \in 1..Len(opts)
      PROVE  /\ Live(mem', opts'[j].name) <=> Live(mem, opts[j].name)
             /\ Live(mem, opts[j].name) => mem'[opts'[j].name] = mem[opts[j].name]
  <2>1. opts[j].name \in 1..Len(mem) \cup {NULL} /\ (opts[j].name # NULL => opts[j].name \notin freed)
    BY <1>1, <1>2 DEF Naming, InRange, Spares
  <2>2. CASE opts[j].name = NULL
    <3>1. opts[j].name \notin 1..Len(mem) /\ opts[j].name \notin 1..Len(mem')
      BY <2>2, HeapAssumption
    <3>. QED  BY <1>2, <1>3, <3>1 DEF Live
  <2>3. CASE opts[j].name # NULL
    <3>1. opts[j].name \in 1..Len(mem) /\ mem'[opts[j].name] = mem[opts[j].name]
      BY <1>1, <2>1, <2>3 DEF TableStep
    <3>. QED  BY <1>2, <1>3, <3>1 DEF Live
  <2>. QED  BY <2>2, <2>3
<1>5. ASSUME NEW j \in 1..Len(opts), j # i
      PROVE  SettingIn(opts', mem', j) = SettingIn(opts, mem, j)
  <2>1. opts'[j] = opts[j]
    BY <1>1, <1>5 DEF TableStep
  <2>2. opts[j].str # NULL => mem'[opts[j].str] = mem[opts[j].str]
    BY <1>1, <1>2, <1>5 DEF Naming, InRange, Spares, TableStep
  <2>. QED  BY <2>1, <2>2 DEF SettingIn, StoredValue
<1>. QED  BY <1>2, <1>3, <1>4, <1>5 DEF NamedIn

LEMMA EffectLegal ==
    ASSUME TypeOK, TypeOK', Naming, Intact, AllLegal, NEW i \in 0..Len(opts), Effect(i)
    PROVE  AllLegal'
<1>1. DOMAIN opts = 1..Len(opts) /\ DOMAIN opts' = 1..Len(opts)
  BY DEF TypeOK, Effect, TableStep
<1>2. ASSUME NEW j \in 1..Len(opts), j # i
      PROVE  Legal(opts'[j].type, ValueOf(j)')
  <2>1. SettingIn(opts', mem', j) = SettingIn(opts, mem, j)
    BY <1>1, <1>2, EffectTable
  <2>2. opts'[j].type = opts[j].type /\ ValueOf(j)' = ValueOf(j)
    BY <1>1, <1>2, <2>1, EffectTable, SettingsIs DEF SettingIn
  <2>. QED  BY <1>1, <2>2 DEF AllLegal
<1>3. ASSUME i # 0
      PROVE  Legal(opts'[i].type, ValueOf(i)')
  <2>1. PICK v : Gives(i, v)
    BY <1>3 DEF Effect
  <2>2. opts'[i].type = opts[i].type
    BY <1>1, <1>3, EffectTable
  <2>3. CASE ValueOf(i)' = v
    BY <2>1, <2>2, <2>3 DEF Gives
  <2>4. CASE opts'[i].type = "STRING" /\ opts'[i].str = NULL
    <3>1. ValueOf(i)' = NULL
      BY <2>4 DEF ValueOf
    <3>. QED  BY <2>4, <3>1 DEF Legal
  <2>. QED  BY <2>1, <2>3, <2>4 DEF Gives, Assigned
<1>4. \A j \in 1..Len(opts) : Legal(opts'[j].type, ValueOf(j)')
  BY <1>2, <1>3
<1>. QED  BY <1>1, <1>4 DEF AllLegal

(* To the client such a step assigns option i, or it changes nothing. *)
LEMMA EffectMaps ==
    ASSUME TypeOK, TypeOK', Naming, Naming', Intact, AllLegal, AllLegal',
           NEW i \in 0..Len(opts), Effect(i)
    PROVE  [Map!Next]_settings
<1>. DEFINE old == SettingsIn(opts, mem)  new == SettingsIn(opts', mem')
            Name(j) == mem[opts[j].name]
            D == NamedIn(opts, mem)
<1>1. settings = old /\ settings' = new
  BY SettingsIs
<1>2. /\ Apart(opts, mem) /\ Apart(opts', mem')
      /\ NamedIn(opts', mem') = D /\ \A j \in D : mem'[opts'[j].name] = Name(j)
      /\ D \subseteq DOMAIN opts /\ DOMAIN opts = 1..Len(opts) /\ DOMAIN opts' = 1..Len(opts)
  <2>1. Apart(opts, mem) /\ Apart(opts', mem')
    BY NowApart DEF Naming
  <2>2. DOMAIN opts = 1..Len(opts) /\ DOMAIN opts' = 1..Len(opts) /\ D \subseteq DOMAIN opts
    BY DEF NamedIn, TypeOK, Effect, TableStep
  <2>. QED  BY <2>1, <2>2, EffectTable
<1>3. /\ DOMAIN old = {Name(j) : j \in D} /\ DOMAIN new = DOMAIN old
      /\ \A j \in D : old[Name(j)] = SettingIn(opts, mem, j)
      /\ \A j \in D : new[Name(j)] = SettingIn(opts', mem', j)
  <2>1. /\ DOMAIN old = {Name(j) : j \in D}
        /\ \A j \in D : old[Name(j)] = SettingIn(opts, mem, j)
    BY <1>2, SettingsFacts
  <2>2. /\ DOMAIN new = {mem'[opts'[j].name] : j \in NamedIn(opts', mem')}
        /\ \A j \in NamedIn(opts', mem') : new[mem'[opts'[j].name]] = SettingIn(opts', mem', j)
    BY <1>2, SettingsFacts
  <2>. HIDE DEF D, old, new, Name
  <2>3. /\ DOMAIN new = {mem'[opts'[j].name] : j \in D}
        /\ \A j \in D : new[mem'[opts'[j].name]] = SettingIn(opts', mem', j)
    BY <1>2, <2>2
  <2>4. {mem'[opts'[j].name] : j \in D} = {Name(j) : j \in D}
    BY <1>2
  <2>. QED  BY <1>2, <2>1, <2>3, <2>4
<1>. HIDE DEF old, new, Name, D
<1>4. \A j \in D : j # i => new[Name(j)] = old[Name(j)]
  BY <1>2, <1>3, EffectTable
<1>5. CASE i \notin D
  <2>1. \A n \in DOMAIN old : new[n] = old[n]
    BY <1>3, <1>4, <1>5
  <2>2. new = old
    BY <1>3, <2>1, SettingsSame DEF old, new
  <2>. QED  BY <1>1, <2>2
<1>6. CASE i \in D
  <2>1. PICK v : Gives(i, v)
    BY <1>2, <1>6 DEF Effect
  <2>2. /\ Name(i) \in DOMAIN settings /\ DOMAIN settings' = DOMAIN settings
        /\ \A n \in DOMAIN settings \ {Name(i)} : settings'[n] = settings[n]
    BY <1>1, <1>3, <1>4, <1>6
  <2>3. /\ settings[Name(i)].type = opts[i].type
        /\ settings'[Name(i)] = SettingIn(opts', mem', i)
    <3>1. settings[Name(i)] = SettingIn(opts, mem, i) /\ settings'[Name(i)] = SettingIn(opts', mem', i)
      BY <1>1, <1>3, <1>6
    <3>. QED  BY <3>1 DEF SettingIn
  <2>4. /\ settings'[Name(i)].type = opts'[i].type
        /\ settings'[Name(i)].value = ValueOf(i)'
        /\ settings'[Name(i)].input = opts'[i].input
    BY <2>3, SettingsIs DEF SettingIn
  <2>5. opts'[i].type = opts[i].type /\ opts'[i].input /\ Legal(opts[i].type, ValueOf(i)')
    <3>1. opts'[i].type = opts[i].type
      BY <1>2, <1>6, EffectTable
    <3>2. Legal(opts'[i].type, ValueOf(i)')
      BY <1>2, <1>6 DEF AllLegal
    <3>. QED  BY <2>1, <3>1, <3>2 DEF Gives, Assigned
  <2>6. Map!Read \/ Map!Set
    BY <2>2, <2>3, <2>4, <2>5 DEF Map!Read, Map!Set, Map!Assigned, Map!Kept
  <2>. QED  BY <2>6 DEF Map!Next
<1>. QED  BY <1>5, <1>6

-----------------------------------------------------------------------------
(* A new option is one the map did not have. *)
LEMMA NothingFound ==
    ASSUME TypeOK, NEW key, cfg_find(key) = 0
    PROVE  \A j \in DOMAIN opts : Live(mem, opts[j].name) /\ mem[opts[j].name] # key
<1>1. opts \in Seq(Slot) /\ DOMAIN opts = 1..Len(opts)
  BY DEF TypeOK
<1>2. \A j \in 1..Len(opts) : ~StopsAt(j, key)
  BY <1>1, FindFacts
<1>. QED  BY <1>1, <1>2 DEF StopsAt, Matches

(* Adding to memory changes nothing of what is held. *)
LEMMA ExtendedSettings ==
    ASSUME TypeOK, Naming, Extends(mem, mem'), NEW j \in DOMAIN opts,
           opts'[j] = opts[j], opts[j].str # NULL => opts[j].str \in DOMAIN mem
    PROVE  /\ Live(mem', opts'[j].name) <=> Live(mem, opts[j].name)
           /\ Live(mem, opts[j].name) => mem'[opts'[j].name] = mem[opts[j].name]
           /\ SettingIn(opts', mem', j) = SettingIn(opts, mem, j)
<1>1. /\ DOMAIN mem = 1..Len(mem) /\ DOMAIN mem' = 1..Len(mem') /\ Len(mem) <= Len(mem')
      /\ Len(mem) \in Nat /\ Len(mem') \in Nat /\ \A a \in 1..Len(mem) : mem'[a] = mem[a]
  BY DEF TypeOK, Extends
<1>2. opts[j].name \in 1..Len(mem) \cup {NULL} /\ NULL \notin 1..Len(mem) /\ NULL \notin 1..Len(mem')
  BY <1>1, HeapAssumption DEF Naming, InRange
<1>3. /\ Live(mem', opts'[j].name) <=> Live(mem, opts[j].name)
      /\ Live(mem, opts[j].name) => mem'[opts'[j].name] = mem[opts[j].name]
  BY <1>1, <1>2 DEF Live
<1>4. StoredValue(opts', mem', j) = StoredValue(opts, mem, j)
  BY <1>1 DEF StoredValue
<1>. QED  BY <1>3, <1>4 DEF SettingIn

LEMMA StoreMaps ==
    ASSUME TypeOK, TypeOK', Naming, Naming', AllLegal, StoreOption, Switches(input)
    PROVE  AllLegal' /\ [Map!Next]_settings
<1>. DEFINE o == input[next]  old == SettingsIn(opts, mem)  new == SettingsIn(opts', mem')
            Name(j) == mem[opts[j].name]
            D == NamedIn(opts, mem)
            last == Len(opts) + 1
<1>1. PICK slot : opts' = Append(opts, slot) /\ SlotOf(o, slot)
  BY SlotStored
<1>2. /\ o \in Option /\ Extends(mem, mem') /\ cfg_find(o.name) = 0
      /\ o.type = "SWITCH" => o.num \in 0..1
  <2>1. o \in Option /\ Extends(mem, mem')
    BY SlotStored
  <2>2. Storable(o) /\ next \in DOMAIN input
    BY DEF StoreOption, In, More, TypeOK
  <2>. QED  BY <2>1, <2>2 DEF Storable, Switches
<1>. HIDE DEF o
<1>3. /\ opts \in Seq(Slot) /\ DOMAIN opts = 1..Len(opts) /\ DOMAIN opts' = 1..last
      /\ Len(opts) \in Nat /\ opts'[last] = slot /\ \A j \in 1..Len(opts) : opts'[j] = opts[j]
      /\ last \notin 1..Len(opts) /\ 1..last = 1..Len(opts) \cup {last}
  BY <1>1 DEF TypeOK
<1>. HIDE DEF last
<1>4. ASSUME NEW j \in 1..Len(opts)
      PROVE  /\ Live(mem', opts'[j].name) <=> Live(mem, opts[j].name)
             /\ Live(mem, opts[j].name) => mem'[opts'[j].name] = mem[opts[j].name]
             /\ SettingIn(opts', mem', j) = SettingIn(opts, mem, j)
  <2>1. opts[j].str # NULL => opts[j].str \in DOMAIN mem
    BY <1>3 DEF Naming, InRange
  <2>. QED  BY <1>2, <1>3, <2>1, ExtendedSettings
<1>5. Legal(slot.type, StoredValue(opts', mem', last))
  <2>1. /\ o.type \in ValueType /\ o.num \in Int /\ o.str \in Text \cup {NULL}
        /\ slot.type = o.type /\ slot.num = o.num
        /\ slot.str # NULL => mem'[slot.str] = o.str
    BY <1>1, <1>2 DEF Option, SlotOf
  <2>2. StoredValue(opts', mem', last) =
          IF o.type # "STRING" THEN o.num ELSE IF slot.str = NULL THEN NULL ELSE mem'[slot.str]
    BY <1>3, <2>1 DEF StoredValue
  <2>3. CASE o.type = "STRING"
    BY <2>1, <2>2, <2>3 DEF Legal
  <2>4. CASE o.type # "STRING"
    BY <1>2, <2>1, <2>2, <2>4 DEF Legal
  <2>. QED  BY <2>3, <2>4
<1>6. AllLegal'
  <2>1. ASSUME NEW j \in 1..Len(opts)
        PROVE  Legal(opts'[j].type, ValueOf(j)')
    <3>1. opts'[j].type = opts[j].type /\ ValueOf(j)' = ValueOf(j)
      BY <1>3, <1>4, SettingsIs DEF SettingIn
    <3>. QED  BY <1>3, <3>1 DEF AllLegal
  <2>2. \A j \in DOMAIN opts' : Legal(opts'[j].type, ValueOf(j)')
    BY <1>3, <1>5, <2>1, SettingsIs
  <2>. QED  BY <2>2 DEF AllLegal
<1>7. /\ settings = old /\ settings' = new /\ Apart(opts, mem) /\ Apart(opts', mem')
      /\ D \subseteq 1..Len(opts)
      /\ NamedIn(opts', mem') = IF Live(mem', slot.name) THEN D \cup {last} ELSE D
  BY <1>3, <1>4, SettingsIs, NowApart DEF Naming, NamedIn
<1>8. /\ DOMAIN old = {Name(j) : j \in D}
      /\ DOMAIN new = {mem'[opts'[j].name] : j \in NamedIn(opts', mem')}
      /\ \A j \in D : old[Name(j)] = SettingIn(opts, mem, j)
      /\ \A j \in NamedIn(opts', mem') : new[mem'[opts'[j].name]] = SettingIn(opts', mem', j)
  <2>1. /\ DOMAIN old = {Name(j) : j \in D}
        /\ \A j \in D : old[Name(j)] = SettingIn(opts, mem, j)
    BY <1>7, SettingsFacts
  <2>2. /\ DOMAIN new = {mem'[opts'[j].name] : j \in NamedIn(opts', mem')}
        /\ \A j \in NamedIn(opts', mem') : new[mem'[opts'[j].name]] = SettingIn(opts', mem', j)
    BY <1>7, SettingsFacts
  <2>. QED  BY <2>1, <2>2
<1>9. \A j \in D : mem'[opts'[j].name] = Name(j) /\ new[Name(j)] = old[Name(j)]
  BY <1>4, <1>7, <1>8 DEF NamedIn
<1>. HIDE DEF old, new, Name, D
<1>10. CASE ~Live(mem', slot.name)
  <2>1. DOMAIN new = DOMAIN old
    <3>1. {mem'[opts'[j].name] : j \in D} = {Name(j) : j \in D}
      BY <1>9
    <3>. QED  BY <1>7, <1>8, <1>10, <3>1
  <2>2. \A n \in DOMAIN old : new[n] = old[n]
    BY <1>8, <1>9
  <2>3. new = old
    BY <2>1, <2>2, SettingsSame DEF old, new
  <2>. QED  BY <1>6, <1>7, <2>3
<1>11. CASE Live(mem', slot.name)
  <2>1. slot.name # NULL
    <3>1. NULL \notin DOMAIN mem'
      BY HeapAssumption DEF TypeOK
    <3>. QED  BY <1>11, <3>1 DEF Live
  <2>2. mem'[slot.name] = o.name /\ slot.type \in ValueType /\ ~slot.input
    BY <1>1, <1>2, <2>1 DEF SlotOf, Option
  <2>3. o.name \notin DOMAIN settings
    BY <1>2, <1>3, <1>7, <1>8, NothingFound DEF Name
  <2>4. /\ DOMAIN settings' = DOMAIN settings \cup {o.name}
        /\ settings'[o.name] = SettingIn(opts', mem', last)
    <3>1. NamedIn(opts', mem') = D \cup {last} /\ mem'[opts'[last].name] = o.name
      BY <1>3, <1>7, <1>11, <2>2
    <3>2. {mem'[opts'[j].name] : j \in D \cup {last}} = {Name(j) : j \in D} \cup {o.name}
      BY <1>9, <3>1
    <3>3. DOMAIN new = DOMAIN old \cup {o.name}
      BY <1>8, <3>1, <3>2
    <3>4. last \in NamedIn(opts', mem')
      BY <3>1
    <3>5. new[o.name] = SettingIn(opts', mem', last)
      BY <1>8, <3>1, <3>4
    <3>. QED  BY <1>7, <3>3, <3>5
  <2>5. \A n \in DOMAIN settings : settings'[n] = settings[n]
    BY <1>7, <1>8, <1>9
  <2>6. /\ settings'[o.name].type = slot.type /\ ~settings'[o.name].input
        /\ settings'[o.name].value = StoredValue(opts', mem', last)
    BY <1>3, <2>2, <2>4 DEF SettingIn
  <2>7. Map!Define
    BY <1>5, <2>2, <2>3, <2>4, <2>5, <2>6 DEF Map!Define, Map!Kept
  <2>. QED  BY <1>6, <2>7 DEF Map!Next
<1>. QED  BY <1>10, <1>11

-----------------------------------------------------------------------------
(* The steps of all calls but cfg_store and cfg_exit are such steps. *)
LEMMA QuietEffect ==
    ASSUME TypeOK, UNCHANGED opts, Extends(mem, mem')
    PROVE  \E i \in 0..Len(opts) : Effect(i)
<1>1. TableStep(0, {}) /\ Spares(0, {})
  BY SameTable DEF Spares
<1>2. 0 \in 0..Len(opts)
  BY DEF TypeOK
<1>. QED  BY <1>1, <1>2 DEF Effect

LEMMA StillEffect ==
    ASSUME TypeOK, UNCHANGED <<mem, opts>>
    PROVE  \E i \in 0..Len(opts) : Effect(i)
<1>1. Extends(mem, mem')
  BY DEF TypeOK, Extends
<1>. QED  BY <1>1, QuietEffect

LEMMA NumberEffect ==
    ASSUME TypeOK, NEW key, ~Crashes(key), cfg_type(key) \in ValueType \ {"STRING"},
           NEW n \in Int, Legal(cfg_type(key), n), SetNumber(cfg_find(key), n)
    PROVE  \E i \in 0..Len(opts) : Effect(i)
<1>. DEFINE i == cfg_find(key)
<1>1. i \in 1..Len(opts) /\ cfg_type(key) = opts[i].type /\ Live(mem, opts[i].name)
  <2>1. i # 0 /\ cfg_type(key) = opts[i].type
    BY DEF cfg_type, ValueType
  <2>2. i \in 0..Len(opts)
    BY FindType DEF TypeOK
  <2>. QED  BY <2>1, <2>2 DEF Crashes
<1>. HIDE DEF i
<1>2. TableStep(i, {}) /\ Assigned(i, n)
  BY <1>1, NumberTable DEF i
<1>3. Spares(i, {}) /\ Gives(i, n)
  BY <1>1, <1>2 DEF Spares, Gives
<1>. QED  BY <1>1, <1>2, <1>3 DEF Effect

LEMMA StringEffect ==
    ASSUME TypeOK, Intact, NEW key, ~Crashes(key), cfg_type(key) = "STRING",
           NEW s \in Text \cup {NULL}, ReplaceString(cfg_find(key), s)
    PROVE  \E i \in 0..Len(opts) : Effect(i)
<1>. DEFINE i == cfg_find(key)  freed == {opts[i].str}
<1>1. i \in 1..Len(opts) /\ opts[i].type = "STRING" /\ Live(mem, opts[i].name)
  <2>1. i # 0 /\ cfg_type(key) = opts[i].type
    BY DEF cfg_type
  <2>2. i \in 0..Len(opts)
    BY FindType DEF TypeOK
  <2>. QED  BY <2>1, <2>2 DEF Crashes
<1>2. ReplaceString(i, s)
  OBVIOUS
<1>. HIDE DEF i
<1>3. TableStep(i, freed) /\ Assigned(i, s)
  BY <1>1, <1>2, ReplaceTable
<1>4. Spares(i, freed)
  <2>1. CASE opts[i].str = NULL
    BY <2>1 DEF Spares
  <2>2. CASE opts[i].str # NULL
    <3>1. \A j \in 1..Len(opts) : /\ opts[j].name # opts[i].str /\ opts[j].abbrev # opts[i].str
                                  /\ j # i => opts[j].str # opts[i].str
      BY <1>1, <2>2, StringApart
    <3>. QED  BY <3>1 DEF Spares
  <2>. QED  BY <2>1, <2>2
<1>5. Gives(i, s)
  BY <1>1, <1>3 DEF Gives, Legal
<1>. QED  BY <1>1, <1>3, <1>4, <1>5 DEF Effect

(* The line buffer is no option's. *)
LEMMA CloseSpares ==
    ASSUME TypeOK, Intact, NEW r, Close(r), UNCHANGED opts
    PROVE  TableStep(0, {buffer}) /\ Spares(0, {buffer})
<1>. DEFINE Hold(h) == Target(h, opts, AllBlocks, buffer)
<1>1. /\ Len(mem') = Len(mem) /\ \A a \in 1..Len(mem) : mem'[a] # mem[a] => a \in {buffer}
      /\ opts \in Seq(Slot) /\ DOMAIN opts = 1..Len(opts) /\ Len(opts) \in Nat /\ Len(mem) \in Nat
  BY FreeFacts DEF TypeOK, Close
<1>2. TableStep(0, {buffer})
  BY <1>1 DEF TableStep
<1>3. ASSUME NEW j \in 1..Len(opts), NEW k \in 1..4, Field(opts[j], k) # NULL
      PROVE  Field(opts[j], k) # buffer
  <2>. DEFINE g == <<"option", j, k>>  h == <<"buffer", 1, 0>>
  <2>1. j \in DOMAIN opts
    BY <1>1
  <2>2. g \in Holders(opts, AllBlocks) /\ Hold(g) = Field(opts[j], k)
    BY <2>1, OptionHolder
  <2>3. h \in Holders(opts, AllBlocks) /\ Hold(h) = buffer
    BY BufferHolder
  <2>4. g # h
    OBVIOUS
  <2>. HIDE DEF g, h
  <2>. QED  BY <1>3, <2>2, <2>3, <2>4 DEF Intact, Sound
<1>4. Spares(0, {buffer})
  BY <1>3, FieldFacts DEF Spares
<1>. QED  BY <1>2, <1>4

LEMMA CloseEffect ==
    ASSUME TypeOK, Intact, NEW r, Close(r), UNCHANGED opts
    PROVE  \E i \in 0..Len(opts) : Effect(i)
<1>1. 0 \in 0..Len(opts)
  BY DEF TypeOK
<1>. QED  BY <1>1, CloseSpares DEF Effect

LEMMA ClientEffect ==
    ASSUME TypeOK, Locals, Intact, ClientStep
    PROVE  cfg_exit \/ \E i \in 0..Len(opts) : Effect(i)
<1>. DEFINE Done == \E i \in 0..Len(opts) : Effect(i)
<1>1. ASSUME cfg_init \/ ExitCrashes \/ LifeHalts
      PROVE  Done
  <2>1. UNCHANGED <<mem, opts>>
    BY <1>1 DEF cfg_init, ExitCrashes, LifeHalts, Halt, heapVars
  <2>. QED  BY <2>1, StillEffect
<1>2. ASSUME NEW list \in OptionLists, AddOptions(list)
      PROVE  Done
  <2>1. UNCHANGED <<mem, opts>>
    BY <1>2 DEF AddOptions, heapVars
  <2>. QED  BY <2>1, StillEffect
<1>3. ASSUME NEW argv \in ArgVectors, ReadArgs(argv)
      PROVE  Done
  <2>1. Extends(mem, mem') /\ UNCHANGED opts
    BY <1>3, ReadArgsMoves DEF ReadArgs
  <2>. QED  BY <2>1, QuietEffect
<1>4. ASSUME NEW argv \in ArgVectors, ReadArgsHalts(argv)
      PROVE  Done
  <2>1. UNCHANGED <<mem, opts>>
    BY <1>4 DEF ReadArgsHalts, Halt, heapVars
  <2>. QED  BY <2>1, StillEffect
<1>5. ASSUME NEW lines \in ConfigFiles, ReadFile(lines)
      PROVE  Done
  <2>1. Extends(mem, mem') /\ UNCHANGED opts
    BY <1>5, ReadFileMoves DEF ReadFile
  <2>. QED  BY <2>1, QuietEffect
<1>6. ASSUME NEW lines \in ConfigFiles, ReadFileMissing(lines) \/ ReadFileNoBuffer(lines)
      PROVE  Done
  <2>1. UNCHANGED <<mem, opts>>
    BY <1>6 DEF ReadFileMissing, ReadFileNoBuffer, heapVars
  <2>. QED  BY <2>1, StillEffect
<1>7. ASSUME NEW key \in Keys, NEW n \in Int, NEW type \in {"SWITCH", "INT", "FLOAT"},
             type = "SWITCH" => n \in 0..1, cfg_set_number(type, key, n)
      PROVE  Done
  <2>1. SetNumber(cfg_find(key), n) /\ ~Crashes(key) /\ cfg_type(key) = type
    BY <1>7 DEF cfg_set_number
  <2>2. type \in ValueType \ {"STRING"} /\ Legal(type, n)
    BY <1>7 DEF ValueType, Legal
  <2>. QED  BY <2>1, <2>2, NumberEffect
<1>8. ASSUME NEW key \in Keys, NEW s \in Strings, cfg_set_string(key, s)
      PROVE  Done
  <2>1. s \in Text \cup {NULL}
    BY ClientAssumption
  <2>2. ReplaceString(cfg_find(key), s) /\ ~Crashes(key) /\ cfg_type(key) = "STRING"
    BY <1>8 DEF cfg_set_string
  <2>. QED  BY <2>1, <2>2, StringEffect
<1>9. ASSUME NEW key \in Keys, NEW type, AccessHalts(type, key)
      PROVE  Done
  <2>1. UNCHANGED <<mem, opts>>
    BY <1>9 DEF AccessHalts, Halt, heapVars
  <2>. QED  BY <2>1, StillEffect
<1>. QED
  <2>1. Numbers \subseteq Int /\ 0..1 \subseteq Int
    BY ClientAssumption
  <2>. HIDE DEF Done
  <2>. QED  BY <2>1, <1>1, <1>2, <1>3, <1>4, <1>5, <1>6, <1>7, <1>8, <1>9 DEF ClientStep, Done

LEMMA AssignEffect ==
    ASSUME TypeOK, NEW key, ~Crashes(key), cfg_type(key) \in Capturing,
           NEW s \in Text, Assign(cfg_find(key), s)
    PROVE  \E i \in 0..Len(opts) : Effect(i)
<1>. DEFINE i == cfg_find(key)
            v == IF opts[i].type = "STRING" THEN s ELSE Number(opts[i].type, s)
<1>1. i \in 1..Len(opts) /\ opts[i].type \in Capturing /\ Live(mem, opts[i].name)
  <2>1. i # 0 /\ cfg_type(key) = opts[i].type
    BY DEF cfg_type, Capturing
  <2>2. i \in 0..Len(opts)
    BY FindType DEF TypeOK
  <2>. QED  BY <2>1, <2>2 DEF Crashes
<1>2. Assign(i, s)
  OBVIOUS
<1>. HIDE DEF i
<1>3. TableStep(i, {}) /\ Assigned(i, v)
  BY <1>1, <1>2, AssignTable
<1>4. Legal(opts[i].type, v)
  <2>1. CASE opts[i].type = "STRING"
    BY <2>1 DEF Legal
  <2>2. CASE opts[i].type # "STRING"
    BY <1>1, <2>2, NumberType DEF Legal, Capturing
  <2>. QED  BY <2>1, <2>2
<1>. HIDE DEF v
<1>5. Spares(i, {}) /\ Gives(i, v)
  BY <1>1, <1>3, <1>4 DEF Spares, Gives
<1>. QED  BY <1>1, <1>3, <1>5 DEF Effect

LEMMA ArgEffect ==
    ASSUME TypeOK, CallState, KeyStored, ArgStep
    PROVE  \E i \in 0..Len(opts) : Effect(i)
<1>1. call = "read_args" /\ (More => Arg \in Text)
  <2>1. call = "read_args"
    BY DEF ArgStep, ArgSwitchOff, ArgRefused, ArgSwitchOn, ArgCapture, ArgCopied, ArgValue,
           ArgCrashes, ArgsReturn, Normal, InArgs, In
  <2>. QED  BY <2>1 DEF More, Arg, TypeOK
<1>2. CASE ArgSwitchOff \/ ArgSwitchOn
  <2>1. /\ SetNumber(cfg_find(Rest[Arg]), 0) \/ SetNumber(cfg_find(Rest[Arg]), 1)
        /\ ~Crashes(Rest[Arg]) /\ cfg_type(Rest[Arg]) = "SWITCH"
    BY <1>2 DEF ArgSwitchOff, ArgSwitchOn, Normal
  <2>2. cfg_type(Rest[Arg]) \in ValueType \ {"STRING"}
        /\ Legal(cfg_type(Rest[Arg]), 0) /\ Legal(cfg_type(Rest[Arg]), 1)
    BY <2>1 DEF ValueType, Legal
  <2>. QED  BY <2>1, <2>2, NumberEffect
<1>3. CASE ArgRefused \/ ArgsReturn \/ ArgCapture \/ ArgCrashes
  <2>1. UNCHANGED <<mem, opts>>
    BY <1>3 DEF ArgRefused, ArgsReturn, ArgCapture, ArgCrashes, Halt, heapVars
  <2>. QED  BY <2>1, StillEffect
<1>4. CASE ArgCopied
  <2>1. Copy(Arg) /\ UNCHANGED opts /\ Arg \in Text
    BY <1>1, <1>4 DEF ArgCopied, Normal, InArgs
  <2>2. Extends(mem, mem')
    BY <1>1, <2>1, CopyType DEF TypeOK, CallState
  <2>. QED  BY <2>1, <2>2, QuietEffect
<1>5. CASE ArgValue
  <2>1. /\ Assign(cfg_find(current_option), Arg) /\ Arg \in Text
        /\ ~Crashes(current_option) /\ cfg_type(current_option) \in Capturing
    BY <1>1, <1>5 DEF ArgValue, InArgs, KeyStored
  <2>. QED  BY <2>1, AssignEffect
<1>. QED  BY <1>2, <1>3, <1>4, <1>5 DEF ArgStep

LEMMA LineEffect ==
    ASSUME TypeOK, Intact, LineStep
    PROVE  \E i \in 0..Len(opts) : Effect(i)
<1>. DEFINE key == TheLine.key
<1>1. call = "read_file" /\ (More => TheLine \in Line)
  <2>1. call = "read_file"
    BY DEF LineStep, LineSwitch, LineValue, LineSkipped, LineRefused, LineHalts, LineCrashes,
           FileReturns, At, In
  <2>. QED  BY <2>1 DEF More, TheLine, TypeOK
<1>2. CASE LineSwitch
  <2>1. /\ SetNumber(cfg_find(key), 0) \/ SetNumber(cfg_find(key), 1)
        /\ ~Crashes(key) /\ cfg_type(key) = "SWITCH"
    BY <1>2 DEF LineSwitch, Known
  <2>2. cfg_type(key) \in ValueType \ {"STRING"} /\ Legal(cfg_type(key), 0) /\ Legal(cfg_type(key), 1)
    BY <2>1 DEF ValueType, Legal
  <2>. QED  BY <2>1, <2>2, NumberEffect
<1>3. CASE LineValue
  <2>. DEFINE i == cfg_find(key)
  <2>1. /\ ~Crashes(key) /\ cfg_type(key) \in Capturing /\ TheLine.value \in Text
        /\ cfg_type(key) = opts[i].type
        /\ IF opts[i].type = "STRING" THEN ReplaceString(i, TheLine.value)
           ELSE SetNumber(i, Number(opts[i].type, TheLine.value))
    BY <1>1, <1>3 DEF LineValue, Known, At, Line, cfg_type, Capturing
  <2>2. CASE opts[i].type = "STRING"
    BY <2>1, <2>2, StringEffect
  <2>3. CASE opts[i].type # "STRING"
    <3>. DEFINE n == Number(opts[i].type, TheLine.value)
    <3>1. n \in Int
      BY <2>1, NumberType
    <3>. HIDE DEF n
    <3>2. cfg_type(key) \in ValueType \ {"STRING"} /\ Legal(cfg_type(key), n)
      BY <2>1, <2>3, <3>1 DEF ValueType, Capturing, Legal
    <3>3. SetNumber(cfg_find(key), n)
      BY <2>1, <2>3 DEF n
    <3>. QED  BY <2>1, <3>1, <3>2, <3>3, NumberEffect
  <2>. QED  BY <2>2, <2>3
<1>4. CASE LineSkipped \/ LineHalts \/ LineCrashes
  <2>1. UNCHANGED <<mem, opts>>
    BY <1>4 DEF LineSkipped, LineHalts, LineCrashes, Halt, heapVars
  <2>. QED  BY <2>1, StillEffect
<1>5. CASE LineRefused \/ FileReturns
  <2>1. (Close(TRUE) \/ Close(FALSE)) /\ UNCHANGED opts
    BY <1>5 DEF LineRefused, FileReturns
  <2>. QED  BY <2>1, CloseEffect
<1>. QED  BY <1>2, <1>3, <1>4, <1>5 DEF LineStep

LEMMA StepEffect ==
    ASSUME TypeOK, CallState, Locals, KeyStored, Intact, [Next]_vars
    PROVE  cfg_exit \/ StoreOption \/ \E i \in 0..Len(opts) : Effect(i)
<1>1. CASE StoreHalts \/ AddOptionsReturns \/ UNCHANGED vars
  <2>1. UNCHANGED <<mem, opts>>
    BY <1>1 DEF StoreHalts, AddOptionsReturns, Halt, vars, heapVars
  <2>. QED  BY <2>1, StillEffect
<1>. QED  BY <1>1, ClientEffect, ArgEffect, LineEffect DEF Next, StoreStep

-----------------------------------------------------------------------------
(* Every step of miniconf is one of the map, or none. *)

(* A table whose first option has no name keeps it that way. *)
LEMMA NamelessStays ==
    ASSUME TypeOK, TypeOK', Naming, Nameless, [Next]_vars
    PROVE  Nameless'
<1>1. opts \in Seq(Slot) /\ opts' \in Seq(Slot) /\ 1 \in 1..Len(opts)
  BY DEF TypeOK, Nameless
<1>2. CASE KeepsNames /\ Len(opts') = Len(opts)
  BY <1>1, <1>2 DEF KeepsNames, Nameless
<1>3. CASE StoreOption
  <2>1. PICK slot \in Slot : opts' = Append(opts, slot)
    BY <1>3, StoreMoves
  <2>. QED  BY <1>1, <2>1 DEF Nameless
<1>4. CASE cfg_exit
  <2>1. \A i \in DOMAIN opts' : opts'[i].name = NULL
    BY <1>4, ExitDisposes
  <2>2. DOMAIN opts' = DOMAIN opts
    BY <1>4 DEF cfg_exit
  <2>. QED  BY <1>1, <2>1, <2>2 DEF Nameless
<1>. QED  BY <1>2, <1>3, <1>4, StepKeeps

(* What is stored next is an option of the array the client passed. *)
LEMMA SwitchesStep ==
    ASSUME TypeOK, call = "add_options" => Switches(input), [Next]_vars
    PROVE  call' = "add_options" => Switches(input)'
<1>. SUFFICES ASSUME call' = "add_options" PROVE Switches(input)'
  OBVIOUS
<1>1. CASE call = "add_options" /\ input' = input
  BY <1>1 DEF Switches
<1>2. CASE ClientStep
  <2>1. PICK list \in OptionLists : AddOptions(list)
    BY <1>2 DEF ClientStep, cfg_init, cfg_exit, ExitCrashes, LifeHalts, ReadArgs, ReadArgsHalts,
           ReadFile, ReadFileMissing, ReadFileNoBuffer, cfg_set_number, cfg_set_string, AccessHalts,
           Enter, Return, Halt, callVars, Idle
  <2>. QED  BY <2>1, ClientAssumption DEF AddOptions, Enter, Switches
<1>3. CASE StoreStep
  <2>1. call = "add_options" /\ (Advance \/ Return(FALSE) \/ Return(TRUE) \/ UNCHANGED callVars)
    BY <1>3, SlotStored DEF StoreStep, StoreOption, StoreHalts, AddOptionsReturns, In, SlotOf, Halt
  <2>. QED  BY <1>1, <2>1 DEF Advance, Return, callVars
<1>4. ~ArgStep /\ ~LineStep
  BY DEF ArgStep, ArgSwitchOff, ArgRefused, ArgSwitchOn, ArgCapture, ArgCopied, ArgValue, ArgCrashes,
         ArgsReturn, Normal, InArgs, In, Finish, Return, Advance, Halt, callVars, LineStep, LineSwitch,
         LineValue, LineSkipped, LineRefused, LineHalts, LineCrashes, FileReturns, At, Close
<1>5. CASE UNCHANGED vars
  BY <1>1, <1>5 DEF vars, callVars
<1>. QED  BY <1>2, <1>3, <1>4, <1>5 DEF Next

LEMMA NamelessEmpty ==
    ASSUME TypeOK, TypeOK', Naming, Naming', Nameless, Nameless'
    PROVE  settings' = settings
<1>1. NamedIn(opts, mem) = {} /\ NamedIn(opts', mem') = {}
  BY NowApart DEF Naming
<1>2. DOMAIN SettingsIn(opts, mem) = {} /\ DOMAIN SettingsIn(opts', mem') = {}
  BY <1>1, NothingNamed
<1>3. SettingsIn(opts', mem') = SettingsIn(opts, mem)
  BY <1>2, SettingsSame
<1>. QED  BY <1>3, SettingsIs

LEMMA ExitMaps ==
    ASSUME TypeOK, TypeOK', Naming, Naming', cfg_exit
    PROVE  [Map!Next]_settings /\ AllLegal'
<1>1. \A i \in DOMAIN opts' : opts'[i].name = NULL
  BY ExitDisposes
<1>2. NamedIn(opts', mem') = {} /\ Apart(opts', mem')
  <2>1. NULL \notin DOMAIN mem'
    BY HeapAssumption DEF TypeOK
  <2>2. Apart(opts', mem')
    BY NowApart DEF Naming
  <2>. QED  BY <1>1, <2>1, <2>2 DEF NamedIn, Live
<1>3. DOMAIN settings' = {}
  BY <1>2, NothingNamed, SettingsIs
<1>4. Map!Next
  BY <1>3 DEF Map!Next, Map!Clear
<1>5. ASSUME NEW i \in DOMAIN opts'
      PROVE  Legal(opts'[i].type, ValueOf(i)')
  <2>1. opts'[i] = Disposed(opts[i]) /\ opts[i] \in Slot /\ opts'[i] \in Slot
    BY <1>5 DEF cfg_exit, TypeOK
  <2>2. opts'[i].num = 0 /\ opts'[i].str = NULL /\ opts'[i].type \in ValueType
    BY <2>1 DEF Disposed, Slot
  <2>3. ValueOf(i)' = IF opts'[i].type # "STRING" THEN 0 ELSE NULL
    BY <2>2 DEF ValueOf
  <2>. QED  BY <2>3 DEF Legal
<1>. QED  BY <1>4, <1>5 DEF AllLegal

LEMMA MapStep ==
    ASSUME TypeOK, TypeOK', CallState, Naming, Naming', Locals, KeyStored, Whole, Valued, [Next]_vars
    PROVE  Valued' /\ [Map!Next]_settings
<1>1. call' = "add_options" => Switches(input)'
  BY SwitchesStep DEF Valued
<1>2. CASE Nameless
  BY <1>1, <1>2, NamelessStays, NamelessEmpty DEF Valued
<1>3. CASE ~Nameless
  <2>1. Intact /\ AllLegal
    BY <1>3 DEF Whole, Valued, AllLegal
  <2>2. AllLegal' /\ [Map!Next]_settings
    <3>1. CASE cfg_exit
      BY <3>1, ExitMaps
    <3>2. CASE StoreOption
      <4>1. Switches(input)
        BY <3>2 DEF Valued, StoreOption, In
      <4>. QED  BY <2>1, <3>2, <4>1, StoreMaps
    <3>3. CASE \E i \in 0..Len(opts) : Effect(i)
      BY <2>1, <3>3, EffectLegal, EffectMaps
    <3>. QED  BY <2>1, <3>1, <3>2, <3>3, StepEffect
  <2>. QED  BY <1>1, <2>2 DEF Valued, AllLegal
<1>. QED  BY <1>2, <1>3

LEMMA MapInit == Init => Map!Init /\ Valued
<1>. SUFFICES ASSUME Init PROVE Map!Init /\ Valued
  OBVIOUS
<1>1. opts = <<>> /\ call = "none"
  BY DEF Init
<1>2. NamedOptions = {}
  BY <1>1 DEF NamedOptions
<1>3. settings = [n \in {} |-> n]
  BY <1>2 DEF settings
<1>. QED  BY <1>1, <1>3 DEF Map!Init, Valued

(* To its client miniconf is a map from names to typed values, for all     *)
(* arrays of options, arguments and files: no call changes two options at  *)
(* once, retypes or drops one, or reads one without marking it as input,   *)
(* whichever allocations fail (config.c:107-134, 138-152, 264-287,         *)
(* 434-488, 567-650).                                                      *)
THEOREM ImplementsMapHolds == Spec => ImplementsMap
<1>1. Init => Map!Init /\ Whole /\ Valued
  BY InitWhole, MapInit
<1>2. TypeOK /\ TypeOK' /\ CallState /\ Naming /\ Naming' /\ MemoryInvariant /\ Whole /\ Valued /\ [Next]_vars
        => Whole' /\ Valued' /\ [Map!Next]_settings
  BY MapStep, WholeStep DEF MemoryInvariant
<1>. QED  BY <1>1, <1>2, MemoryHolds, PTL DEF Spec, ImplementsMap, Map!Spec

-----------------------------------------------------------------------------
(* What a program that is linked with miniconf relies on: TestDriver runs  *)
(* it, and allocates in the same heap.                                     *)
LibraryInvariant ==
    TypeOK /\ CallState /\ Naming /\ MemoryInvariant /\ ArgsInvariant /\ Whole /\ Valued

LEMMA InitLibrary == Init => LibraryInvariant
BY InitType, InitNaming, InitMemory, InitArgs, InitWhole, MapInit DEF LibraryInvariant

LEMMA LibraryStep == LibraryInvariant /\ [Next]_vars => LibraryInvariant'
<1>. SUFFICES ASSUME LibraryInvariant, [Next]_vars PROVE LibraryInvariant'
  OBVIOUS
<1>1. TypeOK' /\ CallState'
  BY TypeStep DEF LibraryInvariant
<1>2. Naming' /\ MemoryInvariant'
  BY <1>1, NamingStep, MemoryStep DEF LibraryInvariant
<1>3. ArgsInvariant'
  BY <1>1, <1>2, ArgsInvariantStep DEF LibraryInvariant
<1>4. Whole' /\ Valued'
  BY <1>1, <1>2, WholeStep, MapStep DEF LibraryInvariant, MemoryInvariant
<1>. QED  BY <1>1, <1>2, <1>3, <1>4 DEF LibraryInvariant

(* Memory the client allocates between two calls takes nothing from it.    *)
ClientAllocates ==
    /\ call = "none" /\ Extends(mem, mem') /\ failed' \in BOOLEAN /\ (failed => failed')
    /\ UNCHANGED <<opts, argVars, fileVars, callVars, lifeVars, fault>>

LEMMA AllocationKept ==
    ASSUME TypeOK, InRange, Extends(mem, mem'), UNCHANGED opts
    PROVE  /\ \A ptr : Live(mem, ptr) => Live(mem', ptr) /\ mem'[ptr] = mem[ptr]
           /\ \A k \in DOMAIN opts : ValueOf(k)' = ValueOf(k)
<1>1. /\ DOMAIN mem = 1..Len(mem) /\ DOMAIN mem' = 1..Len(mem') /\ Len(mem) <= Len(mem')
      /\ Len(mem) \in Nat /\ Len(mem') \in Nat /\ \A a \in 1..Len(mem) : mem'[a] = mem[a]
  BY DEF TypeOK, Extends
<1>2. \A ptr : Live(mem, ptr) => Live(mem', ptr) /\ mem'[ptr] = mem[ptr]
  BY <1>1 DEF Live
<1>3. ASSUME NEW k \in DOMAIN opts PROVE ValueOf(k)' = ValueOf(k)
  <2>1. opts[k].str # NULL => mem'[opts[k].str] = mem[opts[k].str]
    BY <1>1 DEF InRange
  <2>. QED  BY <2>1 DEF ValueOf
<1>. QED  BY <1>2, <1>3

LEMMA IntactGrows ==
    ASSUME TypeOK, Intact, Extends(mem, mem'), UNCHANGED <<opts, blocks, block, buffer>>,
           \A a \in Len(mem) + 1 .. Len(mem') : mem'[a] # Freed
    PROVE  Intact'
<1>1. AllBlocks' = AllBlocks
  BY SameBlocks
<1>2. Grown(mem, mem') /\ \A a \in 1..Len(mem) : mem'[a] = mem[a]
  BY DEF Grown, Extends, TypeOK
<1>3. Sound(mem', opts, AllBlocks, buffer)
  BY <1>2, SoundStep DEF Intact
<1>. QED  BY <1>1, <1>3 DEF Intact

LEMMA ClientKeepsLibrary ==
    ASSUME LibraryInvariant, ClientAllocates,
           \A a \in Len(mem) + 1 .. Len(mem') : mem'[a] # Freed
    PROVE  LibraryInvariant'
<1>1. /\ TypeOK /\ CallState /\ Naming /\ MemoryInvariant /\ ArgsInvariant /\ Whole /\ Valued
      /\ call = "none" /\ Extends(mem, mem')
      /\ UNCHANGED <<opts, blocks, block, state, current_option, files, buffer, call, input, next,
                     result, initialized, lives, fault>>
  BY DEF LibraryInvariant, ClientAllocates, argVars, fileVars, callVars, lifeVars
<1>2. TypeOK' /\ CallState'
  BY <1>1 DEF TypeOK, CallState, ClientAllocates, Extends
<1>3. Naming'
  BY <1>1, <1>2, GrownKeeps, NamingKept DEF SameBuffer, Naming
<1>4. /\ \A ptr : Live(mem, ptr) => Live(mem', ptr)
      /\ \A k \in DOMAIN opts : ValueOf(k)' = ValueOf(k)
  BY <1>1, AllocationKept DEF Naming
<1>5. Intact => Intact'
  BY <1>1, IntactGrows
<1>6. OwnedOnce'
  <2>1. Kept(AllNamed)' => Kept(AllNamed)
    BY <1>1 DEF Kept, AllNamed
  <2>. QED  BY <1>1, <1>5, <2>1, OwnedOnceSound DEF MemoryInvariant
<1>7. BlockFits'
  BY <1>1, SameBlocks DEF MemoryInvariant, BlockFits
<1>8. Locals' /\ NamesLive' /\ KeyStored' /\ BlockRoom' /\ FilesCounted' /\ NothingUndefined'
  BY <1>1, <1>4 DEF MemoryInvariant, Locals, NamesLive, KeyStored, BlockRoom, FilesCounted,
                    NothingUndefined, ClientAllocates
<1>9. ArgsInvariant'
  BY <1>1 DEF ArgsInvariant, ArgsSoFar, CaptureConsistent, LeftoverExact
<1>10. Whole'
  BY <1>1, <1>5 DEF Whole, Nameless
<1>11. Valued'
  BY <1>1, <1>4 DEF Valued, Nameless
<1>. QED  BY <1>2, <1>3, <1>6, <1>7, <1>8, <1>9, <1>10, <1>11 DEF LibraryInvariant, MemoryInvariant

(* A step that gives one option a value, or none, finds every option where *)
(* it was.                                                                 *)
LEMMA EffectKeeps ==
    ASSUME TypeOK, TypeOK', InRange, NEW i \in 0..Len(opts), Effect(i)
    PROVE  /\ Len(opts') = Len(opts)
           /\ \A key : /\ FindIn(opts', mem', key) = FindIn(opts, mem, key)
                       /\ TypeIn(opts', mem', key) = TypeIn(opts, mem, key)
           /\ \A j \in 1..Len(opts) :
                 opts'[j].type = opts[j].type /\ \A o : StoredAs(j, o) => StoredAs(j, o)'
<1>1. PICK freed : TableStep(i, freed) /\ Spares(i, freed)
  BY DEF Effect
<1>2. \A key : /\ FindIn(opts', mem', key) = FindIn(opts, mem, key)
               /\ TypeIn(opts', mem', key) = TypeIn(opts, mem, key)
  BY <1>1, FindKept DEF Spares
<1>3. ASSUME NEW j \in 1..Len(opts)
      PROVE  opts'[j].type = opts[j].type /\ \A o : StoredAs(j, o) => StoredAs(j, o)'
  <2>1. /\ opts'[j].type = opts[j].type
        /\ opts'[j].name = opts[j].name /\ opts'[j].abbrev = opts[j].abbrev
    BY <1>1 DEF TableStep
  <2>2. /\ DOMAIN mem = 1..Len(mem) /\ DOMAIN mem' = 1..Len(mem') /\ Len(mem) <= Len(mem')
        /\ Len(mem) \in Nat /\ Len(mem') \in Nat /\ NULL \notin 1..Len(mem)
    BY <1>1, HeapAssumption DEF TypeOK, TableStep
  <2>3. \A ptr \in {opts[j].name, opts[j].abbrev} :
           Live(mem, ptr) => Live(mem', ptr) /\ mem'[ptr] = mem[ptr]
    BY <1>1, <2>2 DEF Live, TableStep, Spares
  <2>. QED  BY <2>1, <2>3 DEF StoredAs
<1>. QED  BY <1>1, <1>2, <1>3 DEF TableStep

(* The value of an option after the elements S of the input that set it. *)
LastIn(c, in, S, type, default) == IF S = {} THEN default ELSE GivenIn(c, type, in, Max(S))

LEMMA TurnLast ==
    ASSUME TypeOK, TypeOK', InRange, Whole, NEW i \in 0..Len(opts), Turn(i), next >= FirstPlace(call),
           ~failed', NEW j \in 1..Len(opts), NEW d,
           ValueOf(j) = LastIn(call, input, PlacesIn(call, opts, mem, input, next, j), opts[j].type, d)
    PROVE  ValueOf(j)' =
             LastIn(call, input, PlacesIn(call, opts', mem', input, next + 1, j), opts'[j].type, d)
<1>. DEFINE Old == PlacesIn(call, opts, mem, input, next, j)
            New == PlacesIn(call, opts', mem', input, next + 1, j)
<1>1. /\ opts'[j].type = opts[j].type
      /\ IF j = i THEN New # {} /\ Max(New) = next
         ELSE New = Old /\ ValueOf(j)' = ValueOf(j)
  BY TurnFacts
<1>2. i # 0 => ValueOf(i)' = GivenIn(call, opts[i].type, input, next)
  BY DEF Turn, Assigned
<1>3. i \in Nat /\ (j = i => i # 0)
  BY DEF TypeOK
<1>. HIDE DEF Old, New
<1>4. ValueOf(j)' = LastIn(call, input, New, opts'[j].type, d)
  BY <1>1, <1>2, <1>3 DEF LastIn, Old
<1>. QED  BY <1>4 DEF New

(* While arguments or a file are read without a failure, the value of an   *)
(* option is the one last given for it.                                    *)
LEMMA ReadingTurn ==
    ASSUME LibraryInvariant, LibraryInvariant',
           (ArgStep /\ call' = "read_args") \/ (LineStep /\ call' = "read_file"),
           fault' = "none", ~failed'
    PROVE  /\ call' = call /\ input' = input /\ next' = next + 1 /\ next \in FirstPlace(call)..Len(input)
           /\ call = "read_file" => input[next].kind # "bare"
           /\ \A j \in 1..Len(opts) : \A d :
                 ValueOf(j) = LastIn(call, input, PlacesIn(call, opts, mem, input, next, j), opts[j].type, d)
                 => ValueOf(j)' =
                      LastIn(call, input, PlacesIn(call, opts', mem', input, next + 1, j), opts'[j].type, d)
<1>1. /\ TypeOK /\ TypeOK' /\ CallState /\ CallState' /\ InRange /\ Whole /\ Naming /\ Naming'
      /\ MemoryInvariant' /\ Locals /\ NamesLive /\ KeyStored /\ MemoryInvariant /\ ArgsInvariant
  BY DEF LibraryInvariant, Naming, MemoryInvariant
<1>2. CASE ArgStep /\ call' = "read_args"
  <2>1. InLoop
    BY <1>1, <1>2 DEF InLoop, MemoryInvariant, ArgsInvariant, Naming
  <2>2. /\ call = "read_args" /\ input' = input /\ next' = next + 1
        /\ next \in FirstPlace(call)..Len(input)
    BY <2>1, LoopPlaces DEF FirstPlace
  <2>3. PICK i \in 0..Len(opts) : Turn(i)
    BY <2>1, ArgTurn
  <2>4. next >= FirstPlace(call)
    BY <2>2
  <2>. QED  BY <1>1, <1>2, <2>2, <2>3, <2>4, TurnLast
<1>3. CASE LineStep /\ call' = "read_file"
  <2>1. InLines
    BY <1>1, <1>3 DEF InLines
  <2>2. /\ call = "read_file" /\ input' = input /\ next' = next + 1
        /\ next \in FirstPlace(call)..Len(input)
    BY <2>1, LineKinds DEF FirstPlace
  <2>3. PICK i \in 0..Len(opts) : Turn(i)
    BY <2>1, LineTurn
  <2>4. next >= FirstPlace(call)
    BY <2>2
  <2>5. input[next].kind # "bare"
    BY <2>1, LineKinds DEF LineSwitch, LineValue, LineSkipped, At, TheLine
  <2>. QED  BY <1>1, <1>3, <2>2, <2>3, <2>4, <2>5, TurnLast
<1>. QED  BY <1>2, <1>3

(* What an input asks for depends on how keys are found and on the types. *)
LEMMA ReadingKept ==
    \A os, m, os2, m2 :
       (\A key : /\ FindIn(os2, m2, key) = FindIn(os, m, key)
                 /\ TypeIn(os2, m2, key) = TypeIn(os, m, key))
       => /\ \A in, p : RefusedIn(os2, m2, in, p) <=> RefusedIn(os, m, in, p)
          /\ \A j : os2[j].type = os[j].type =>
                \A c, in, n : PlacesIn(c, os2, m2, in, n, j) = PlacesIn(c, os, m, in, n, j)
<1>. SUFFICES ASSUME NEW os, NEW m, NEW os2, NEW m2,
                     \A key : /\ FindIn(os2, m2, key) = FindIn(os, m, key)
                              /\ TypeIn(os2, m2, key) = TypeIn(os, m, key)
              PROVE  /\ \A in, p : RefusedIn(os2, m2, in, p) <=> RefusedIn(os, m, in, p)
                     /\ \A j : os2[j].type = os[j].type =>
                           \A c, in, n : PlacesIn(c, os2, m2, in, n, j) = PlacesIn(c, os, m, in, n, j)
  OBVIOUS
<1>1. \A in : NamesIn(os2, m2, in) = NamesIn(os, m, in)
  BY DEF NamesIn
<1>2. \A in, p : ValueIn(os2, m2, in, p) <=> ValueIn(os, m, in, p)
  BY <1>1 DEF ValueIn
<1>3. \A j : os2[j].type = os[j].type =>
         \A c, in, p : SetsIn(c, os2, m2, in, p, j) <=> SetsIn(c, os, m, in, p, j)
  BY <1>2 DEF SetsIn
<1>. QED  BY <1>2, <1>3 DEF RefusedIn, PlacesIn

LEMMA SparedValues ==
    ASSUME TypeOK, InRange, NEW freed, TableStep(0, freed), Spares(0, freed), NEW j \in 1..Len(opts)
    PROVE  ValueOf(j)' = ValueOf(j)
<1>1. opts'[j] = opts[j] /\ opts \in Seq(Slot) /\ j # 0
  BY DEF TableStep, TypeOK
<1>2. opts[j].str \in DOMAIN mem \cup {NULL} /\ DOMAIN mem = 1..Len(mem)
  BY <1>1 DEF InRange, TypeOK
<1>3. opts[j].str # NULL => mem'[opts[j].str] = mem[opts[j].str]
  BY <1>1, <1>2 DEF TableStep, Spares
<1>. QED  BY <1>1, <1>3 DEF ValueOf

(* A call begins to read without a change of a value, and ends so; the     *)
(* arguments are read to the end unless one is refused, a file unless a    *)
(* line is none.                                                           *)
LEMMA ReadingStarts ==
    ASSUME LibraryInvariant, NEW in,
           (in \in ArgVectors /\ ReadArgs(in)) \/ ReadFile(in)
    PROVE  \A j \in 1..Len(opts) : ValueOf(j)' = ValueOf(j)
<1>1. TypeOK /\ InRange /\ Locals
  BY DEF LibraryInvariant, Naming, MemoryInvariant
<1>2. UNCHANGED opts /\ Extends(mem, mem')
  BY <1>1, ReadArgsMoves, ReadFileMoves DEF ReadArgs, ReadFile
<1>3. TableStep(0, {}) /\ Spares(0, {})
  BY <1>1, <1>2, SameTable DEF Spares
<1>. QED  BY <1>1, <1>3, SparedValues

LEMMA ArgsEnd ==
    ASSUME LibraryInvariant, ArgStep, call' = "none"
    PROVE  /\ call = "read_args" /\ UNCHANGED <<mem, failed, opts, fault>>
           /\ result' <=> \A p \in DOMAIN input : ~RefusedIn(opts, mem, input, p)
           /\ result' => next = Len(input) + 1
<1>1. TypeOK /\ MemoryInvariant /\ ArgsInvariant
  BY DEF LibraryInvariant
<1>2. ArgRefused \/ ArgsReturn
  BY DEF ArgStep, ArgSwitchOff, ArgSwitchOn, ArgCapture, ArgCopied, ArgValue, ArgCrashes,
         Normal, InArgs, In, Advance, Halt, callVars
<1>3. call = "read_args" /\ UNCHANGED <<mem, failed, opts, fault>> /\ (result' <=> ArgsReturn)
  BY <1>2 DEF ArgRefused, ArgsReturn, Normal, InArgs, In, Finish, Return, heapVars, More
<1>4. result' = (\A p \in DOMAIN input : ~IsRefused(p))
  BY <1>1, <1>3, ArgsVerdictStep DEF Next
<1>5. DOMAIN input = 1..Len(input) /\ Len(input) \in Nat /\ next \in Nat /\ next <= Len(input) + 1
  BY <1>1, <1>3 DEF TypeOK, MemoryInvariant, BlockRoom
<1>6. ASSUME NEW p \in DOMAIN input PROVE IsRefused(p) <=> RefusedIn(opts, mem, input, p)
  <2>1. p \in Nat /\ p >= 1 /\ p <= Len(input) + 1
    BY <1>5
  <2>2. CASE p >= 2
    BY <1>5, <2>1, <2>2, ReadingIs
  <2>3. CASE ~(p >= 2)
    <3>1. ~(p > 1)
      BY <2>1, <2>3
    <3>. QED  BY <3>1 DEF IsRefused, RefusedIn
  <2>. QED  BY <2>2, <2>3
<1>7. ArgsReturn => next = Len(input) + 1
  BY <1>5 DEF ArgsReturn, More
<1>. QED  BY <1>3, <1>4, <1>6, <1>7

LEMMA FileEnds ==
    ASSUME LibraryInvariant, Intact, LineStep, call' = "none"
    PROVE  /\ call = "read_file" /\ UNCHANGED <<failed, opts, fault>>
           /\ \A j \in 1..Len(opts) : ValueOf(j)' = ValueOf(j)
           /\ next > Len(input) \/ (next \in 1..Len(input) /\ input[next].kind = "bare")
<1>1. TypeOK /\ InRange
  BY DEF LibraryInvariant, Naming, MemoryInvariant
<1>2. LineRefused \/ FileReturns
  BY DEF LineStep, LineSwitch, LineValue, LineSkipped, LineHalts, LineCrashes, At, In, Advance, Halt, callVars
<1>3. /\ call = "read_file" /\ UNCHANGED <<failed, opts, fault>>
      /\ Close(TRUE) \/ Close(FALSE)
  BY <1>2 DEF LineRefused, FileReturns, At, In
<1>4. \A j \in 1..Len(opts) : ValueOf(j)' = ValueOf(j)
  BY <1>1, <1>3, CloseSpares, SparedValues
<1>5. Len(input) \in Nat /\ next \in Nat \ {0}
  BY <1>1, <1>3 DEF TypeOK
<1>6. next > Len(input) \/ (next \in 1..Len(input) /\ input[next].kind = "bare")
  <2>1. CASE LineRefused
    <3>1. More /\ TheLine.kind = "bare"
      BY <2>1 DEF LineRefused, At
    <3>. QED  BY <1>5, <3>1 DEF TheLine, More
  <2>2. CASE FileReturns
    BY <1>5, <2>2 DEF FileReturns, More
  <2>. QED  BY <1>2, <2>1, <2>2
<1>. QED  BY <1>3, <1>4, <1>6

=============================================================================
