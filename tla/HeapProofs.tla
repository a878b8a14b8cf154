------------------------------ MODULE HeapProofs ----------------------------
(***************************************************************************)
(* The memory of miniconf, for all texts, limits and client inputs: what   *)
(* it holds is allocated and held once, an argument block has room for its *)
(* arguments, files are closed, and nothing undefined happens but for want *)
(* of an option's name.                                                    *)
(***************************************************************************)
EXTENDS MiniconfProofs

-----------------------------------------------------------------------------
(* Holders of pointers, for any options os, argument blocks ab and line    *)
(* buffer b.                                                               *)
Field(slot, k) == <<slot.name, slot.abbrev, slot.desc, slot.str>>[k]
Item(bl, l) == IF l = 0 THEN bl.v ELSE bl.items[l]

OptionHolders(os) == {"option"} \X (DOMAIN os) \X (1..4)
ItemHolders(ab, k) == {"args"} \X {k} \X (0..Len(ab[k].items))
ArgHolders(ab)    == UNION {ItemHolders(ab, k) : k \in DOMAIN ab}
Holders(os, ab)   == OptionHolders(os) \cup ArgHolders(ab) \cup {<<"buffer", 1, 0>>}

Target(h, os, ab, b) ==
    CASE h[1] = "option" -> Field(os[h[2]], h[3])
      [] h[1] = "args"   -> Item(ab[h[2]], h[3])
      [] h[1] = "buffer" -> b

LEMMA HolderCases ==
    ASSUME NEW os, NEW ab, NEW h
    PROVE  h \in Holders(os, ab) <=>
             \/ \E i \in DOMAIN os, k \in 1..4 : h = <<"option", i, k>>
             \/ \E k \in DOMAIN ab : \E l \in 0..Len(ab[k].items) : h = <<"args", k, l>>
             \/ h = <<"buffer", 1, 0>>
<1>1. h \in OptionHolders(os) <=> \E i \in DOMAIN os, k \in 1..4 : h = <<"option", i, k>>
  BY DEF OptionHolders
<1>2. ASSUME NEW k
      PROVE  h \in ItemHolders(ab, k) <=> \E l \in 0..Len(ab[k].items) : h = <<"args", k, l>>
  <2>. DEFINE L == 0..Len(ab[k].items)
  <2>. HIDE DEF L
  <2>1. h \in {"args"} \X {k} \X L <=> \E l \in L : h = <<"args", k, l>>
    OBVIOUS
  <2>. QED  BY <2>1 DEF L, ItemHolders
<1>3. h \in ArgHolders(ab) <=> \E k \in DOMAIN ab : h \in ItemHolders(ab, k)
  BY DEF ArgHolders
<1>4. h \in ArgHolders(ab) <=>
        \E k \in DOMAIN ab : \E l \in 0..Len(ab[k].items) : h = <<"args", k, l>>
  BY <1>2, <1>3, Zenon
<1>5. h \in Holders(os, ab) <=> h \in OptionHolders(os) \/ h \in ArgHolders(ab) \/ h = <<"buffer", 1, 0>>
  BY DEF Holders
<1>. QED  BY <1>1, <1>4, <1>5, Zenon

LEMMA TargetFacts ==
    ASSUME NEW os, NEW ab, NEW b
    PROVE  /\ \A i, k : Target(<<"option", i, k>>, os, ab, b) = Field(os[i], k)
           /\ \A k, l : Target(<<"args", k, l>>, os, ab, b) = Item(ab[k], l)
           /\ Target(<<"buffer", 1, 0>>, os, ab, b) = b
BY DEF Target

LEMMA FieldFacts ==
    ASSUME NEW slot
    PROVE  /\ Field(slot, 1) = slot.name /\ Field(slot, 2) = slot.abbrev
           /\ Field(slot, 3) = slot.desc /\ Field(slot, 4) = slot.str
BY DEF Field

(* The pointers miniconf holds are these, in a state and in the next.      *)
LEMMA OwnersHold ==
    /\ Owners = Holders(opts, AllBlocks)
    /\ \A h \in Owners : Points(h) = Target(h, opts, AllBlocks, buffer)
    /\ Owners' = Holders(opts', AllBlocks')
    /\ \A h \in Owners' : Points(h)' = Target(h, opts', AllBlocks', buffer')
<1>1. OptionOwners = OptionHolders(opts) /\ OptionOwners' = OptionHolders(opts')
  BY DEF OptionOwners, OptionHolders
<1>2. \A h : h \in ArgOwners <=> h \in ArgHolders(AllBlocks)
  BY DEF ArgOwners, ArgHolders, ItemHolders
<1>3. \A h : h \in ArgOwners' <=> h \in ArgHolders(AllBlocks')
  BY DEF ArgOwners, ArgHolders, ItemHolders
<1>4. Owners = Holders(opts, AllBlocks)
  BY <1>1, <1>2 DEF Owners, Holders
<1>5. Owners' = Holders(opts', AllBlocks')
  BY <1>1, <1>3 DEF Owners, Holders
<1>6. ASSUME NEW h \in Owners PROVE Points(h) = Target(h, opts, AllBlocks, buffer)
  BY DEF Points, Target, Field, Item
<1>7. ASSUME NEW h \in Owners' PROVE Points(h)' = Target(h, opts', AllBlocks', buffer')
  BY DEF Points, Target, Field, Item
<1>. QED  BY <1>4, <1>5, <1>6, <1>7

(* What is held is allocated, and held once. *)
Sound(m, os, ab, b) ==
    \A h \in Holders(os, ab) :
        LET ptr == Target(h, os, ab, b)
        IN  ptr # NULL =>
              /\ Live(m, ptr)
              /\ \A g \in Holders(os, ab) : Target(g, os, ab, b) = ptr => g = h

(* m becomes n: cells are added at the end, others are freed. *)
Grown(m, n) ==
    /\ m \in Seq(Content) /\ n \in Seq(Content) /\ Len(m) <= Len(n)
    /\ \A a \in 1..Len(m) : n[a] \in {m[a], Freed}
    /\ \A a \in Len(m) + 1 .. Len(n) : n[a] # Freed

(* Every holder has what it had, nothing, or a cell just added that it has *)
(* to itself, and no cell of a holder is freed.                            *)
LEMMA SoundStep ==
    ASSUME NEW m, NEW os, NEW ab, NEW b, NEW n, NEW os2, NEW ab2, NEW b2,
           Sound(m, os, ab, b), Grown(m, n),
           \A h \in Holders(os2, ab2) :
              LET ptr == Target(h, os2, ab2, b2)
              IN  \/ ptr = NULL
                  \/ /\ h \in Holders(os, ab) /\ ptr = Target(h, os, ab, b)
                     /\ ptr \in 1..Len(m) => n[ptr] = m[ptr]
                  \/ /\ ptr \in Len(m) + 1 .. Len(n)
                     /\ \A g \in Holders(os2, ab2) : Target(g, os2, ab2, b2) = ptr => g = h
    PROVE  Sound(n, os2, ab2, b2)
<1>. DEFINE H == Holders(os, ab)  T(h) == Target(h, os, ab, b)
            H2 == Holders(os2, ab2)  T2(h) == Target(h, os2, ab2, b2)
<1>1. /\ DOMAIN m = 1..Len(m) /\ DOMAIN n = 1..Len(n) /\ Len(m) \in Nat /\ Len(n) \in Nat
      /\ Len(m) <= Len(n)
  BY DEF Grown
<1>2. \A h \in H : T(h) # NULL =>
        T(h) \in 1..Len(m) /\ m[T(h)] # Freed /\ \A g \in H : T(g) = T(h) => g = h
  BY <1>1 DEF Sound, Live
<1>3. \A h \in H2 :
        \/ T2(h) = NULL
        \/ h \in H /\ T2(h) = T(h) /\ (T2(h) \in 1..Len(m) => n[T2(h)] = m[T2(h)])
        \/ T2(h) \in Len(m) + 1 .. Len(n) /\ \A g \in H2 : T2(g) = T2(h) => g = h
  OBVIOUS
<1>4. \A a \in Len(m) + 1 .. Len(n) : n[a] # Freed
  BY DEF Grown
<1>. SUFFICES ASSUME NEW h \in H2, T2(h) # NULL
              PROVE  Live(n, T2(h)) /\ \A g \in H2 : T2(g) = T2(h) => g = h
  BY DEF Sound
<1>. HIDE DEF H, T, H2, T2
<1>5. CASE h \in H /\ T2(h) = T(h) /\ (T2(h) \in 1..Len(m) => n[T2(h)] = m[T2(h)])
  BY <1>1, <1>2, <1>3, <1>5 DEF Live
<1>6. CASE T2(h) \in Len(m) + 1 .. Len(n) /\ \A g \in H2 : T2(g) = T2(h) => g = h
  BY <1>1, <1>4, <1>6 DEF Live
<1>. QED  BY <1>3, <1>5, <1>6

(* Memory allocated that no holder has: the only one new is lost.          *)
LosesOnly(lost, m, os, ab, b, n, os2, ab2, b2) ==
    \A a \in DOMAIN n :
        n[a] # Freed /\ (\A h \in Holders(os2, ab2) : Target(h, os2, ab2, b2) # a) =>
          \/ a = lost
          \/ a \in DOMAIN m /\ m[a] # Freed /\ \A h \in Holders(os, ab) : Target(h, os, ab, b) # a

(* A holder's cell stays somebody's, or is freed; cells added have holders. *)
LEMMA LossStep ==
    ASSUME NEW m, NEW os, NEW ab, NEW b, NEW n, NEW os2, NEW ab2, NEW b2, NEW lost,
           Grown(m, n),
           \A h \in Holders(os, ab) : Target(h, os, ab, b) \in 1..Len(m) =>
              \/ Target(h, os, ab, b) = lost
              \/ n[Target(h, os, ab, b)] = Freed
              \/ \E g \in Holders(os2, ab2) : Target(g, os2, ab2, b2) = Target(h, os, ab, b),
           \A a \in Len(m) + 1 .. Len(n) :
              \E g \in Holders(os2, ab2) : Target(g, os2, ab2, b2) = a
    PROVE  LosesOnly(lost, m, os, ab, b, n, os2, ab2, b2)
<1>. DEFINE H == Holders(os, ab)  T(h) == Target(h, os, ab, b)
            H2 == Holders(os2, ab2)  T2(h) == Target(h, os2, ab2, b2)
<1>1. /\ DOMAIN m = 1..Len(m) /\ DOMAIN n = 1..Len(n) /\ Len(m) \in Nat /\ Len(n) \in Nat
      /\ Len(m) <= Len(n) /\ \A a \in 1..Len(m) : n[a] \in {m[a], Freed}
  BY DEF Grown
<1>2. \A h \in H : T(h) \in 1..Len(m) =>
        T(h) = lost \/ n[T(h)] = Freed \/ \E g \in H2 : T2(g) = T(h)
  OBVIOUS
<1>3. \A a \in Len(m) + 1 .. Len(n) : \E g \in H2 : T2(g) = a
  OBVIOUS
<1>. SUFFICES ASSUME NEW a \in DOMAIN n, n[a] # Freed, \A h \in H2 : T2(h) # a, a # lost
              PROVE  a \in DOMAIN m /\ m[a] # Freed /\ \A h \in H : T(h) # a
  BY DEF LosesOnly
<1>. HIDE DEF H, T, H2, T2
<1>. QED  BY <1>1, <1>2, <1>3

-----------------------------------------------------------------------------
(* The steps of the heap, one lemma each: what becomes of what is held.    *)

Outcome(lost, m, os, ab, b, n, os2, ab2, b2) ==
    /\ Sound(m, os, ab, b) => Sound(n, os2, ab2, b2)
    /\ LosesOnly(lost, m, os, ab, b, n, os2, ab2, b2)

(* Only the holders in X change.  Each gets nothing or an added cell to    *)
(* itself, and together they get all of them; what it had is freed or lost. *)
LEMMA OutcomeStep ==
    ASSUME NEW m, NEW os, NEW ab, NEW b, NEW n, NEW os2, NEW ab2, NEW b2, NEW lost, NEW X,
           Grown(m, n),
           Holders(os, ab) \subseteq Holders(os2, ab2),
           X \subseteq Holders(os2, ab2),
           \A h \in Holders(os2, ab2) \ X :
              h \in Holders(os, ab) /\ Target(h, os2, ab2, b2) = Target(h, os, ab, b),
           \A h \in X : Target(h, os2, ab2, b2) \in {NULL} \cup (Len(m) + 1 .. Len(n)),
           \A g, h \in X : Target(g, os2, ab2, b2) = Target(h, os2, ab2, b2) =>
              g = h \/ Target(g, os2, ab2, b2) = NULL,
           \A a \in Len(m) + 1 .. Len(n) : \E h \in X : Target(h, os2, ab2, b2) = a,
           \A a \in 1..Len(m) : n[a] # m[a] =>
              \E h \in X \cap Holders(os, ab) : Target(h, os, ab, b) = a,
           \A h \in X \cap Holders(os, ab) :
              Target(h, os, ab, b) = lost
                \/ (Target(h, os, ab, b) \in 1..Len(m) => n[Target(h, os, ab, b)] = Freed)
    PROVE  Outcome(lost, m, os, ab, b, n, os2, ab2, b2)
<1>. DEFINE H == Holders(os, ab)  T(h) == Target(h, os, ab, b)
            H2 == Holders(os2, ab2)  T2(h) == Target(h, os2, ab2, b2)
            Up == Len(m) + 1 .. Len(n)
<1>1. /\ DOMAIN m = 1..Len(m) /\ Len(m) \in Nat /\ NULL \notin 1..Len(m) /\ NULL \notin Up
      /\ \A a \in 1..Len(m) : a \notin Up
  BY HeapAssumption DEF Grown
<1>2. /\ H \subseteq H2 /\ X \subseteq H2 /\ \A h \in H2 \ X : h \in H /\ T2(h) = T(h)
      /\ \A h \in X : T2(h) \in {NULL} \cup Up
      /\ \A g, h \in X : T2(g) = T2(h) => g = h \/ T2(g) = NULL
      /\ \A a \in Up : \E h \in X : T2(h) = a
      /\ \A a \in 1..Len(m) : n[a] # m[a] => \E h \in X \cap H : T(h) = a
      /\ \A h \in X \cap H : T(h) = lost \/ (T(h) \in 1..Len(m) => n[T(h)] = Freed)
  BY Zenon
<1>3. ASSUME Sound(m, os, ab, b) PROVE Sound(n, os2, ab2, b2)
  <2>1. \A h \in H : T(h) # NULL =>
          T(h) \in 1..Len(m) /\ \A g \in H : T(g) = T(h) => g = h
    BY <1>1, <1>3 DEF Sound, Live
  <2>2. ASSUME NEW h \in H2
        PROVE  \/ T2(h) = NULL
               \/ h \in H /\ T2(h) = T(h) /\ (T2(h) \in 1..Len(m) => n[T2(h)] = m[T2(h)])
               \/ T2(h) \in Up /\ \A g \in H2 : T2(g) = T2(h) => g = h
    <3>. HIDE DEF H, T, H2, T2, Up
    <3>1. CASE h \in X
      BY <1>1, <1>2, <2>1, <3>1
    <3>2. CASE h \notin X
      BY <1>1, <1>2, <2>1, <3>2
    <3>. QED  BY <3>1, <3>2
  <2>. QED  BY <1>3, <2>2, SoundStep
<1>4. \A h \in H : T(h) \in 1..Len(m) => T(h) = lost \/ n[T(h)] = Freed \/ \E g \in H2 : T2(g) = T(h)
  <2>. HIDE DEF H, T, H2, T2, Up
  <2>. QED  BY <1>2
<1>5. \A a \in Up : \E g \in H2 : T2(g) = a
  <2>. HIDE DEF H, T, H2, T2, Up
  <2>. QED  BY <1>2
<1>6. LosesOnly(lost, m, os, ab, b, n, os2, ab2, b2)
  BY <1>4, <1>5, LossStep, Zenon
<1>. QED  BY <1>3, <1>6 DEF Outcome

(* The steps of the heap, one lemma each: what becomes of what is held.    *)

LEMMA FreedIsNoText == \A s \in Text \cup {Raw} : s # Freed
BY HeapAssumption

(* A holder whose own field, item or buffer is the same has the same target. *)
LEMMA SameTarget ==
    ASSUME NEW os, NEW ab, NEW b, NEW os2, NEW ab2, NEW b2, NEW h \in Holders(os, ab),
           \A i \in DOMAIN os, k \in 1..4 :
              h = <<"option", i, k>> => Field(os2[i], k) = Field(os[i], k),
           \A k \in DOMAIN ab : \A l \in 0..Len(ab[k].items) :
              h = <<"args", k, l>> => Item(ab2[k], l) = Item(ab[k], l),
           h = <<"buffer", 1, 0>> => b2 = b
    PROVE  Target(h, os2, ab2, b2) = Target(h, os, ab, b)
<1>1. CASE \E i \in DOMAIN os, k \in 1..4 : h = <<"option", i, k>>
  <2>1. PICK i \in DOMAIN os, k \in 1..4 : h = <<"option", i, k>>
    BY <1>1
  <2>. QED  BY <2>1 DEF Target
<1>2. CASE \E k \in DOMAIN ab : \E l \in 0..Len(ab[k].items) : h = <<"args", k, l>>
  <2>1. PICK k \in DOMAIN ab : \E l \in 0..Len(ab[k].items) : h = <<"args", k, l>>
    BY <1>2
  <2>2. PICK l \in 0..Len(ab[k].items) : h = <<"args", k, l>>
    BY <2>1
  <2>. QED  BY <2>2 DEF Target
<1>3. CASE h = <<"buffer", 1, 0>>
  BY <1>3 DEF Target
<1>. QED  BY <1>1, <1>2, <1>3, HolderCases

(* The option, argument block or buffer of a holder. *)
LEMMA OptionHolder ==
    ASSUME NEW os, NEW ab, NEW b, NEW i \in DOMAIN os, NEW k \in 1..4
    PROVE  <<"option", i, k>> \in Holders(os, ab)
           /\ Target(<<"option", i, k>>, os, ab, b) = Field(os[i], k)
<1>1. <<"option", i, k>> \in Holders(os, ab)
  BY HolderCases, Zenon
<1>. QED  BY <1>1 DEF Target

LEMMA ItemHolder ==
    ASSUME NEW os, NEW ab, NEW b, NEW k \in DOMAIN ab, NEW l \in 0..Len(ab[k].items)
    PROVE  <<"args", k, l>> \in Holders(os, ab)
           /\ Target(<<"args", k, l>>, os, ab, b) = Item(ab[k], l)
<1>1. <<"args", k, l>> \in Holders(os, ab)
  BY HolderCases, Zenon
<1>. QED  BY <1>1 DEF Target

LEMMA BufferHolder ==
    ASSUME NEW os, NEW ab, NEW b
    PROVE  <<"buffer", 1, 0>> \in Holders(os, ab)
           /\ Target(<<"buffer", 1, 0>>, os, ab, b) = b
<1>1. <<"buffer", 1, 0>> \in Holders(os, ab)
  BY HolderCases, Zenon
<1>. QED  BY <1>1 DEF Target

(* Only the line buffer changes. *)
LEMMA OpenOutcome ==
    ASSUME NEW m \in Seq(Content), NEW os, NEW ab, NEW n, Extends(m, n),
           NEW b2, b2 = Len(m) + 1, Len(n) = Len(m) + 1, n[b2] # Freed
    PROVE  Outcome(NULL, m, os, ab, NULL, n, os, ab, b2)
<1>. DEFINE h0 == <<"buffer", 1, 0>>
            X == {h0}
<1>1. /\ Grown(m, n) /\ Len(m) \in Nat /\ \A a \in 1..Len(m) : n[a] = m[a]
      /\ \A a \in Len(m) + 1 .. Len(n) : a = b2
      /\ b2 \in Len(m) + 1 .. Len(n)
  BY DEF Extends, Grown
<1>2. /\ X \subseteq Holders(os, ab)
      /\ \A h \in X : Target(h, os, ab, NULL) = NULL /\ Target(h, os, ab, b2) = b2
      /\ \A h \in Holders(os, ab) \ X : Target(h, os, ab, b2) = Target(h, os, ab, NULL)
      /\ \A g, h \in X : g = h
      /\ \E h \in X : Target(h, os, ab, b2) = b2
  <2>1. h0 \in Holders(os, ab) /\ Target(h0, os, ab, NULL) = NULL /\ Target(h0, os, ab, b2) = b2
    BY BufferHolder
  <2>2. ASSUME NEW h \in Holders(os, ab), h # h0
        PROVE  Target(h, os, ab, b2) = Target(h, os, ab, NULL)
    BY <2>2, SameTarget
  <2>. HIDE DEF h0
  <2>. QED  BY <2>1, <2>2
<1>. HIDE DEF X
<1>. QED  BY <1>1, <1>2, OutcomeStep

LEMMA CloseOutcome ==
    ASSUME NEW m \in Seq(Content), NEW os, NEW ab, NEW b
    PROVE  Outcome(NULL, m, os, ab, b, cfgFREE(m, {b}), os, ab, NULL)
<1>. DEFINE h0 == <<"buffer", 1, 0>>
            X == {h0}
            n == cfgFREE(m, {b})
<1>0. /\ n \in Seq(Content) /\ Len(n) = Len(m)
      /\ \A a \in 1..Len(m) : n[a] = IF a \in {b} THEN Freed ELSE m[a]
  BY FreeFacts
<1>. HIDE DEF n
<1>1. /\ Grown(m, n) /\ Len(m) \in Nat
      /\ \A a \in 1..Len(m) : n[a] # m[a] => a = b
      /\ b \in 1..Len(m) => n[b] = Freed
      /\ \A a \in Len(m) + 1 .. Len(n) : FALSE
  BY <1>0 DEF Grown
<1>2. /\ X \subseteq Holders(os, ab)
      /\ \A h \in X : Target(h, os, ab, NULL) = NULL /\ Target(h, os, ab, b) = b
      /\ \A h \in Holders(os, ab) \ X : Target(h, os, ab, NULL) = Target(h, os, ab, b)
      /\ \E h \in X : Target(h, os, ab, b) = b
  <2>1. h0 \in Holders(os, ab) /\ Target(h0, os, ab, NULL) = NULL /\ Target(h0, os, ab, b) = b
    BY BufferHolder
  <2>2. ASSUME NEW h \in Holders(os, ab), h # h0
        PROVE  Target(h, os, ab, NULL) = Target(h, os, ab, b)
    BY <2>2, SameTarget
  <2>. HIDE DEF h0
  <2>. QED  BY <2>1, <2>2
<1>3. Outcome(NULL, m, os, ab, b, n, os, ab, NULL)
  <2>. HIDE DEF X
  <2>. QED  BY <1>1, <1>2, OutcomeStep
<1>. QED  BY <1>3 DEF n

(* One option gets another string. *)
OnlyString(os, os2, i) ==
    /\ Len(os2) = Len(os)
    /\ \A j \in 1..Len(os) :
          /\ os2[j].name = os[j].name /\ os2[j].abbrev = os[j].abbrev /\ os2[j].desc = os[j].desc
          /\ j # i => os2[j].str = os[j].str

LEMMA StringHolder ==
    ASSUME NEW os \in Seq(Slot), NEW ab, NEW b, NEW i \in 1..Len(os)
    PROVE  /\ <<"option", i, 4>> \in Holders(os, ab)
           /\ Target(<<"option", i, 4>>, os, ab, b) = os[i].str
<1>1. i \in DOMAIN os /\ 4 \in 1..4
  OBVIOUS
<1>2. <<"option", i, 4>> \in Holders(os, ab) /\ Target(<<"option", i, 4>>, os, ab, b) = Field(os[i], 4)
  BY <1>1, OptionHolder
<1>. QED  BY <1>2, FieldFacts

LEMMA OtherStrings ==
    ASSUME NEW os \in Seq(Slot), NEW ab, NEW b, NEW os2 \in Seq(Slot), NEW i \in 1..Len(os),
           OnlyString(os, os2, i),
           NEW h \in Holders(os, ab), h # <<"option", i, 4>>
    PROVE  Target(h, os2, ab, b) = Target(h, os, ab, b)
<1>1. ASSUME NEW j \in DOMAIN os, NEW k \in 1..4, h = <<"option", j, k>>
      PROVE  Field(os2[j], k) = Field(os[j], k)
  <2>1. j # i \/ k # 4
    BY <1>1
  <2>2. j \in 1..Len(os) /\ k \in {1, 2, 3, 4}
    OBVIOUS
  <2>. QED  BY <2>1, <2>2, FieldFacts DEF OnlyString
<1>. QED  BY <1>1, SameTarget

LEMMA StringOutcome ==
    ASSUME NEW m \in Seq(Content), NEW os \in Seq(Slot), NEW ab, NEW b,
           NEW n, NEW os2 \in Seq(Slot), NEW lost, NEW i \in 1..Len(os),
           Grown(m, n), OnlyString(os, os2, i),
           \/ os2[i].str = NULL /\ Len(n) = Len(m)
           \/ os2[i].str = Len(m) + 1 /\ Len(n) = Len(m) + 1,
           \A a \in 1..Len(m) : n[a] # m[a] => a = os[i].str,
           os[i].str = lost \/ (os[i].str \in 1..Len(m) => n[os[i].str] = Freed)
    PROVE  Outcome(lost, m, os, ab, b, n, os2, ab, b)
<1>. DEFINE h0 == <<"option", i, 4>>
            X == {h0}
<1>1. DOMAIN os = 1..Len(os) /\ DOMAIN os2 = 1..Len(os) /\ Len(m) \in Nat
  BY DEF OnlyString
<1>2. \A h : h \in Holders(os, ab) <=> h \in Holders(os2, ab)
  BY <1>1, HolderCases
<1>3. /\ h0 \in Holders(os, ab)
      /\ Target(h0, os, ab, b) = os[i].str /\ Target(h0, os2, ab, b) = os2[i].str
  <2>1. i \in 1..Len(os2)
    BY DEF OnlyString
  <2>2. h0 \in Holders(os, ab) /\ Target(h0, os, ab, b) = os[i].str
    BY StringHolder
  <2>3. Target(h0, os2, ab, b) = os2[i].str
    BY <2>1, StringHolder
  <2>. QED  BY <2>2, <2>3
<1>4. ASSUME NEW h \in Holders(os, ab), h # h0
      PROVE  Target(h, os2, ab, b) = Target(h, os, ab, b)
  BY <1>4, OtherStrings
<1>5. /\ Holders(os, ab) \subseteq Holders(os2, ab) /\ X \subseteq Holders(os2, ab)
      /\ \A h \in Holders(os2, ab) \ X :
            h \in Holders(os, ab) /\ Target(h, os2, ab, b) = Target(h, os, ab, b)
      /\ \A h \in X : /\ Target(h, os, ab, b) = os[i].str
                      /\ Target(h, os2, ab, b) = os2[i].str
      /\ \A g, h \in X : g = h
      /\ \E h \in X : h \in Holders(os, ab)
  <2>. HIDE DEF h0
  <2>. QED  BY <1>2, <1>3, <1>4
<1>. HIDE DEF X
<1>6. \A h \in X : Target(h, os2, ab, b) \in {NULL} \cup (Len(m) + 1 .. Len(n))
  BY <1>1, <1>5
<1>7. \A a \in Len(m) + 1 .. Len(n) : \E h \in X : Target(h, os2, ab, b) = a
  BY <1>1, <1>5
<1>8. \A a \in 1..Len(m) : n[a] # m[a] => \E h \in X \cap Holders(os, ab) : Target(h, os, ab, b) = a
  BY <1>5
<1>9. \A h \in X \cap Holders(os, ab) :
        Target(h, os, ab, b) = lost
          \/ (Target(h, os, ab, b) \in 1..Len(m) => n[Target(h, os, ab, b)] = Freed)
  BY <1>5
<1>. QED
  <2>1. \A g, h \in X : Target(g, os2, ab, b) = Target(h, os2, ab, b) =>
          g = h \/ Target(g, os2, ab, b) = NULL
    BY <1>5
  <2>. QED  BY <1>5, <1>6, <1>7, <1>8, <1>9, <2>1, OutcomeStep, Zenon

LEMMA OptionHolderCases ==
    ASSUME NEW os, NEW h
    PROVE  h \in OptionHolders(os) <=> \E i \in DOMAIN os, k \in 1..4 : h = <<"option", i, k>>
BY DEF OptionHolders

(* A block of arguments is added, and holds its vector and what l is of. *)
LEMMA BlockHolders ==
    ASSUME NEW os, NEW bs \in Seq(Block), NEW bl \in Block, NEW h
    PROVE  h \in Holders(os, Append(bs, bl)) <=>
             h \in Holders(os, bs) \/ \E l \in 0..Len(bl.items) : h = <<"args", Len(bs) + 1, l>>
<1>. DEFINE ab == Append(bs, bl)
<1>1. /\ DOMAIN ab = DOMAIN bs \cup {Len(bs) + 1} /\ ab[Len(bs) + 1] = bl
      /\ \A k \in DOMAIN bs : ab[k] = bs[k]
  OBVIOUS
<1>. DEFINE Option1 == \E i \in DOMAIN os, k \in 1..4 : h = <<"option", i, k>>
            Arg1(x) == \E k \in DOMAIN x : \E l \in 0..Len(x[k].items) : h = <<"args", k, l>>
<1>2. h \in Holders(os, ab) <=> Option1 \/ Arg1(ab) \/ h = <<"buffer", 1, 0>>
  <2>. HIDE DEF ab
  <2>. QED  BY HolderCases
<1>3. h \in Holders(os, bs) <=> Option1 \/ Arg1(bs) \/ h = <<"buffer", 1, 0>>
  BY HolderCases
<1>4. Arg1(ab) <=> Arg1(bs) \/ \E l \in 0..Len(bl.items) : h = <<"args", Len(bs) + 1, l>>
  <2>. HIDE DEF ab
  <2>. QED  BY <1>1, Zenon
<1>. QED
  <2>. HIDE DEF ab, Option1, Arg1
  <2>1. h \in Holders(os, ab) <=>
          h \in Holders(os, bs) \/ \E l \in 0..Len(bl.items) : h = <<"args", Len(bs) + 1, l>>
    BY <1>2, <1>3, <1>4
  <2>. QED  BY <2>1 DEF ab

LEMMA BlockTargets ==
    ASSUME NEW os, NEW bs \in Seq(Block), NEW bl \in Block, NEW b
    PROVE  /\ \A h \in Holders(os, bs) : Target(h, os, Append(bs, bl), b) = Target(h, os, bs, b)
           /\ \A l : Target(<<"args", Len(bs) + 1, l>>, os, Append(bs, bl), b) = Item(bl, l)
           /\ \A l : <<"args", Len(bs) + 1, l>> \notin Holders(os, bs)
<1>. DEFINE ab == Append(bs, bl)  K == Len(bs) + 1
<1>1. ab[K] = bl /\ (\A k \in DOMAIN bs : ab[k] = bs[k]) /\ K \notin DOMAIN bs
  OBVIOUS
<1>. HIDE DEF ab, K
<1>2. ASSUME NEW h \in Holders(os, bs)
      PROVE  Target(h, os, ab, b) = Target(h, os, bs, b)
  BY <1>1, SameTarget
<1>3. ASSUME NEW l
      PROVE  Target(<<"args", K, l>>, os, ab, b) = Item(bl, l)
  BY <1>1 DEF Target
<1>4. ASSUME NEW l, <<"args", K, l>> \in Holders(os, bs)
      PROVE  FALSE
  <2>1. \E k \in DOMAIN bs : \E j \in 0..Len(bs[k].items) : <<"args", K, l>> = <<"args", k, j>>
    BY <1>4, HolderCases
  <2>. QED  BY <1>1, <2>1
<1>. QED  BY <1>2, <1>3, <1>4 DEF ab, K

LEMMA BlockOutcome ==
    ASSUME NEW m \in Seq(Content), NEW os, NEW bs \in Seq(Block), NEW b, NEW n, NEW bl \in Block,
           Extends(m, n), Grown(m, n), NEW ptr, NEW argc, bl = NewBlock(Len(m) + 1, argc, ptr),
           \/ ptr = NULL /\ Len(n) = Len(m) + 1
           \/ ptr = Len(m) + 2 /\ Len(n) = Len(m) + 2
    PROVE  Outcome(NULL, m, os, bs, b, n, os, Append(bs, bl), b)
<1>. DEFINE K == Len(bs) + 1  h0 == <<"args", K, 0>>  h1 == <<"args", K, 1>>
            ab == Append(bs, bl)  X == {h0, h1}
<1>1. 0..Len(bl.items) = {0, 1} /\ Item(bl, 0) = Len(m) + 1 /\ Item(bl, 1) = ptr
  BY DEF Item, NewBlock
<1>2. \A h : h \in Holders(os, ab) <=> h \in Holders(os, bs) \/ h = h0 \/ h = h1
  <2>. TAKE h
  <2>1. h \in Holders(os, ab) <=>
          h \in Holders(os, bs) \/ \E l \in 0..Len(bl.items) : h = <<"args", K, l>>
    BY BlockHolders
  <2>. HIDE DEF ab, K
  <2>. QED  BY <1>1, <2>1
<1>3. /\ Target(h0, os, ab, b) = Len(m) + 1 /\ Target(h1, os, ab, b) = ptr
      /\ h0 \notin Holders(os, bs) /\ h1 \notin Holders(os, bs)
      /\ \A h \in Holders(os, bs) : Target(h, os, ab, b) = Target(h, os, bs, b)
  <2>1. \A h \in Holders(os, bs) : Target(h, os, ab, b) = Target(h, os, bs, b)
    BY BlockTargets
  <2>2. \A l : Target(<<"args", K, l>>, os, ab, b) = Item(bl, l)
    <3>1. ab[K] = bl
      OBVIOUS
    <3>. HIDE DEF ab, K
    <3>2. ASSUME NEW l PROVE Target(<<"args", K, l>>, os, ab, b) = Item(ab[K], l)
      BY DEF Target
    <3>. QED  BY <3>1, <3>2
  <2>3. \A l : <<"args", K, l>> \notin Holders(os, bs)
    BY BlockTargets
  <2>. HIDE DEF ab, K
  <2>. QED  BY <1>1, <2>1, <2>2, <2>3
<1>4. h0 # h1
  OBVIOUS
<1>5. /\ Len(m) \in Nat /\ Len(m) + 1 \in Len(m) + 1 .. Len(n)
      /\ ptr \in {NULL} \cup (Len(m) + 1 .. Len(n)) /\ ptr # Len(m) + 1
      /\ \A a \in Len(m) + 1 .. Len(n) : a = Len(m) + 1 \/ a = ptr
      /\ \A a \in 1..Len(m) : n[a] = m[a]
  BY HeapAssumption DEF Extends
<1>6. /\ Holders(os, bs) \subseteq Holders(os, ab) /\ X \subseteq Holders(os, ab)
      /\ \A h \in Holders(os, ab) \ X :
            h \in Holders(os, bs) /\ Target(h, os, ab, b) = Target(h, os, bs, b)
      /\ X \cap Holders(os, bs) = {}
  <2>. HIDE DEF h0, h1, ab
  <2>. QED  BY <1>2, <1>3
<1>7. /\ \A h \in X : Target(h, os, ab, b) \in {NULL} \cup (Len(m) + 1 .. Len(n))
      /\ \A g, h \in X : Target(g, os, ab, b) = Target(h, os, ab, b) =>
            g = h \/ Target(g, os, ab, b) = NULL
      /\ \A a \in Len(m) + 1 .. Len(n) : \E h \in X : Target(h, os, ab, b) = a
  <2>. HIDE DEF h0, h1, ab
  <2>. QED  BY <1>3, <1>5
<1>8. \A a \in 1..Len(m) : n[a] # m[a] => \E h \in X \cap Holders(os, bs) : Target(h, os, bs, b) = a
  BY <1>5
<1>9. Outcome(NULL, m, os, bs, b, n, os, ab, b)
  <2>. HIDE DEF X, ab
  <2>. QED  BY <1>6, <1>7, <1>8, OutcomeStep, Zenon
<1>. QED  BY <1>9

(* An argument is added to the block being filled. *)
LEMMA ItemOutcome ==
    ASSUME NEW m \in Seq(Content), NEW os, NEW bs \in Seq(Block), NEW b, NEW n, NEW bl \in Block,
           Extends(m, n), Grown(m, n), NEW ptr,
           NEW bl2 \in Block, bl2.v = bl.v, bl2.items = Append(bl.items, ptr),
           \/ ptr = NULL /\ Len(n) = Len(m)
           \/ ptr = Len(m) + 1 /\ Len(n) = Len(m) + 1
    PROVE  Outcome(NULL, m, os, Append(bs, bl), b, n, os, Append(bs, bl2), b)
<1>. DEFINE K == Len(bs) + 1  L == Len(bl.items)  h0 == <<"args", K, L + 1>>
            ab == Append(bs, bl)  ab2 == Append(bs, bl2)  X == {h0}
<1>1. /\ L \in Nat /\ Len(bl2.items) = L + 1 /\ Item(bl2, L + 1) = ptr
      /\ \A l \in 0..L : Item(bl2, l) = Item(bl, l)
  BY DEF Item, Block
<1>2. \A h : /\ h \in Holders(os, ab) <=>
                  h \in Holders(os, bs) \/ \E l \in 0..L : h = <<"args", K, l>>
             /\ h \in Holders(os, ab2) <=>
                  h \in Holders(os, bs) \/ \E l \in 0..(L + 1) : h = <<"args", K, l>>
  <2>. TAKE h
  <2>1. h \in Holders(os, ab) <=>
          h \in Holders(os, bs) \/ \E l \in 0..Len(bl.items) : h = <<"args", K, l>>
    BY BlockHolders
  <2>2. h \in Holders(os, ab2) <=>
          h \in Holders(os, bs) \/ \E l \in 0..Len(bl2.items) : h = <<"args", K, l>>
    BY BlockHolders
  <2>. HIDE DEF ab, ab2, K
  <2>. QED  BY <1>1, <2>1, <2>2
<1>3. /\ \A h \in Holders(os, bs) : Target(h, os, ab2, b) = Target(h, os, ab, b)
      /\ \A l \in 0..L : Target(<<"args", K, l>>, os, ab2, b) = Target(<<"args", K, l>>, os, ab, b)
      /\ Target(h0, os, ab2, b) = ptr /\ h0 \notin Holders(os, bs)
  <2>1. \A h \in Holders(os, bs) : Target(h, os, ab, b) = Target(h, os, bs, b)
    BY BlockTargets
  <2>2. \A h \in Holders(os, bs) : Target(h, os, ab2, b) = Target(h, os, bs, b)
    BY BlockTargets
  <2>3. \A l : <<"args", K, l>> \notin Holders(os, bs)
    BY BlockTargets
  <2>4. ab[K] = bl /\ ab2[K] = bl2
    OBVIOUS
  <2>. HIDE DEF ab, ab2, K, L
  <2>5. ASSUME NEW l
        PROVE  /\ Target(<<"args", K, l>>, os, ab, b) = Item(bl, l)
               /\ Target(<<"args", K, l>>, os, ab2, b) = Item(bl2, l)
    BY <2>4 DEF Target
  <2>. QED  BY <1>1, <2>1, <2>2, <2>3, <2>5
<1>4. \A l \in 0..(L + 1) : l \in 0..L \/ l = L + 1
  BY <1>1
<1>5. \A l \in 0..L : <<"args", K, l>> # h0
  BY <1>1
<1>6. /\ Holders(os, ab) \subseteq Holders(os, ab2) /\ X \subseteq Holders(os, ab2)
      /\ \A h \in Holders(os, ab2) \ X :
            h \in Holders(os, ab) /\ Target(h, os, ab2, b) = Target(h, os, ab, b)
      /\ X \cap Holders(os, ab) = {}
  <2>1. \A l \in 0..L : l \in 0..(L + 1)
    BY <1>1
  <2>2. L + 1 \in 0..(L + 1)
    BY <1>1
  <2>3. Holders(os, ab) \subseteq Holders(os, ab2)
    BY <1>2, <2>1, Zenon
  <2>4. h0 \in Holders(os, ab2)
    BY <1>2, <2>2, Zenon
  <2>5. h0 \notin Holders(os, ab)
    BY <1>2, <1>3, <1>5, Zenon
  <2>6. ASSUME NEW h \in Holders(os, ab2), h # h0
        PROVE  h \in Holders(os, ab) /\ Target(h, os, ab2, b) = Target(h, os, ab, b)
    <3>1. CASE h \in Holders(os, bs)
      BY <1>2, <1>3, <3>1, Zenon
    <3>2. CASE h \notin Holders(os, bs)
      <4>1. PICK l \in 0..(L + 1) : h = <<"args", K, l>>
        BY <1>2, <3>2, Zenon
      <4>2. l \in 0..L
        BY <1>4, <2>6, <4>1
      <4>. QED  BY <1>2, <1>3, <4>1, <4>2, Zenon
    <3>. QED  BY <3>1, <3>2
  <2>. HIDE DEF h0, ab, ab2
  <2>. QED  BY <2>3, <2>4, <2>5, <2>6
<1>7. /\ Len(m) \in Nat /\ ptr \in {NULL} \cup (Len(m) + 1 .. Len(n))
      /\ \A a \in Len(m) + 1 .. Len(n) : a = ptr
      /\ \A a \in 1..Len(m) : n[a] = m[a]
  <2>1. CASE ptr = NULL /\ Len(n) = Len(m)
    BY <2>1 DEF Extends
  <2>2. CASE ptr = Len(m) + 1 /\ Len(n) = Len(m) + 1
    BY <2>2 DEF Extends
  <2>. QED  BY <2>1, <2>2
<1>8. /\ \A h \in X : Target(h, os, ab2, b) = ptr
      /\ \A g, h \in X : g = h
      /\ \A a \in Len(m) + 1 .. Len(n) : \E h \in X : Target(h, os, ab2, b) = a
  <2>. HIDE DEF h0, ab2
  <2>. QED  BY <1>3, <1>7
<1>. HIDE DEF X
<1>9. \A h \in X : Target(h, os, ab2, b) \in {NULL} \cup (Len(m) + 1 .. Len(n))
  BY <1>7, <1>8
<1>10. Outcome(NULL, m, os, ab, b, n, os, ab2, b)
  <2>. HIDE DEF ab, ab2
  <2>1. \A h \in X : h \notin Holders(os, ab)
    BY <1>6
  <2>2. \A a \in 1..Len(m) : n[a] # m[a] => \E h \in X \cap Holders(os, ab) : Target(h, os, ab, b) = a
    BY <1>7
  <2>3. \A h \in X \cap Holders(os, ab) :
          Target(h, os, ab, b) = NULL
            \/ (Target(h, os, ab, b) \in 1..Len(m) => n[Target(h, os, ab, b)] = Freed)
    BY <2>1
  <2>4. \A g, h \in X : Target(g, os, ab2, b) = Target(h, os, ab2, b) =>
          g = h \/ Target(g, os, ab2, b) = NULL
    BY <1>8
  <2>. QED  BY <1>6, <1>8, <1>9, <2>2, <2>3, <2>4, OutcomeStep, Zenon
<1>. QED  BY <1>10

(* malloc gave the cell ptr of n, or nothing and n is m. *)
Taken(m, n, ptr) ==
    /\ Extends(m, n) /\ Grown(m, n)
    /\ \/ ptr = NULL /\ Len(n) = Len(m)
       \/ ptr = Len(m) + 1 /\ Len(n) = Len(m) + 1

LEMMA AppendTaken ==
    ASSUME NEW m \in Seq(Content), NEW s \in Text \cup {Raw}
    PROVE  Taken(m, Append(m, s), Len(m) + 1)
<1>. DEFINE n == Append(m, s)
<1>1. s \in Content /\ s # Freed
  BY FreedIsNoText DEF Content
<1>2. /\ n \in Seq(Content) /\ Len(n) = Len(m) + 1 /\ n[Len(m) + 1] = s
      /\ \A a \in 1..Len(m) : n[a] = m[a]
      /\ Len(m) \in Nat
  BY <1>1
<1>. HIDE DEF n
<1>3. Extends(m, n)
  BY <1>2 DEF Extends
<1>4. \A a \in Len(m) + 1 .. Len(n) : n[a] # Freed
  BY <1>1, <1>2
<1>5. Grown(m, n)
  BY <1>2, <1>4 DEF Grown
<1>. QED  BY <1>2, <1>3, <1>5 DEF Taken, n

LEMMA NothingTaken ==
    ASSUME NEW m \in Seq(Content)
    PROVE  Taken(m, m, NULL)
<1>1. Len(m) \in Nat
  OBVIOUS
<1>2. \A a \in Len(m) + 1 .. Len(m) : FALSE
  BY <1>1
<1>3. Extends(m, m) /\ Grown(m, m)
  BY <1>1, <1>2 DEF Extends, Grown
<1>. QED  BY <1>3 DEF Taken

LEMMA CopyTaken ==
    ASSUME NEW m \in Seq(Content), NEW s \in Text \cup {NULL}, NEW ok \in BOOLEAN
    PROVE  LET copy == cfg_copy_string(m, s, ok) IN Taken(m, copy.mem, copy.ptr)
<1>. DEFINE copy == cfg_copy_string(m, s, ok)
<1>1. \/ copy.ptr = NULL /\ copy.mem = m
      \/ copy.ptr = Len(m) + 1 /\ copy.mem = Append(m, s) /\ s \in Text
  BY CopyFacts
<1>. HIDE DEF copy
<1>. QED  BY <1>1, AppendTaken, NothingTaken DEF copy

LEMMA TakenType == ASSUME NEW m, NEW n, NEW ptr, Taken(m, n, ptr)
                   PROVE  m \in Seq(Content) /\ n \in Seq(Content)
BY DEF Taken, Grown

LEMMA GrownTransitive ==
    ASSUME NEW l, NEW m, NEW n, Grown(l, m), Grown(m, n), Extends(m, n)
    PROVE  Grown(l, n)
<1>1. /\ l \in Seq(Content) /\ m \in Seq(Content) /\ n \in Seq(Content)
      /\ Len(l) <= Len(m) /\ Len(m) <= Len(n)
      /\ \A a \in 1..Len(l) : m[a] \in {l[a], Freed}
      /\ \A a \in Len(l) + 1 .. Len(m) : m[a] # Freed
      /\ \A a \in Len(m) + 1 .. Len(n) : n[a] # Freed
      /\ \A a \in 1..Len(m) : n[a] = m[a]
  BY DEF Grown, Extends
<1>2. \A a \in 1..Len(l) : n[a] \in {l[a], Freed}
  <2>. TAKE a \in 1..Len(l)
  <2>1. a \in 1..Len(m)
    BY <1>1
  <2>. QED  BY <1>1, <2>1
<1>3. \A a \in Len(l) + 1 .. Len(n) : n[a] # Freed
  <2>. TAKE a \in Len(l) + 1 .. Len(n)
  <2>1. a \in Len(l) + 1 .. Len(m) \/ a \in Len(m) + 1 .. Len(n)
    BY <1>1
  <2>2. a \in Len(l) + 1 .. Len(m) => a \in 1..Len(m)
    BY <1>1
  <2>. QED  BY <1>1, <2>1, <2>2
<1>. QED  BY <1>1, <1>2, <1>3 DEF Grown

(* An option is stored, with the strings malloc gave cells for. *)
FreshFields(m, n, slot) ==
    /\ \A k \in 1..4 : Field(slot, k) \in {NULL} \cup (Len(m) + 1 .. Len(n))
    /\ \A j, k \in 1..4 : Field(slot, j) = Field(slot, k) => j = k \/ Field(slot, j) = NULL
    /\ \A a \in Len(m) + 1 .. Len(n) : \E k \in 1..4 : Field(slot, k) = a

LEMMA FieldsTaken ==
    ASSUME NEW m, NEW m1, NEW m2, NEW m3, NEW n, NEW slot,
           Taken(m, m1, slot.name), Taken(m1, m2, slot.abbrev),
           Taken(m2, m3, slot.desc), Taken(m3, n, slot.str)
    PROVE  Extends(m, n) /\ Grown(m, n) /\ FreshFields(m, n, slot)
<1>. DEFINE p1 == Field(slot, 1)  p2 == Field(slot, 2)  p3 == Field(slot, 3)  p4 == Field(slot, 4)
            A == Len(m)  B == Len(m1)  C == Len(m2)  D == Len(m3)  E == Len(n)
<1>1. A \in Nat /\ B \in Nat /\ C \in Nat /\ D \in Nat /\ E \in Nat
  BY TakenType
<1>2. /\ (p1 = NULL /\ B = A) \/ (p1 = A + 1 /\ B = A + 1)
      /\ (p2 = NULL /\ C = B) \/ (p2 = B + 1 /\ C = B + 1)
      /\ (p3 = NULL /\ D = C) \/ (p3 = C + 1 /\ D = C + 1)
      /\ (p4 = NULL /\ E = D) \/ (p4 = D + 1 /\ E = D + 1)
  <2>1. p1 = slot.name /\ p2 = slot.abbrev /\ p3 = slot.desc /\ p4 = slot.str
    BY FieldFacts
  <2>. HIDE DEF p1, p2, p3, p4
  <2>. QED  BY <2>1 DEF Taken
<1>3. Extends(m, n) /\ Grown(m, n)
  BY ExtendsTransitive, GrownTransitive DEF Taken
<1>. HIDE DEF p1, p2, p3, p4, A, B, C, D, E
<1>4. /\ p1 \in {NULL} \cup (A + 1 .. E) /\ p2 \in {NULL} \cup (A + 1 .. E)
      /\ p3 \in {NULL} \cup (A + 1 .. E) /\ p4 \in {NULL} \cup (A + 1 .. E)
  BY <1>1, <1>2
<1>5. /\ p1 = NULL \/ (p1 # p2 /\ p1 # p3 /\ p1 # p4)
      /\ p2 = NULL \/ (p2 # p3 /\ p2 # p4)
      /\ p3 = NULL \/ p3 # p4
      /\ p1 = p2 \/ p1 = p3 \/ p1 = p4 \/ p2 = p3 \/ p2 = p4 \/ p3 = p4 => NULL \in {p1, p2, p3, p4}
  BY <1>1, <1>2, HeapAssumption
<1>6. ASSUME NEW a \in A + 1 .. E PROVE a = p1 \/ a = p2 \/ a = p3 \/ a = p4
  BY <1>1, <1>2
<1>7. \A k \in 1..4 : k = 1 \/ k = 2 \/ k = 3 \/ k = 4
  OBVIOUS
<1>8. \A k \in 1..4 : Field(slot, k) \in {NULL} \cup (A + 1 .. E)
  BY <1>4, <1>7 DEF p1, p2, p3, p4
<1>9. \A j, k \in 1..4 : Field(slot, j) = Field(slot, k) => j = k \/ Field(slot, j) = NULL
  BY <1>5, <1>7 DEF p1, p2, p3, p4
<1>10. \A a \in A + 1 .. E : \E k \in 1..4 : Field(slot, k) = a
  BY <1>6 DEF p1, p2, p3, p4
<1>. QED  BY <1>3, <1>8, <1>9, <1>10 DEF A, E, FreshFields

SlotAdded(os, slot, ab, b) ==
    LET os2 == Append(os, slot)
        h0(k) == <<"option", Len(os) + 1, k>>
    IN  /\ \A h : h \in Holders(os2, ab) <=> h \in Holders(os, ab) \/ \E k \in 1..4 : h = h0(k)
        /\ \A h \in Holders(os, ab) : Target(h, os2, ab, b) = Target(h, os, ab, b)
        /\ \A k : Target(h0(k), os2, ab, b) = Field(slot, k)
        /\ \A k : h0(k) \notin Holders(os, ab)

LEMMA SlotHolders ==
    ASSUME NEW os \in Seq(Slot), NEW slot \in Slot, NEW ab, NEW b
    PROVE  SlotAdded(os, slot, ab, b)
<1>. DEFINE os2 == Append(os, slot)  N == Len(os) + 1
<1>1. /\ DOMAIN os2 = DOMAIN os \cup {N} /\ os2[N] = slot /\ N \notin DOMAIN os
      /\ \A i \in DOMAIN os : os2[i] = os[i]
  OBVIOUS
<1>. HIDE DEF os2, N
<1>2. ASSUME NEW h
      PROVE  h \in Holders(os2, ab) <=> h \in Holders(os, ab) \/ \E k \in 1..4 : h = <<"option", N, k>>
  <2>1. h \in OptionHolders(os2) <=> \E i \in DOMAIN os2, k \in 1..4 : h = <<"option", i, k>>
    BY OptionHolderCases
  <2>2. h \in OptionHolders(os) <=> \E i \in DOMAIN os, k \in 1..4 : h = <<"option", i, k>>
    BY OptionHolderCases
  <2>3. h \in OptionHolders(os2) <=> h \in OptionHolders(os) \/ \E k \in 1..4 : h = <<"option", N, k>>
    BY <1>1, <2>1, <2>2, Zenon
  <2>. QED  BY <2>3 DEF Holders
<1>3. ASSUME NEW h \in Holders(os, ab)
      PROVE  Target(h, os2, ab, b) = Target(h, os, ab, b)
  BY <1>1, SameTarget
<1>4. ASSUME NEW k
      PROVE  Target(<<"option", N, k>>, os2, ab, b) = Field(slot, k)
  BY <1>1 DEF Target
<1>5. ASSUME NEW k, <<"option", N, k>> \in Holders(os, ab)
      PROVE  FALSE
  <2>1. \E i \in DOMAIN os, j \in 1..4 : <<"option", N, k>> = <<"option", i, j>>
    BY <1>5, HolderCases
  <2>. QED  BY <1>1, <2>1
<1>. QED  BY <1>2, <1>3, <1>4, <1>5 DEF os2, N, SlotAdded

LEMMA StoreOutcome ==
    ASSUME NEW m, NEW m1, NEW m2, NEW m3, NEW n, NEW slot \in Slot,
           Taken(m, m1, slot.name), Taken(m1, m2, slot.abbrev),
           Taken(m2, m3, slot.desc), Taken(m3, n, slot.str),
           NEW os \in Seq(Slot), NEW ab, NEW b
    PROVE  Outcome(NULL, m, os, ab, b, n, Append(os, slot), ab, b)
<1>. DEFINE os2 == Append(os, slot)  h0(k) == <<"option", Len(os) + 1, k>>
            X == {h0(k) : k \in 1..4}
<1>1. /\ \A h : h \in Holders(os2, ab) <=> h \in Holders(os, ab) \/ \E k \in 1..4 : h = h0(k)
      /\ \A h \in Holders(os, ab) : Target(h, os2, ab, b) = Target(h, os, ab, b)
      /\ \A k : Target(h0(k), os2, ab, b) = Field(slot, k)
      /\ \A k : h0(k) \notin Holders(os, ab)
  <2>1. SlotAdded(os, slot, ab, b)
    BY SlotHolders
  <2>. QED  BY <2>1 DEF SlotAdded
<1>2. /\ Extends(m, n) /\ Grown(m, n)
      /\ \A k \in 1..4 : Field(slot, k) \in {NULL} \cup (Len(m) + 1 .. Len(n))
      /\ \A j, k \in 1..4 : Field(slot, j) = Field(slot, k) => j = k \/ Field(slot, j) = NULL
      /\ \A a \in Len(m) + 1 .. Len(n) : \E k \in 1..4 : Field(slot, k) = a
  <2>1. Extends(m, n) /\ Grown(m, n) /\ FreshFields(m, n, slot)
    BY FieldsTaken
  <2>. QED  BY <2>1 DEF FreshFields
<1>3. \A a \in 1..Len(m) : n[a] = m[a]
  BY <1>2 DEF Extends
<1>4. /\ Holders(os, ab) \subseteq Holders(os2, ab) /\ X \subseteq Holders(os2, ab)
      /\ \A h \in Holders(os2, ab) \ X :
            h \in Holders(os, ab) /\ Target(h, os2, ab, b) = Target(h, os, ab, b)
      /\ \A h \in X : h \notin Holders(os, ab)
  <2>. HIDE DEF os2, h0
  <2>. QED  BY <1>1
<1>5. /\ \A h \in X : Target(h, os2, ab, b) \in {NULL} \cup (Len(m) + 1 .. Len(n))
      /\ \A g, h \in X : Target(g, os2, ab, b) = Target(h, os2, ab, b) =>
            g = h \/ Target(g, os2, ab, b) = NULL
      /\ \A a \in Len(m) + 1 .. Len(n) : \E h \in X : Target(h, os2, ab, b) = a
  <2>. HIDE DEF os2, h0
  <2>. QED  BY <1>1, <1>2
<1>. HIDE DEF X, os2
<1>6. \A a \in 1..Len(m) : n[a] # m[a] => \E h \in X \cap Holders(os, ab) : Target(h, os, ab, b) = a
  BY <1>3
<1>7. \A h \in X \cap Holders(os, ab) :
        Target(h, os, ab, b) = NULL
          \/ (Target(h, os, ab, b) \in 1..Len(m) => n[Target(h, os, ab, b)] = Freed)
  BY <1>4
<1>8. Outcome(NULL, m, os, ab, b, n, os2, ab, b)
  BY <1>2, <1>4, <1>5, <1>6, <1>7, OutcomeStep, Zenon
<1>. QED  BY <1>8 DEF os2

-----------------------------------------------------------------------------
(* What a step does to what miniconf holds.  Only an argument that becomes *)
(* the value of a string option loses something.                           *)
Lost == IF call = "read_args" /\ state = "CAPTURE" THEN opts[cfg_find(current_option)].str ELSE NULL

MovesAt(lost) == Outcome(lost, mem, opts, AllBlocks, buffer, mem', opts', AllBlocks', buffer')

LEMMA SameBlocks == UNCHANGED <<blocks, block>> => UNCHANGED AllBlocks
BY DEF AllBlocks

(* Nothing that is held moves. *)
LEMMA StillOutcome ==
    ASSUME NEW m \in Seq(Content), NEW os \in Seq(Slot), NEW ab, NEW b, NEW os2 \in Seq(Slot), NEW lost,
           Len(os2) = Len(os), \A j \in 1..Len(os) : \A k \in 1..4 : Field(os2[j], k) = Field(os[j], k)
    PROVE  Outcome(lost, m, os, ab, b, m, os2, ab, b)
<1>1. Grown(m, m) /\ Len(m) \in Nat
  BY NothingTaken DEF Taken
<1>2. \A h : h \in Holders(os, ab) <=> h \in Holders(os2, ab)
  <2>1. DOMAIN os = DOMAIN os2
    OBVIOUS
  <2>. QED  BY <2>1 DEF Holders, OptionHolders
<1>3. ASSUME NEW h \in Holders(os, ab)
      PROVE  Target(h, os2, ab, b) = Target(h, os, ab, b)
  <2>1. \A j \in DOMAIN os, k \in 1..4 : Field(os2[j], k) = Field(os[j], k)
    OBVIOUS
  <2>. QED  BY <2>1, SameTarget
<1>4. \A a \in Len(m) + 1 .. Len(m) : FALSE
  BY <1>1
<1>5. /\ Holders(os, ab) \subseteq Holders(os2, ab)
      /\ \A h \in Holders(os2, ab) \ {} :
            h \in Holders(os, ab) /\ Target(h, os2, ab, b) = Target(h, os, ab, b)
  BY <1>2, <1>3
<1>6. \A a \in Len(m) + 1 .. Len(m) : \E h \in {} : Target(h, os2, ab, b) = a
  BY <1>4
<1>7. /\ \A h \in {} : Target(h, os2, ab, b) \in {NULL} \cup (Len(m) + 1 .. Len(m))
      /\ \A g, h \in {} : Target(g, os2, ab, b) = Target(h, os2, ab, b) =>
            g = h \/ Target(g, os2, ab, b) = NULL
      /\ \A a \in 1..Len(m) : m[a] # m[a] => \E h \in {} \cap Holders(os, ab) : Target(h, os, ab, b) = a
      /\ \A h \in {} \cap Holders(os, ab) :
            Target(h, os, ab, b) = lost
              \/ (Target(h, os, ab, b) \in 1..Len(m) => m[Target(h, os, ab, b)] = Freed)
  OBVIOUS
<1>. QED  BY <1>1, <1>5, <1>6, <1>7, OutcomeStep, Zenon

LEMMA UnmovedMoves ==
    ASSUME TypeOK, UNCHANGED <<mem, opts, AllBlocks, buffer>>, NEW lost
    PROVE  MovesAt(lost)
<1>1. mem \in Seq(Content) /\ opts \in Seq(Slot)
  BY DEF TypeOK
<1>2. Outcome(lost, mem, opts, AllBlocks, buffer, mem, opts, AllBlocks, buffer)
  BY <1>1, StillOutcome
<1>. QED  BY <1>2 DEF MovesAt

LEMMA NumberMoves ==
    ASSUME TypeOK, NEW i, NEW n \in Int, SetNumber(i, n), UNCHANGED <<AllBlocks, buffer>>, NEW lost
    PROVE  MovesAt(lost)
<1>1. mem \in Seq(Content) /\ opts \in Seq(Slot)
  BY DEF TypeOK
<1>2. opts' \in Seq(Slot) /\ Len(opts') = Len(opts) /\ mem' = mem
  BY <1>1, SetNumberFacts
<1>3. opts' = [opts EXCEPT ![i].num = n, ![i].input = TRUE]
  BY DEF SetNumber
<1>4. ASSUME NEW j \in 1..Len(opts)
      PROVE  /\ opts'[j].name = opts[j].name /\ opts'[j].abbrev = opts[j].abbrev
             /\ opts'[j].desc = opts[j].desc /\ opts'[j].str = opts[j].str
  <2>1. opts[j] \in Slot
    BY <1>1
  <2>. QED  BY <1>1, <1>3, <2>1 DEF Slot
<1>5. ASSUME NEW j \in 1..Len(opts), NEW k \in 1..4
      PROVE  Field(opts'[j], k) = Field(opts[j], k)
  <2>1. k \in {1, 2, 3, 4}
    OBVIOUS
  <2>. QED  BY <1>4, <2>1, FieldFacts
<1>6. Outcome(lost, mem, opts, AllBlocks, buffer, mem, opts', AllBlocks, buffer)
  BY <1>1, <1>2, <1>5, StillOutcome
<1>. QED  BY <1>2, <1>6 DEF MovesAt

(* A string becomes the value of option i, in memory m: the old value was  *)
(* freed, or it is lost.                                                   *)
LEMMA StringMoves ==
    ASSUME TypeOK, NEW i \in 1..Len(opts), NEW s \in Text \cup {NULL}, NEW ok \in BOOLEAN, NEW lost,
           NEW m \in Seq(Content), Len(m) = Len(mem),
           \A a \in 1..Len(mem) : m[a] = mem[a] \/ (m[a] = Freed /\ a = opts[i].str),
           opts[i].str = lost \/ (opts[i].str \in 1..Len(m) => m[opts[i].str] = Freed),
           SetString(m, i, s, ok), UNCHANGED <<AllBlocks, buffer>>
    PROVE  MovesAt(lost)
<1>. DEFINE copy == cfg_copy_string(m, s, ok)
<1>1. mem \in Seq(Content) /\ opts \in Seq(Slot) /\ failed \in BOOLEAN
  BY DEF TypeOK
<1>2. Taken(m, copy.mem, copy.ptr)
  BY CopyTaken
<1>3. /\ mem' = copy.mem
      /\ opts' = [opts EXCEPT ![i].str = copy.ptr, ![i].input = TRUE]
  BY DEF SetString
<1>. HIDE DEF copy
<1>4. opts' \in Seq(Slot) /\ Len(opts') = Len(opts)
  BY <1>1, SetStringFacts
<1>5. /\ Len(m) \in Nat /\ mem' \in Seq(Content) /\ Len(m) <= Len(mem')
      /\ \A a \in 1..Len(m) : mem'[a] = m[a]
      /\ \A a \in Len(m) + 1 .. Len(mem') : mem'[a] # Freed
  BY <1>2, <1>3 DEF Taken, Extends, Grown
<1>6. Grown(mem, mem')
  BY <1>1, <1>5 DEF Grown
<1>7. OnlyString(opts, opts', i) /\ opts'[i].str = copy.ptr
  <2>1. ASSUME NEW j \in 1..Len(opts)
        PROVE  /\ opts'[j].name = opts[j].name /\ opts'[j].abbrev = opts[j].abbrev
               /\ opts'[j].desc = opts[j].desc
               /\ j # i => opts'[j].str = opts[j].str
               /\ j = i => opts'[j].str = copy.ptr
    <3>1. opts[j] \in Slot
      BY <1>1
    <3>. QED  BY <1>1, <1>3, <3>1 DEF Slot
  <2>. QED  BY <1>4, <2>1 DEF OnlyString
<1>8. \/ opts'[i].str = NULL /\ Len(mem') = Len(mem)
      \/ opts'[i].str = Len(mem) + 1 /\ Len(mem') = Len(mem) + 1
  BY <1>2, <1>3, <1>7 DEF Taken
<1>9. \A a \in 1..Len(mem) : mem'[a] # mem[a] => a = opts[i].str
  BY <1>5
<1>10. opts[i].str = lost \/ (opts[i].str \in 1..Len(mem) => mem'[opts[i].str] = Freed)
  BY <1>5
<1>11. Outcome(lost, mem, opts, AllBlocks, buffer, mem', opts', AllBlocks, buffer)
  BY <1>1, <1>4, <1>6, <1>7, <1>8, <1>9, <1>10, StringOutcome, Zenon
<1>. QED  BY <1>11 DEF MovesAt

LEMMA ReplaceMoves ==
    ASSUME TypeOK, NEW i \in 1..Len(opts), NEW s \in Text \cup {NULL}, ReplaceString(i, s),
           UNCHANGED <<AllBlocks, buffer>>, NEW lost
    PROVE  MovesAt(lost)
<1>. DEFINE m == cfgFREE(mem, {opts[i].str})
<1>1. PICK ok \in Grant : SetString(m, i, s, ok)
  BY DEF ReplaceString
<1>2. /\ m \in Seq(Content) /\ Len(m) = Len(mem)
      /\ \A a \in 1..Len(mem) : m[a] = IF a \in {opts[i].str} THEN Freed ELSE mem[a]
  BY FreeFacts DEF TypeOK
<1>. HIDE DEF m
<1>3. \A a \in 1..Len(mem) : m[a] = mem[a] \/ (m[a] = Freed /\ a = opts[i].str)
  BY <1>2
<1>4. opts[i].str \in 1..Len(m) => m[opts[i].str] = Freed
  BY <1>2
<1>. QED  BY <1>1, <1>2, <1>3, <1>4, GrantType, StringMoves

LEMMA AssignMoves ==
    ASSUME TypeOK, NEW i \in 1..Len(opts), NEW s \in Text, Assign(i, s),
           UNCHANGED <<AllBlocks, buffer>>
    PROVE  MovesAt(opts[i].str)
<1>1. CASE opts[i].type = "STRING"
  <2>1. PICK ok \in Grant : SetString(mem, i, s, ok)
    BY <1>1 DEF Assign
  <2>2. mem \in Seq(Content)
    BY DEF TypeOK
  <2>3. \A a \in 1..Len(mem) : mem[a] = mem[a] \/ (mem[a] = Freed /\ a = opts[i].str)
    OBVIOUS
  <2>. QED  BY <2>1, <2>2, <2>3, GrantType, StringMoves
<1>2. CASE opts[i].type # "STRING"
  <2>1. SetNumber(i, Number(opts[i].type, s))
    BY <1>2 DEF Assign
  <2>. QED  BY <2>1, NumberType, NumberMoves
<1>. QED  BY <1>1, <1>2

LEMMA StoreMoves ==
    ASSUME TypeOK, StoreOption
    PROVE  /\ MovesAt(NULL)
           /\ \E slot \in Slot : /\ opts' = Append(opts, slot)
                                 /\ slot.name = NULL => failed'
                                 /\ slot.name # NULL => Live(mem', slot.name)
           /\ \A a \in 1..Len(mem) : mem'[a] = mem[a]
           /\ Len(mem) <= Len(mem')
<1>. DEFINE o == input[next]
<1>1. /\ o \in Option /\ mem \in Seq(Content) /\ opts \in Seq(Slot) /\ failed \in BOOLEAN
      /\ UNCHANGED <<blocks, block, buffer>>
  BY DEF StoreOption, In, More, TypeOK, argVars, fileVars
<1>2. PICK ok \in [1..4 -> Grant] : cfg_store(o, ok)
  BY DEF StoreOption
<1>. HIDE DEF o
<1>. DEFINE name   == cfg_copy_string(mem, o.name, ok[1])
            abbrev == cfg_copy_string(name.mem, o.abbrev, ok[2])
            desc   == cfg_copy_string(abbrev.mem, o.desc, ok[3])
            value  == IF o.type = "STRING" THEN o.str ELSE NULL
            str    == cfg_copy_string(desc.mem, value, ok[4])
            slot   == [name |-> name.ptr, abbrev |-> abbrev.ptr, desc |-> desc.ptr,
                       type |-> o.type, num |-> o.num, str |-> str.ptr, input |-> FALSE]
<1>3. mem' = str.mem /\ opts' = Append(opts, slot)
      /\ (Refused(o.name, name) => failed')
  BY <1>2 DEF cfg_store
<1>4. /\ o.name \in Text /\ o.abbrev \in Text \cup {NULL}
      /\ o.desc \in Text \cup {NULL} /\ value \in Text \cup {NULL}
      /\ o.type \in ValueType /\ o.num \in Int
  BY <1>1 DEF Option
<1>5. ok[1] \in BOOLEAN /\ ok[2] \in BOOLEAN /\ ok[3] \in BOOLEAN /\ ok[4] \in BOOLEAN
  BY GrantType
<1>. HIDE DEF value
<1>6. Taken(mem, name.mem, name.ptr)
  BY <1>1, <1>4, <1>5, CopyTaken
<1>. HIDE DEF name
<1>7. Taken(name.mem, abbrev.mem, abbrev.ptr)
  BY <1>4, <1>5, <1>6, TakenType, CopyTaken
<1>. HIDE DEF abbrev
<1>8. Taken(abbrev.mem, desc.mem, desc.ptr)
  BY <1>4, <1>5, <1>7, TakenType, CopyTaken
<1>. HIDE DEF desc
<1>9. Taken(desc.mem, str.mem, str.ptr)
  BY <1>4, <1>5, <1>8, TakenType, CopyTaken
<1>. HIDE DEF str
<1>10. /\ slot.name = name.ptr /\ slot.abbrev = abbrev.ptr /\ slot.desc = desc.ptr /\ slot.str = str.ptr
       /\ slot \in Slot
  <2>1. \A m, n, ptr : Taken(m, n, ptr) => ptr \in Ptr
    BY DEF Taken, Grown, Ptr
  <2>2. name.ptr \in Ptr /\ abbrev.ptr \in Ptr /\ desc.ptr \in Ptr /\ str.ptr \in Ptr
    BY <1>6, <1>7, <1>8, <1>9, <2>1
  <2>. QED  BY <1>4, <2>2 DEF Slot
<1>. HIDE DEF slot
<1>11. /\ Taken(mem, name.mem, slot.name) /\ Taken(name.mem, abbrev.mem, slot.abbrev)
       /\ Taken(abbrev.mem, desc.mem, slot.desc) /\ Taken(desc.mem, mem', slot.str)
  BY <1>3, <1>6, <1>7, <1>8, <1>9, <1>10
<1>12. Outcome(NULL, mem, opts, AllBlocks, buffer, mem', Append(opts, slot), AllBlocks, buffer)
  BY <1>1, <1>10, <1>11, StoreOutcome
<1>13. MovesAt(NULL)
  BY <1>1, <1>3, <1>12, SameBlocks DEF MovesAt
<1>14. Extends(mem, mem') /\ Grown(mem, mem') /\ FreshFields(mem, mem', slot)
  BY <1>11, FieldsTaken
<1>15. slot.name = NULL => failed'
  BY <1>3, <1>4, <1>10, HeapAssumption DEF Refused
<1>16. slot.name # NULL => Live(mem', slot.name)
  <2>1. Field(slot, 1) = slot.name /\ 1 \in 1..4
    BY FieldFacts
  <2>2. slot.name # NULL => slot.name \in Len(mem) + 1 .. Len(mem')
    BY <1>14, <2>1 DEF FreshFields
  <2>. QED  BY <1>14, <2>2 DEF Grown, Live
<1>. QED  BY <1>3, <1>10, <1>13, <1>14, <1>15, <1>16 DEF Extends

LEMMA BlockIsNoNull ==
    /\ \A b \in Block : b # NULL
    /\ TypeOK /\ CallState /\ call = "read_args" =>
          block \in Block /\ AllBlocks = Append(blocks, block)
<1>1. \A b \in Block : b # NULL
  BY ClientAssumption
<1>. QED  BY <1>1 DEF TypeOK, CallState, AllBlocks

LEMMA ReadArgsMoves ==
    ASSUME TypeOK, Locals, NEW argv \in ArgVectors, ReadArgs(argv)
    PROVE  /\ MovesAt(NULL)
           /\ block'.size = Len(argv) /\ Len(block'.items) = 1 /\ block' \in Block
           /\ AllBlocks = blocks /\ AllBlocks' = Append(blocks, block')
           /\ Extends(mem, mem')
<1>. DEFINE vector == cfgALLOC(mem, Raw, TRUE)
<1>1. mem \in Seq(Content) /\ opts \in Seq(Slot) /\ blocks \in Seq(Block) /\ argv[1] \in Text /\ argv \in Seq(Text)
  BY ClientAssumption DEF TypeOK
<1>2. PICK ok \in Grant :
        LET first == cfg_copy_string(vector.mem, argv[1], ok)
        IN  /\ mem' = first.mem
            /\ block' = NewBlock(vector.ptr, Len(argv), first.ptr)
  BY DEF ReadArgs
<1>3. Taken(mem, vector.mem, vector.ptr) /\ vector.ptr = Len(mem) + 1
  <2>1. vector.mem = Append(mem, Raw) /\ vector.ptr = Len(mem) + 1
    BY DEF cfgALLOC
  <2>. QED  BY <1>1, <2>1, AppendTaken
<1>. HIDE DEF vector
<1>. DEFINE first == cfg_copy_string(vector.mem, argv[1], ok)
<1>4. mem' = first.mem /\ block' = NewBlock(Len(mem) + 1, Len(argv), first.ptr)
  BY <1>2, <1>3
<1>5. Taken(vector.mem, mem', first.ptr)
  BY <1>1, <1>3, <1>4, TakenType, CopyTaken, GrantType
<1>. HIDE DEF first
<1>6. Extends(mem, mem') /\ Grown(mem, mem')
  BY <1>3, <1>5, ExtendsTransitive, GrownTransitive DEF Taken
<1>7. \/ first.ptr = NULL /\ Len(mem') = Len(mem) + 1
      \/ first.ptr = Len(mem) + 2 /\ Len(mem') = Len(mem) + 2
  <2>1. Len(mem) \in Nat
    BY <1>1
  <2>2. Len(mem) + 1 # NULL
    BY <2>1, HeapAssumption
  <2>. QED  BY <1>3, <1>5, <2>1, <2>2 DEF Taken
<1>8. block' \in Block
  <2>1. <<first.ptr>> \in Seq(Ptr)
    BY <1>1, <1>7 DEF Ptr
  <2>2. Len(mem) + 1 \in Nat /\ Len(argv) \in Nat
    BY <1>1
  <2>. QED  BY <1>4, <2>1, <2>2 DEF NewBlock, Block
<1>9. block'.size = Len(argv) /\ Len(block'.items) = 1
  BY <1>4 DEF NewBlock
<1>10. AllBlocks = blocks /\ UNCHANGED <<blocks, opts, buffer>>
  BY DEF ReadArgs, Idle, Locals, AllBlocks, fileVars
<1>11. AllBlocks' = Append(blocks, block')
  BY <1>8, <1>10, BlockIsNoNull DEF AllBlocks
<1>12. Outcome(NULL, mem, opts, blocks, buffer, mem', opts, Append(blocks, block'), buffer)
  BY <1>1, <1>4, <1>6, <1>7, <1>8, BlockOutcome
<1>. QED  BY <1>6, <1>8, <1>9, <1>10, <1>11, <1>12 DEF MovesAt

LEMMA ReadFileMoves ==
    ASSUME TypeOK, Locals, NEW lines, ReadFile(lines)
    PROVE  MovesAt(NULL) /\ Extends(mem, mem')
<1>1. mem \in Seq(Content) /\ mem' = Append(mem, Raw) /\ buffer' = Len(mem) + 1 /\ buffer = NULL
      /\ UNCHANGED <<opts, AllBlocks>>
  BY SameBlocks DEF TypeOK, ReadFile, cfgALLOC, Idle, Locals, argVars
<1>2. Taken(mem, mem', buffer') /\ buffer' # NULL
  BY <1>1, AppendTaken, HeapAssumption
<1>3. Extends(mem, mem') /\ Len(mem') = Len(mem) + 1 /\ mem'[buffer'] # Freed
  BY <1>1, <1>2 DEF Taken, Grown
<1>4. Outcome(NULL, mem, opts, AllBlocks, NULL, mem', opts, AllBlocks, buffer')
  BY <1>1, <1>3, OpenOutcome
<1>. QED  BY <1>1, <1>3, <1>4 DEF MovesAt

(* The calls of a client, but cfg_exit, lose nothing. *)
LEMMA ClientMoves ==
    ASSUME TypeOK, Locals, ClientStep
    PROVE  MovesAt(NULL) \/ cfg_exit
<1>1. ASSUME cfg_init \/ ExitCrashes \/ LifeHalts
      PROVE  MovesAt(NULL)
  <2>1. UNCHANGED <<mem, opts, AllBlocks, buffer>>
    BY <1>1, SameBlocks DEF cfg_init, ExitCrashes, LifeHalts, Halt, heapVars, argVars, fileVars
  <2>. QED  BY <2>1, UnmovedMoves
<1>2. ASSUME NEW list \in OptionLists, AddOptions(list)
      PROVE  MovesAt(NULL)
  <2>1. UNCHANGED <<mem, opts, AllBlocks, buffer>>
    BY <1>2, SameBlocks DEF AddOptions, heapVars, argVars, fileVars
  <2>. QED  BY <2>1, UnmovedMoves
<1>3. ASSUME NEW argv \in ArgVectors, ReadArgs(argv)
      PROVE  MovesAt(NULL)
  BY <1>3, ReadArgsMoves
<1>4. ASSUME NEW argv \in ArgVectors, ReadArgsHalts(argv)
      PROVE  MovesAt(NULL)
  <2>1. UNCHANGED <<mem, opts, AllBlocks, buffer>>
    BY <1>4, SameBlocks DEF ReadArgsHalts, Halt, heapVars, argVars, fileVars
  <2>. QED  BY <2>1, UnmovedMoves
<1>5. ASSUME NEW lines \in ConfigFiles, ReadFile(lines)
      PROVE  MovesAt(NULL)
  BY <1>5, ReadFileMoves
<1>6. ASSUME NEW lines \in ConfigFiles, ReadFileMissing(lines) \/ ReadFileNoBuffer(lines)
      PROVE  MovesAt(NULL)
  <2>1. UNCHANGED <<mem, opts, AllBlocks, buffer>>
    BY <1>6, SameBlocks DEF ReadFileMissing, ReadFileNoBuffer, heapVars, argVars, fileVars
  <2>. QED  BY <2>1, UnmovedMoves
<1>7. ASSUME NEW key \in Keys, NEW n \in Int, NEW type, cfg_set_number(type, key, n)
      PROVE  MovesAt(NULL)
  <2>1. SetNumber(cfg_find(key), n) /\ UNCHANGED <<AllBlocks, buffer>>
    BY <1>7, SameBlocks DEF cfg_set_number, argVars, fileVars
  <2>. QED  BY <2>1, NumberMoves
<1>8. ASSUME NEW key \in Keys, NEW s \in Strings, cfg_set_string(key, s)
      PROVE  MovesAt(NULL)
  <2>1. s \in Text \cup {NULL}
    BY ClientAssumption
  <2>2. ReplaceString(cfg_find(key), s) /\ UNCHANGED <<AllBlocks, buffer>> /\ cfg_find(key) # 0
    BY <1>8, SameBlocks DEF cfg_set_string, cfg_type, argVars, fileVars
  <2>3. cfg_find(key) \in 1..Len(opts)
    BY <2>2, FindType DEF TypeOK
  <2>. QED  BY <2>1, <2>2, <2>3, ReplaceMoves
<1>9. ASSUME NEW key \in Keys, NEW type, AccessHalts(type, key)
      PROVE  MovesAt(NULL)
  <2>1. UNCHANGED <<mem, opts, AllBlocks, buffer>>
    BY <1>9, SameBlocks DEF AccessHalts, Halt, heapVars, argVars, fileVars
  <2>. QED  BY <2>1, UnmovedMoves
<1>. QED
  <2>1. Numbers \subseteq Int /\ 0..1 \subseteq Int
    BY ClientAssumption
  <2>. QED  BY <2>1, <1>1, <1>2, <1>3, <1>4, <1>5, <1>6, <1>7, <1>8, <1>9 DEF ClientStep

LEMMA CopyMoves ==
    ASSUME TypeOK, CallState, call = "read_args", call' = "read_args", NEW s \in Text, Copy(s),
           UNCHANGED <<opts, blocks, buffer>>
    PROVE  /\ MovesAt(NULL)
           /\ block'.size = block.size /\ Len(block'.items) = Len(block.items) + 1
           /\ AllBlocks = Append(blocks, block) /\ AllBlocks' = Append(blocks, block')
<1>1. /\ mem \in Seq(Content) /\ opts \in Seq(Slot) /\ blocks \in Seq(Block)
      /\ failed \in BOOLEAN
  BY DEF TypeOK
<1>2. block \in Block /\ AllBlocks = Append(blocks, block)
  BY BlockIsNoNull
<1>3. PICK ok \in Grant :
        LET copy == cfg_copy_string(mem, s, ok)
        IN  /\ mem' = copy.mem
            /\ block' = [block EXCEPT !.items = Append(@, copy.ptr)]
  BY DEF Copy
<1>. DEFINE copy == cfg_copy_string(mem, s, ok)
<1>4. Taken(mem, copy.mem, copy.ptr)
  BY <1>1, CopyTaken, GrantType
<1>5. mem' = copy.mem /\ block' = [block EXCEPT !.items = Append(@, copy.ptr)]
  BY <1>3
<1>. HIDE DEF copy
<1>6. block' \in Block
  BY <1>1, <1>2, CopyType
<1>7. /\ block'.v = block.v /\ block'.size = block.size
      /\ block'.items = Append(block.items, copy.ptr)
      /\ Len(block'.items) = Len(block.items) + 1
  BY <1>2, <1>5 DEF Block
<1>8. AllBlocks' = Append(blocks, block')
  BY <1>6, BlockIsNoNull DEF AllBlocks
<1>9. /\ Extends(mem, mem') /\ Grown(mem, mem')
      /\ \/ copy.ptr = NULL /\ Len(mem') = Len(mem)
         \/ copy.ptr = Len(mem) + 1 /\ Len(mem') = Len(mem) + 1
  BY <1>4, <1>5 DEF Taken
<1>10. Outcome(NULL, mem, opts, Append(blocks, block), buffer, mem', opts, Append(blocks, block'), buffer)
  BY <1>1, <1>2, <1>6, <1>7, <1>9, ItemOutcome
<1>. QED  BY <1>2, <1>7, <1>8, <1>10 DEF MovesAt

LEMMA FinishBlocks ==
    ASSUME TypeOK, CallState, call = "read_args", NEW r, Finish(r)
    PROVE  UNCHANGED AllBlocks
<1>1. AllBlocks = Append(blocks, block)
  BY BlockIsNoNull
<1>. QED  BY <1>1 DEF Finish, AllBlocks

LEMMA ArgMoves ==
    ASSUME TypeOK, CallState, KeyStored, ArgStep
    PROVE  MovesAt(Lost)
<1>1. call = "read_args" /\ input \in Seq(Text) /\ (More => Arg \in Text)
  <2>1. call = "read_args"
    BY DEF ArgStep, ArgSwitchOff, ArgRefused, ArgSwitchOn, ArgCapture, ArgCopied, ArgValue,
           ArgCrashes, ArgsReturn, Normal, InArgs, In
  <2>. QED  BY <2>1 DEF More, Arg, TypeOK
<1>2. ASSUME ArgSwitchOff \/ ArgSwitchOn
      PROVE  MovesAt(Lost)
  <2>1. /\ SetNumber(cfg_find(Rest[Arg]), 0) \/ SetNumber(cfg_find(Rest[Arg]), 1)
        /\ UNCHANGED <<AllBlocks, buffer>>
    BY <1>2, SameBlocks DEF ArgSwitchOff, ArgSwitchOn, argVars, fileVars
  <2>. QED  BY <2>1, NumberMoves
<1>3. ASSUME ArgRefused \/ ArgsReturn
      PROVE  MovesAt(Lost)
  <2>1. UNCHANGED <<mem, opts, AllBlocks, buffer>>
    BY <1>1, <1>3, FinishBlocks DEF ArgRefused, ArgsReturn, heapVars, fileVars
  <2>. QED  BY <2>1, UnmovedMoves
<1>4. ASSUME ArgCapture \/ ArgCrashes
      PROVE  MovesAt(Lost)
  <2>1. UNCHANGED <<mem, opts, AllBlocks, buffer>>
    BY <1>4, SameBlocks DEF ArgCapture, ArgCrashes, Halt, heapVars, argVars, fileVars
  <2>. QED  BY <2>1, UnmovedMoves
<1>5. ASSUME ArgCopied
      PROVE  MovesAt(Lost)
  <2>1. /\ Copy(Arg) /\ UNCHANGED <<opts, blocks, buffer>> /\ Arg \in Text
        /\ state = "NORMAL" /\ call' = "read_args"
    BY <1>1, <1>5 DEF ArgCopied, Normal, InArgs, Advance, fileVars
  <2>2. Lost = NULL
    BY <2>1 DEF Lost
  <2>. QED  BY <1>1, <2>1, <2>2, CopyMoves
<1>6. ASSUME ArgValue
      PROVE  MovesAt(Lost)
  <2>. DEFINE i == cfg_find(current_option)
  <2>1. /\ Assign(i, Arg) /\ Arg \in Text /\ state = "CAPTURE"
        /\ UNCHANGED <<AllBlocks, buffer>>
    BY <1>1, <1>6, SameBlocks DEF ArgValue, InArgs, fileVars
  <2>2. i # 0
    BY <2>1 DEF KeyStored, cfg_type, Capturing
  <2>3. i \in 1..Len(opts)
    BY <2>2, FindType DEF TypeOK
  <2>4. Lost = opts[i].str
    BY <1>1, <2>1 DEF Lost
  <2>. HIDE DEF i
  <2>5. MovesAt(opts[i].str)
    BY <2>1, <2>3, AssignMoves
  <2>. QED  BY <2>4, <2>5
<1>. QED  BY <1>2, <1>3, <1>4, <1>5, <1>6 DEF ArgStep

LEMMA CloseMoves ==
    ASSUME TypeOK, NEW r, Close(r), UNCHANGED <<opts, AllBlocks>>
    PROVE  MovesAt(NULL)
<1>1. mem \in Seq(Content) /\ mem' = cfgFREE(mem, {buffer}) /\ buffer' = NULL
  BY DEF TypeOK, Close
<1>2. Outcome(NULL, mem, opts, AllBlocks, buffer, cfgFREE(mem, {buffer}), opts, AllBlocks, NULL)
  BY <1>1, CloseOutcome
<1>. QED  BY <1>1, <1>2 DEF MovesAt

LEMMA LineMoves ==
    ASSUME TypeOK, LineStep
    PROVE  MovesAt(NULL)
<1>1. call = "read_file" /\ input \in Seq(Line) /\ (More => TheLine \in Line)
  <2>1. call = "read_file"
    BY DEF LineStep, LineSwitch, LineValue, LineSkipped, LineRefused, LineHalts, LineCrashes,
           FileReturns, At, In
  <2>. QED  BY <2>1 DEF More, TheLine, TypeOK
<1>2. ASSUME LineSwitch
      PROVE  MovesAt(NULL)
  <2>1. /\ SetNumber(cfg_find(TheLine.key), 0) \/ SetNumber(cfg_find(TheLine.key), 1)
        /\ UNCHANGED <<AllBlocks, buffer>>
    BY <1>2, SameBlocks DEF LineSwitch, argVars, fileVars
  <2>. QED  BY <2>1, NumberMoves
<1>3. ASSUME LineValue
      PROVE  MovesAt(NULL)
  <2>. DEFINE i == cfg_find(TheLine.key)
  <2>1. UNCHANGED <<AllBlocks, buffer>> /\ More /\ i # 0
    BY <1>3, SameBlocks DEF LineValue, argVars, fileVars, At, cfg_type, Capturing
  <2>2. i \in 1..Len(opts)
    BY <2>1, FindType DEF TypeOK
  <2>3. TheLine.value \in Text
    BY <1>1, <2>1 DEF Line
  <2>4. \/ ReplaceString(i, TheLine.value)
        \/ SetNumber(i, Number(opts[i].type, TheLine.value))
    BY <1>3 DEF LineValue
  <2>. HIDE DEF i
  <2>5. CASE ReplaceString(i, TheLine.value)
    BY <2>1, <2>2, <2>3, <2>5, ReplaceMoves
  <2>6. CASE SetNumber(i, Number(opts[i].type, TheLine.value))
    BY <2>1, <2>3, <2>6, NumberType, NumberMoves
  <2>. QED  BY <2>4, <2>5, <2>6
<1>4. ASSUME LineSkipped \/ LineHalts \/ LineCrashes
      PROVE  MovesAt(NULL)
  <2>1. UNCHANGED <<mem, opts, AllBlocks, buffer>>
    BY <1>4, SameBlocks DEF LineSkipped, LineHalts, LineCrashes, Halt, heapVars, argVars, fileVars
  <2>. QED  BY <2>1, UnmovedMoves
<1>5. ASSUME LineRefused \/ FileReturns
      PROVE  MovesAt(NULL)
  <2>1. (Close(TRUE) \/ Close(FALSE)) /\ UNCHANGED <<opts, AllBlocks>>
    BY <1>5, SameBlocks DEF LineRefused, FileReturns, argVars
  <2>. QED  BY <2>1, CloseMoves
<1>. QED  BY <1>2, <1>3, <1>4, <1>5 DEF LineStep

(* Every step but cfg_exit. *)
LEMMA StepMoves ==
    ASSUME TypeOK, CallState, Locals, KeyStored, [Next]_vars
    PROVE  MovesAt(Lost) \/ cfg_exit
<1>1. call # "read_args" => Lost = NULL
  BY DEF Lost
<1>2. ClientStep => call = "none"
  BY DEF ClientStep, cfg_init, cfg_exit, ExitCrashes, LifeHalts, AddOptions, ReadArgs, ReadArgsHalts,
         ReadFile, ReadFileMissing, ReadFileNoBuffer, cfg_set_number, cfg_set_string, AccessHalts, Idle
<1>3. LineStep => call = "read_file"
  BY DEF LineStep, LineSwitch, LineValue, LineSkipped, LineRefused, LineHalts, LineCrashes,
         FileReturns, At, In
<1>4. CASE StoreStep
  <2>1. CASE StoreOption
    <3>1. call = "add_options"
      BY <2>1 DEF StoreOption, In
    <3>. QED  BY <1>1, <2>1, <3>1, StoreMoves
  <2>2. CASE StoreHalts \/ AddOptionsReturns
    <3>1. UNCHANGED <<mem, opts, AllBlocks, buffer>>
      BY <2>2, SameBlocks DEF StoreHalts, AddOptionsReturns, Halt, heapVars, argVars, fileVars
    <3>. QED  BY <3>1, UnmovedMoves
  <2>. QED  BY <1>4, <2>1, <2>2 DEF StoreStep
<1>5. CASE UNCHANGED vars
  <2>1. UNCHANGED <<mem, opts, AllBlocks, buffer>>
    BY <1>5, SameBlocks DEF vars, heapVars, argVars, fileVars
  <2>. QED  BY <2>1, UnmovedMoves
<1>. QED  BY <1>1, <1>2, <1>3, <1>4, <1>5, ClientMoves, ArgMoves, LineMoves DEF Next

-----------------------------------------------------------------------------
(* What OwnedOnce says of the pointers is Sound, and OnlyCaptureLeaks says *)
(* of the cells what LosesOnly does.                                       *)
Intact == Sound(mem, opts, AllBlocks, buffer)
Kept(i) == initialized /\ (lives = 1 \/ i)
AllNamed == \A i \in DOMAIN opts : opts[i].name # NULL


LEMMA OwnedOnceSound ==
    /\ OwnedOnce <=> (Kept(AllNamed) => Intact)
    /\ OwnedOnce' <=> (Kept(AllNamed) => Intact)'
<1>1. Intact <=>
        /\ \A ptr \in Owned : Live(mem, ptr)
        /\ IsInjective([o \in {q \in Owners : Points(q) # NULL} |-> Points(o)])
  <2>1. Intact <=>
          /\ \A ptr \in {Points(o) : o \in Owners} \ {NULL} : Live(mem, ptr)
          /\ \A g, h \in Owners : Points(g) # NULL /\ Points(g) = Points(h) => g = h
    <3>1. \A h \in Owners : Points(h) = Target(h, opts, AllBlocks, buffer)
      BY OwnersHold
    <3>2. Intact <=> \A h \in Owners :
             Points(h) # NULL => Live(mem, Points(h)) /\ \A g \in Owners : Points(g) = Points(h) => g = h
      BY <3>1, OwnersHold DEF Intact, Sound
    <3>. QED  BY <3>2
  <2>2. IsInjective([o \in {q \in Owners : Points(q) # NULL} |-> Points(o)]) <=>
          \A g, h \in Owners : Points(g) # NULL /\ Points(g) = Points(h) => g = h
    BY DEF IsInjective
  <2>. QED  BY <2>1, <2>2 DEF Owned
<1>2. Intact' <=>
        /\ \A ptr \in Owned' : Live(mem', ptr)
        /\ IsInjective([o \in {q \in Owners : Points(q) # NULL} |-> Points(o)])'
  <2>1. Intact' <=>
          /\ \A ptr \in {Points(o)' : o \in Owners'} \ {NULL} : Live(mem', ptr)
          /\ \A g, h \in Owners' : Points(g)' # NULL /\ Points(g)' = Points(h)' => g = h
    <3>1. \A h \in Owners' : Points(h)' = Target(h, opts', AllBlocks', buffer')
      BY OwnersHold
    <3>2. Intact' <=> \A h \in Owners' :
             Points(h)' # NULL =>
               Live(mem', Points(h)') /\ \A g \in Owners' : Points(g)' = Points(h)' => g = h
      BY <3>1, OwnersHold DEF Intact, Sound
    <3>. QED  BY <3>2
  <2>2. IsInjective([o \in {q \in Owners : Points(q) # NULL} |-> Points(o)])' <=>
          \A g, h \in Owners' : Points(g)' # NULL /\ Points(g)' = Points(h)' => g = h
    BY DEF IsInjective
  <2>. QED  BY <2>1, <2>2 DEF Owned
<1>. QED  BY <1>1, <1>2 DEF OwnedOnce, Kept, AllNamed

-----------------------------------------------------------------------------
(* The steps again: what they do to the locals of a call and to the files. *)
InCall ==
    /\ block # NULL => call = "read_args"
    /\ buffer # NULL => call = "read_file"

Places == InCall /\ KeyStored /\ BlockRoom /\ BlockFits /\ FilesCounted

(* Malloc's refusals are never forgotten. *)
LEMMA FailedStays == [Next]_vars => (failed => failed')
<1>1. ASSUME failed, NEW m, NEW i, NEW s, NEW ok, SetString(m, i, s, ok) PROVE failed'
  BY <1>1 DEF SetString
<1>2. ASSUME failed, NEW i, NEW n, SetNumber(i, n) PROVE failed'
  BY <1>2 DEF SetNumber, heapVars
<1>3. ASSUME failed, NEW i, NEW s, ReplaceString(i, s) PROVE failed'
  BY <1>1, <1>3 DEF ReplaceString
<1>4. ASSUME failed, NEW i, NEW s, Assign(i, s) PROVE failed'
  BY <1>1, <1>2, <1>4 DEF Assign
<1>5. ASSUME failed, ClientStep PROVE failed'
  BY <1>2, <1>3, <1>5
     DEF ClientStep, cfg_init, cfg_exit, ExitCrashes, LifeHalts, AddOptions, ReadArgs, ReadArgsHalts,
         ReadFile, ReadFileMissing, ReadFileNoBuffer, cfg_set_number, cfg_set_string, AccessHalts,
         Halt, heapVars
<1>6. ASSUME failed, StoreStep PROVE failed'
  <2>1. ASSUME NEW o, NEW ok, cfg_store(o, ok) PROVE failed'
    BY <1>6, <2>1 DEF cfg_store
  <2>. QED  BY <1>6, <2>1 DEF StoreStep, StoreOption, StoreHalts, AddOptionsReturns, Halt, heapVars
<1>7. ASSUME failed, ArgStep PROVE failed'
  <2>1. ASSUME NEW s, Copy(s) PROVE failed'
    BY <1>7, <2>1 DEF Copy
  <2>. QED  BY <1>2, <1>4, <1>7, <2>1
            DEF ArgStep, ArgSwitchOff, ArgRefused, ArgSwitchOn, ArgCapture, ArgCopied, ArgValue,
                ArgCrashes, ArgsReturn, Halt, heapVars
<1>8. ASSUME failed, LineStep PROVE failed'
  BY <1>2, <1>3, <1>8
     DEF LineStep, LineSwitch, LineValue, LineSkipped, LineRefused, LineHalts, LineCrashes,
         FileReturns, Halt, heapVars
<1>. QED  BY <1>5, <1>6, <1>7, <1>8 DEF Next, vars, heapVars

(* Outside of cfg_read_args and cfg_read_file there is nothing to place. *)
LEMMA QuietPlaces ==
    ASSUME TypeOK, Places, failed => failed', UNCHANGED <<argVars, fileVars>>,
           call \in {"none", "add_options"}, call' \in {"none", "add_options"}
    PROVE  Places'
<1>1. state' # "CAPTURE" /\ block' = NULL /\ buffer' = NULL
  BY DEF Places, KeyStored, InCall, TypeOK, argVars, fileVars
<1>2. BlockFits'
  BY DEF Places, BlockFits, AllBlocks, argVars
<1>3. FilesCounted'
  BY DEF Places, FilesCounted, fileVars
<1>. QED  BY <1>1, <1>2, <1>3 DEF Places, InCall, KeyStored, BlockRoom

LEMMA FindSame ==
    ASSUME UNCHANGED <<mem, opts>>
    PROVE  \A key : cfg_find(key)' = cfg_find(key) /\ cfg_type(key)' = cfg_type(key)
BY DEF cfg_type, cfg_find, StopsAt, Matches

LEMMA StillPlaces ==
    ASSUME Places, UNCHANGED <<heapVars, opts, argVars, fileVars, callVars>>
    PROVE  Places'
<1>1. KeyStored'
  <2>1. cfg_type(current_option)' = cfg_type(current_option)
    BY DEF cfg_type, cfg_find, StopsAt, Matches, heapVars, argVars
  <2>. QED  BY <2>1 DEF Places, KeyStored, argVars, callVars
<1>2. InCall' /\ BlockRoom' /\ BlockFits' /\ FilesCounted'
  BY DEF Places, InCall, BlockRoom, BlockFits, FilesCounted, AllBlocks,
         heapVars, argVars, fileVars, callVars
<1>. QED  BY <1>1, <1>2 DEF Places

LEMMA ClientPlaces ==
    ASSUME TypeOK, Locals, Places, ClientStep
    PROVE  Places'
<1>0. failed => failed'
  BY FailedStays DEF Next
<1>1. CASE cfg_init
  BY <1>0, <1>1, QuietPlaces DEF cfg_init
<1>2. CASE cfg_exit
  <2>1. /\ call = "none" /\ call' = "none" /\ blocks' = <<>>
        /\ UNCHANGED <<failed, block, state, current_option, files, buffer>>
    BY <1>2 DEF cfg_exit, Idle, fileVars, callVars
  <2>2. state' # "CAPTURE" /\ block' = NULL /\ buffer' = NULL
    BY <2>1 DEF Places, KeyStored, InCall, TypeOK
  <2>3. BlockFits'
    BY <2>1, <2>2 DEF BlockFits, AllBlocks
  <2>4. FilesCounted'
    BY <2>1 DEF Places, FilesCounted
  <2>. QED  BY <2>1, <2>2, <2>3, <2>4 DEF Places, InCall, KeyStored, BlockRoom
<1>3. CASE ExitCrashes \/ LifeHalts
  BY <1>3, StillPlaces DEF ExitCrashes, LifeHalts, Halt
<1>4. ASSUME NEW list \in OptionLists, AddOptions(list)
      PROVE  Places'
  BY <1>0, <1>4, QuietPlaces DEF AddOptions, Idle, Enter
<1>5. ASSUME NEW argv \in ArgVectors, ReadArgs(argv)
      PROVE  Places'
  <2>1. /\ block'.size = Len(argv) /\ Len(block'.items) = 1 /\ block' \in Block
        /\ AllBlocks = blocks /\ AllBlocks' = Append(blocks, block')
    BY <1>5, ReadArgsMoves
  <2>2. /\ call = "none" /\ call' = "read_args" /\ input' = argv /\ next' = 2 /\ state' = "NORMAL"
        /\ UNCHANGED <<files, buffer>>
    BY <1>5 DEF ReadArgs, Idle, Enter, FirstArg, fileVars
  <2>3. argv \in Seq(Text) /\ Len(argv) \in Nat /\ Len(argv) > 0
    BY ClientAssumption
  <2>4. BlockRoom'
    BY <2>1, <2>2, <2>3 DEF BlockRoom
  <2>5. BlockFits'
    <3>1. \A k \in DOMAIN blocks : Len(blocks[k].items) <= blocks[k].size
      BY <2>1 DEF Places, BlockFits
    <3>2. blocks \in Seq(Block)
      BY DEF TypeOK
    <3>. DEFINE ab == AllBlocks'
    <3>3. ab = Append(blocks, block')
      BY <2>1
    <3>4. \A k \in DOMAIN ab : (k \in DOMAIN blocks /\ ab[k] = blocks[k]) \/ ab[k] = block'
      <4>. HIDE DEF ab
      <4>. QED  BY <3>2, <3>3, <2>1
    <3>5. Len(block'.items) <= block'.size
      BY <2>1, <2>3
    <3>. QED  BY <3>1, <3>4, <3>5 DEF BlockFits
  <2>6. FilesCounted'
    BY <1>0, <2>2 DEF Places, FilesCounted
  <2>7. InCall' /\ KeyStored'
    BY <2>2 DEF Places, InCall, KeyStored
  <2>. QED  BY <2>4, <2>5, <2>6, <2>7 DEF Places
<1>6. ASSUME NEW argv \in ArgVectors, ReadArgsHalts(argv)
      PROVE  Places'
  BY <1>6, StillPlaces DEF ReadArgsHalts, Halt
<1>7. ASSUME NEW lines \in ConfigFiles, ReadFile(lines)
      PROVE  Places'
  <2>1. /\ call = "none" /\ call' = "read_file" /\ files' = files + 1
        /\ UNCHANGED <<failed, argVars>>
    BY <1>7 DEF ReadFile, Idle, Enter
  <2>2. state' # "CAPTURE" /\ block' = NULL
    BY <2>1 DEF Places, KeyStored, InCall, TypeOK, argVars
  <2>3. BlockFits'
    BY <2>1 DEF Places, BlockFits, AllBlocks, argVars
  <2>4. FilesCounted'
    BY <2>1 DEF Places, FilesCounted
  <2>. QED  BY <2>1, <2>2, <2>3, <2>4 DEF Places, InCall, KeyStored, BlockRoom
<1>8. ASSUME NEW lines \in ConfigFiles, ReadFileMissing(lines)
      PROVE  Places'
  BY <1>0, <1>8, QuietPlaces DEF ReadFileMissing, Idle, Return
<1>9. ASSUME NEW lines \in ConfigFiles, ReadFileNoBuffer(lines)
      PROVE  Places'
  <2>1. /\ call = "none" /\ call' = "none" /\ failed' = TRUE /\ UNCHANGED <<argVars, buffer>>
    BY <1>9 DEF ReadFileNoBuffer, Idle, Return
  <2>2. state' # "CAPTURE" /\ block' = NULL /\ buffer' = NULL
    BY <2>1 DEF Places, KeyStored, InCall, TypeOK, argVars
  <2>3. BlockFits'
    BY <2>1 DEF Places, BlockFits, AllBlocks, argVars
  <2>. QED  BY <2>1, <2>2, <2>3 DEF Places, InCall, KeyStored, BlockRoom, FilesCounted
<1>10. ASSUME NEW key \in Keys, NEW n, NEW type, cfg_set_number(type, key, n)
       PROVE  Places'
  BY <1>0, <1>10, QuietPlaces DEF cfg_set_number, Idle, callVars
<1>11. ASSUME NEW key \in Keys, NEW s \in Strings, cfg_set_string(key, s)
       PROVE  Places'
  BY <1>0, <1>11, QuietPlaces DEF cfg_set_string, Idle, callVars
<1>12. ASSUME NEW key \in Keys, NEW type, AccessHalts(type, key)
       PROVE  Places'
  BY <1>12, StillPlaces DEF AccessHalts, Halt
<1>. QED
  BY <1>1, <1>2, <1>3, <1>4, <1>5, <1>6, <1>7, <1>8, <1>9, <1>10, <1>11, <1>12 DEF ClientStep

LEMMA StorePlaces ==
    ASSUME TypeOK, Places, StoreStep
    PROVE  Places'
<1>1. failed => failed'
  BY FailedStays DEF Next
<1>2. CASE StoreOption
  <2>1. PICK ok \in [1..4 -> Grant] : cfg_store(input[next], ok)
    BY <1>2 DEF StoreOption
  <2>2. call = "add_options" /\ call' \in {"add_options", "none"} /\ UNCHANGED <<argVars, fileVars>>
    BY <1>2, <2>1 DEF StoreOption, In, cfg_store, Advance, Return
  <2>. QED  BY <1>1, <2>2, QuietPlaces
<1>3. CASE StoreHalts
  BY <1>3, StillPlaces DEF StoreHalts, Halt
<1>4. CASE AddOptionsReturns
  BY <1>1, <1>4, QuietPlaces DEF AddOptionsReturns, In, Return
<1>. QED  BY <1>2, <1>3, <1>4 DEF StoreStep

(* An argument is taken without being copied. *)
LEMMA TakenPlaces ==
    ASSUME TypeOK, CallState, Places, call = "read_args", More, Advance, failed => failed',
           UNCHANGED <<blocks, block, fileVars>>,
           state' = "CAPTURE" => cfg_type(current_option)' \in Capturing
    PROVE  Places'
<1>1. /\ call' = "read_args" /\ input' = input /\ next' = next + 1 /\ next <= Len(input)
      /\ next \in Nat /\ input \in Seq(Text)
  BY DEF Advance, More, TypeOK
<1>2. block \in Block /\ Len(block.items) \in Nat
  BY DEF CallState, Block
<1>3. BlockRoom'
  BY <1>1, <1>2 DEF Places, BlockRoom
<1>4. BlockFits'
  BY DEF Places, BlockFits, AllBlocks
<1>5. FilesCounted' /\ InCall' /\ KeyStored'
  BY <1>1 DEF Places, FilesCounted, InCall, KeyStored, fileVars
<1>. QED  BY <1>3, <1>4, <1>5 DEF Places

LEMMA FinishPlaces ==
    ASSUME TypeOK, CallState, Places, call = "read_args", NEW r, Finish(r),
           UNCHANGED <<failed, fileVars>>
    PROVE  Places'
<1>1. /\ block' = NULL /\ state' = "NORMAL" /\ call' = "none" /\ UNCHANGED AllBlocks
  BY FinishBlocks DEF Finish, Return
<1>2. BlockFits'
  BY <1>1 DEF Places, BlockFits
<1>. QED  BY <1>1, <1>2 DEF Places, FilesCounted, InCall, KeyStored, BlockRoom, fileVars

LEMMA ArgPlaces ==
    ASSUME TypeOK, CallState, Places, ArgStep
    PROVE  Places'
<1>0. failed => failed'
  BY FailedStays DEF Next
<1>1. call = "read_args" /\ input \in Seq(Text) /\ (More => Arg \in Text)
  <2>1. call = "read_args"
    BY DEF ArgStep, ArgSwitchOff, ArgRefused, ArgSwitchOn, ArgCapture, ArgCopied, ArgValue,
           ArgCrashes, ArgsReturn, Normal, InArgs, In
  <2>. QED  BY <2>1 DEF More, Arg, TypeOK
<1>2. ASSUME ArgSwitchOff \/ ArgSwitchOn
      PROVE  Places'
  <2>1. /\ More /\ Advance /\ state = "NORMAL" /\ UNCHANGED <<argVars, fileVars>>
    BY <1>2 DEF ArgSwitchOff, ArgSwitchOn, Normal, InArgs
  <2>. QED  BY <1>0, <1>1, <2>1, TakenPlaces DEF argVars
<1>3. ASSUME ArgRefused \/ ArgsReturn
      PROVE  Places'
  <2>1. (Finish(TRUE) \/ Finish(FALSE)) /\ UNCHANGED <<failed, fileVars>>
    BY <1>3 DEF ArgRefused, ArgsReturn, heapVars
  <2>. QED  BY <1>1, <2>1, FinishPlaces
<1>4. CASE ArgCapture
  <2>1. /\ More /\ Advance /\ cfg_type(Rest[Arg]) \in Capturing /\ current_option' = Rest[Arg]
        /\ UNCHANGED <<mem, opts, blocks, block, fileVars>>
    BY <1>4 DEF ArgCapture, Normal, InArgs, heapVars
  <2>2. cfg_type(current_option)' = cfg_type(Rest[Arg])
    BY <2>1 DEF cfg_type, cfg_find, StopsAt, Matches
  <2>. QED  BY <1>0, <1>1, <2>1, <2>2, TakenPlaces
<1>5. CASE ArgCopied
  <2>1. /\ More /\ Advance /\ Copy(Arg) /\ Arg \in Text /\ state' = "NORMAL"
        /\ UNCHANGED <<opts, blocks, fileVars>>
    BY <1>1, <1>5 DEF ArgCopied, Normal, InArgs
  <2>2. /\ call' = "read_args" /\ input' = input /\ next' = next + 1 /\ next <= Len(input)
        /\ next \in Nat /\ Len(input) \in Nat
    BY <1>1, <2>1 DEF Advance, More, TypeOK
  <2>3. /\ block'.size = block.size /\ Len(block'.items) = Len(block.items) + 1
        /\ AllBlocks = Append(blocks, block) /\ AllBlocks' = Append(blocks, block')
    BY <1>1, <2>1, <2>2, CopyMoves DEF fileVars
  <2>4. block \in Block /\ block' \in Block /\ Len(block.items) \in Nat
    BY <1>1, <2>1, CopyType DEF CallState, TypeOK, Block
  <2>5. block.size = Len(input) /\ Len(block.items) < next
    BY <1>1 DEF Places, BlockRoom
  <2>6. BlockRoom'
    BY <2>2, <2>3, <2>4, <2>5 DEF BlockRoom
  <2>7. BlockFits'
    <3>. DEFINE ab == AllBlocks'
    <3>1. \A k \in DOMAIN blocks : Len(blocks[k].items) <= blocks[k].size
      <4>1. blocks \in Seq(Block)
        BY DEF TypeOK
      <4>2. \A k \in DOMAIN blocks : k \in DOMAIN AllBlocks /\ AllBlocks[k] = blocks[k]
        BY <2>3, <2>4, <4>1
      <4>. QED  BY <4>2 DEF Places, BlockFits
    <3>2. blocks \in Seq(Block) /\ ab = Append(blocks, block')
      BY <2>3 DEF TypeOK
    <3>3. \A k \in DOMAIN ab : (k \in DOMAIN blocks /\ ab[k] = blocks[k]) \/ ab[k] = block'
      <4>. HIDE DEF ab
      <4>. QED  BY <2>4, <3>2
    <3>4. Len(block'.items) <= block'.size
      BY <2>2, <2>3, <2>4, <2>5
    <3>. QED  BY <3>1, <3>3, <3>4 DEF BlockFits
  <2>8. FilesCounted' /\ InCall' /\ KeyStored'
    BY <1>0, <1>1, <2>1, <2>2 DEF Places, FilesCounted, InCall, KeyStored, fileVars
  <2>. QED  BY <2>6, <2>7, <2>8 DEF Places
<1>6. CASE ArgValue
  <2>1. /\ More /\ Advance /\ state' = "NORMAL" /\ UNCHANGED <<blocks, block, fileVars>>
    BY <1>6 DEF ArgValue, InArgs
  <2>. QED  BY <1>0, <1>1, <2>1, TakenPlaces
<1>7. CASE ArgCrashes
  BY <1>7, StillPlaces DEF ArgCrashes, Halt
<1>. QED  BY <1>2, <1>3, <1>4, <1>5, <1>6, <1>7 DEF ArgStep

LEMMA LinePlaces ==
    ASSUME TypeOK, CallState, Places, LineStep
    PROVE  Places'
<1>0. failed => failed'
  BY FailedStays DEF Next
<1>1. call = "read_file" /\ state # "CAPTURE" /\ block = NULL
  <2>1. call = "read_file"
    BY DEF LineStep, LineSwitch, LineValue, LineSkipped, LineRefused, LineHalts, LineCrashes,
           FileReturns, At, In
  <2>. QED  BY <2>1 DEF Places, KeyStored, InCall, TypeOK
<1>2. ASSUME LineSwitch \/ LineValue \/ LineSkipped
      PROVE  Places'
  <2>1. call' = "read_file" /\ UNCHANGED <<argVars, fileVars>>
    BY <1>1, <1>2 DEF LineSwitch, LineValue, LineSkipped, Advance
  <2>2. BlockFits'
    BY <2>1 DEF Places, BlockFits, AllBlocks, argVars
  <2>. QED  BY <1>0, <1>1, <2>1, <2>2
            DEF Places, InCall, KeyStored, BlockRoom, FilesCounted, argVars, fileVars
<1>3. ASSUME LineRefused \/ FileReturns
      PROVE  Places'
  <2>1. /\ call' = "none" /\ buffer' = NULL /\ files' = files - 1 /\ UNCHANGED <<failed, argVars>>
    BY <1>3 DEF LineRefused, FileReturns, Close, Return
  <2>2. BlockFits'
    BY <2>1 DEF Places, BlockFits, AllBlocks, argVars
  <2>3. FilesCounted'
    BY <1>1, <2>1 DEF Places, FilesCounted
  <2>. QED  BY <1>1, <2>1, <2>2, <2>3 DEF Places, InCall, KeyStored, BlockRoom, argVars
<1>4. CASE LineHalts \/ LineCrashes
  BY <1>4, StillPlaces DEF LineHalts, LineCrashes, Halt
<1>. QED  BY <1>2, <1>3, <1>4 DEF LineStep

LEMMA PlacesStep ==
    ASSUME TypeOK, CallState, Locals, Places, [Next]_vars
    PROVE  Places'
<1>1. CASE UNCHANGED vars
  BY <1>1, StillPlaces DEF vars
<1>. QED  BY <1>1, ClientPlaces, StorePlaces, ArgPlaces, LinePlaces DEF Next

-----------------------------------------------------------------------------
(* Lives of the library. *)
Still == UNCHANGED <<heapVars, opts, argVars, fileVars, callVars, lifeVars>>

LEMMA LifeSteps ==
    ASSUME Locals, [Next]_vars
    PROVE  cfg_init \/ cfg_exit \/ Still \/ (initialized /\ UNCHANGED lifeVars)
<1>1. CASE UNCHANGED vars
  BY <1>1 DEF vars, Still
<1>2. CASE ClientStep
  BY <1>2 DEF ClientStep, cfg_init, cfg_exit, ExitCrashes, LifeHalts, AddOptions, ReadArgs, ReadArgsHalts,
         ReadFile, ReadFileMissing, ReadFileNoBuffer, cfg_set_number, cfg_set_string, AccessHalts,
         Idle, Halt, Still
<1>3. CASE StoreStep
  BY <1>3 DEF Locals, StoreStep, StoreOption, StoreHalts, AddOptionsReturns, In
              , Halt, Still
<1>4. CASE ArgStep
  BY <1>4 DEF Locals, ArgStep, ArgSwitchOff, ArgRefused, ArgSwitchOn, ArgCapture, ArgCopied, ArgValue,
              ArgCrashes, ArgsReturn, Normal, InArgs, In, Halt, Still
<1>5. CASE LineStep
  BY <1>5 DEF Locals, LineStep, LineSwitch, LineValue, LineSkipped, LineRefused, LineHalts, LineCrashes,
              FileReturns, At, In, Halt, Still
<1>. QED  BY <1>1, <1>2, <1>3, <1>4, <1>5 DEF Next

LEMMA ExitDisposes ==
    ASSUME TypeOK, cfg_exit
    PROVE  \A i \in DOMAIN opts' : opts'[i].name = NULL
<1>1. DOMAIN opts' = DOMAIN opts /\ \A i \in DOMAIN opts : opts'[i] = Disposed(opts[i])
  BY DEF cfg_exit
<1>2. \A slot \in Slot : Disposed(slot).name = NULL
  BY DEF Disposed, Slot
<1>3. \A i \in DOMAIN opts : opts[i] \in Slot
  BY DEF TypeOK
<1>. QED  BY <1>1, <1>2, <1>3

LEMMA LocalsStep ==
    ASSUME TypeOK, CallState, Locals, Places, [Next]_vars
    PROVE  Locals'
<1>1. InCall'
  BY PlacesStep DEF Places
<1>2. CASE cfg_init
  BY <1>1, <1>2 DEF cfg_init, Locals, InCall, TypeOK
<1>3. CASE cfg_exit
  <2>1. /\ initialized /\ call' = "none" /\ blocks' = <<>> /\ initialized' = FALSE /\ lives' = lives
    BY <1>3 DEF cfg_exit, Idle, callVars
  <2>2. lives > 0 /\ lives' # 0
    BY <2>1 DEF Locals, TypeOK
  <2>. QED  BY <1>1, <1>3, <2>1, <2>2, ExitDisposes DEF Locals, InCall
<1>4. CASE Still
  BY <1>1, <1>4 DEF Still, Locals, InCall, heapVars, argVars, fileVars, callVars, lifeVars
<1>5. CASE initialized /\ UNCHANGED lifeVars
  BY <1>1, <1>5 DEF Locals, InCall, lifeVars
<1>. QED  BY <1>2, <1>3, <1>4, <1>5, LifeSteps

(* A name once there stays, and a slot without one tells of a failure or   *)
(* of an earlier life.                                                     *)
LEMMA NamesLiveStep ==
    ASSUME TypeOK, TypeOK', CallState, Naming, Locals, NamesLive, [Next]_vars
    PROVE  NamesLive'
<1>1. (failed => failed') /\ lives \in Nat /\ lives' \in Nat
  BY FailedStays DEF TypeOK
<1>2. CASE cfg_exit
  BY <1>2, ExitDisposes DEF NamesLive, cfg_exit
<1>3. (lives > 1 => lives' > 1) /\ (~initialized /\ initialized' => cfg_init)
      /\ (cfg_init => lives' = lives + 1)
  <2>1. CASE cfg_init
    BY <1>1, <2>1 DEF cfg_init
  <2>2. CASE cfg_exit
    BY <2>2 DEF cfg_exit, cfg_init, Idle
  <2>3. CASE Still \/ (initialized /\ UNCHANGED lifeVars)
    BY <2>3 DEF Still, lifeVars, cfg_init
  <2>. QED  BY <2>1, <2>2, <2>3, LifeSteps
<1>4. CASE KeepsNames /\ Len(opts') = Len(opts)
  <2>1. /\ DOMAIN opts = 1..Len(opts) /\ DOMAIN opts' = 1..Len(opts)
        /\ DOMAIN mem = 1..Len(mem) /\ DOMAIN mem' = 1..Len(mem')
        /\ Len(mem) \in Nat /\ Len(mem') \in Nat
    BY <1>4 DEF TypeOK
  <2>2. /\ Len(mem) <= Len(mem')
        /\ \A i \in 1..Len(opts) : /\ opts'[i].name = opts[i].name
                                   /\ opts[i].name # NULL => mem'[opts[i].name] = mem[opts[i].name]
    BY <1>4 DEF KeepsNames
  <2>. SUFFICES ASSUME NEW i \in 1..Len(opts)
                PROVE  /\ opts'[i].name # NULL => Live(mem', opts'[i].name)
                       /\ opts'[i].name = NULL => failed' \/ lives' > 1 \/ ~initialized'
    BY <2>1 DEF NamesLive
  <2>3. opts[i].name # NULL => Live(mem, opts[i].name)
    BY <2>1 DEF NamesLive
  <2>4. opts'[i].name # NULL => Live(mem', opts'[i].name)
    BY <2>1, <2>2, <2>3 DEF Live
  <2>5. ASSUME opts'[i].name = NULL, initialized' PROVE failed' \/ lives' > 1
    <3>1. CASE initialized
      BY <1>1, <1>3, <2>1, <2>2, <2>5, <3>1 DEF NamesLive
    <3>2. CASE ~initialized
      <4>1. lives # 0
        BY <2>1, <3>2 DEF Locals
      <4>. QED  BY <1>1, <1>3, <2>5, <3>2, <4>1
    <3>. QED  BY <3>1, <3>2
  <2>. QED  BY <2>4, <2>5
<1>5. CASE StoreOption
  <2>1. PICK slot \in Slot : /\ opts' = Append(opts, slot)
                             /\ slot.name = NULL => failed'
                             /\ slot.name # NULL => Live(mem', slot.name)
    BY <1>5, StoreMoves
  <2>2. /\ \A a \in 1..Len(mem) : mem'[a] = mem[a]
        /\ Len(mem) <= Len(mem') /\ UNCHANGED lifeVars
    BY <1>5, StoreMoves DEF StoreOption
  <2>3. /\ opts \in Seq(Slot) /\ mem \in Seq(Content) /\ mem' \in Seq(Content)
    BY DEF TypeOK
  <2>4. \A i \in DOMAIN opts' : (i \in DOMAIN opts /\ opts'[i] = opts[i]) \/ opts'[i] = slot
    BY <2>1, <2>3
  <2>5. \A ptr : Live(mem, ptr) => Live(mem', ptr)
    BY <2>2, <2>3 DEF Live
  <2>. SUFFICES ASSUME NEW i \in DOMAIN opts'
                PROVE  /\ opts'[i].name # NULL => Live(mem', opts'[i].name)
                       /\ opts'[i].name = NULL => failed' \/ lives' > 1 \/ ~initialized'
    BY DEF NamesLive
  <2>6. CASE i \in DOMAIN opts /\ opts'[i] = opts[i]
    BY <1>1, <2>2, <2>5, <2>6 DEF NamesLive, lifeVars
  <2>7. CASE opts'[i] = slot
    BY <2>1, <2>7
  <2>. QED  BY <2>4, <2>6, <2>7
<1>. QED  BY <1>2, <1>4, <1>5, StepKeeps
-----------------------------------------------------------------------------
(* Each pointer is held once, in every life that starts with no slot left. *)
LEMMA NothingHeld ==
    ASSUME opts' = <<>>, AllBlocks' = <<>>, buffer' = NULL
    PROVE  Intact'
<1>1. ASSUME NEW h \in Holders(<<>>, <<>>)
      PROVE  Target(h, <<>>, <<>>, NULL) = NULL
  <2>1. h = <<"buffer", 1, 0>>
    BY HolderCases
  <2>. QED  BY <2>1, TargetFacts
<1>2. Sound(mem', <<>>, <<>>, NULL)
  BY <1>1 DEF Sound
<1>. QED  BY <1>2 DEF Intact

LEMMA InitIntact ==
    ASSUME TypeOK, Locals, cfg_init, AllNamed' \/ lives' = 1
    PROVE  Intact'
<1>1. call = "none" /\ ~initialized /\ lives' = lives + 1 /\ lives \in Nat
      /\ UNCHANGED <<opts, blocks, block, buffer>>
  BY DEF cfg_init, TypeOK, argVars, fileVars
<1>2. blocks = <<>> /\ block = NULL /\ buffer = NULL
  BY <1>1 DEF Locals
<1>3. opts = <<>>
  <2>1. CASE lives' = 1
    BY <1>1, <2>1 DEF Locals
  <2>2. CASE AllNamed'
    <3>1. \A i \in DOMAIN opts : FALSE
      BY <1>1, <2>2 DEF Locals, AllNamed
    <3>2. opts \in Seq(Slot) /\ DOMAIN opts = 1..Len(opts) /\ Len(opts) \in Nat
      BY DEF TypeOK
    <3>3. Len(opts) = 0
      BY <3>1, <3>2
    <3>. QED  BY <3>2, <3>3
  <2>. QED  BY <2>1, <2>2
<1>4. AllBlocks' = <<>>
  BY <1>1, <1>2 DEF AllBlocks
<1>. QED  BY <1>1, <1>2, <1>3, <1>4, NothingHeld

LEMMA StillNamed ==
    ASSUME TypeOK, TypeOK', Naming, [Next]_vars, ~cfg_exit, AllNamed'
    PROVE  AllNamed
<1>1. CASE KeepsNames /\ Len(opts') = Len(opts)
  <2>1. DOMAIN opts = 1..Len(opts) /\ DOMAIN opts' = 1..Len(opts)
    BY <1>1 DEF TypeOK
  <2>. QED  BY <1>1, <2>1 DEF AllNamed, KeepsNames
<1>2. CASE StoreOption
  <2>1. PICK slot \in Slot : opts' = Append(opts, slot)
    BY <1>2, StoreMoves
  <2>2. \A i \in DOMAIN opts : i \in DOMAIN opts' /\ opts'[i] = opts[i]
    BY <2>1 DEF TypeOK
  <2>. QED  BY <2>2 DEF AllNamed
<1>. QED  BY <1>1, <1>2, StepKeeps

LEMMA OwnedOnceStep ==
    ASSUME TypeOK, TypeOK', CallState, Naming, Locals, KeyStored, OwnedOnce, [Next]_vars
    PROVE  OwnedOnce'
<1>. SUFFICES ASSUME Kept(AllNamed)'
              PROVE  Intact'
  BY OwnedOnceSound
<1>1. initialized' /\ (lives' = 1 \/ AllNamed')
  BY DEF Kept
<1>2. CASE cfg_init
  BY <1>1, <1>2, InitIntact
<1>3. CASE cfg_exit
  BY <1>1, <1>3 DEF cfg_exit
<1>4. CASE ~cfg_exit /\ (Still \/ (initialized /\ UNCHANGED lifeVars))
  <2>1. initialized /\ (lives = 1 \/ AllNamed)
    BY <1>1, <1>4, StillNamed DEF Still, lifeVars
  <2>2. Intact
    BY <2>1, OwnedOnceSound DEF Kept
  <2>. QED  BY <1>4, <2>2, StepMoves DEF MovesAt, Outcome, Intact
<1>. QED  BY <1>2, <1>3, <1>4, LifeSteps
-----------------------------------------------------------------------------
(* Undefined behaviour. *)
Unchanged == UNCHANGED <<heapVars, opts, argVars, fileVars, callVars, lifeVars>>
LookingUp == Unchanged /\ (initialized \/ call # "none")

(* A dead program takes no step, and it dies of undefined behaviour in a   *)
(* lookup or in cfg_exit.                                                  *)
LEMMA DeathCauses ==
    ASSUME Next
    PROVE  /\ fault = "none"
           /\ fault' = "undefined" => ExitCrashes \/ (LookingUp /\ \E key : Crashes(key))
<1>. DEFINE Died == fault' = "undefined" => ExitCrashes \/ (LookingUp /\ \E key : Crashes(key))
<1>1. ASSUME ClientStep PROVE fault = "none" /\ Died
  <2>1. CASE cfg_init \/ cfg_exit
    BY <2>1 DEF cfg_init, cfg_exit, Idle
  <2>2. CASE ExitCrashes \/ LifeHalts
    BY <2>2 DEF ExitCrashes, LifeHalts, Idle, Halt
  <2>3. ASSUME NEW list, AddOptions(list) PROVE fault = "none" /\ Died
    BY <2>3 DEF AddOptions, Idle
  <2>4. ASSUME NEW argv, ReadArgs(argv) \/ ReadArgsHalts(argv) PROVE fault = "none" /\ Died
    BY <2>4 DEF ReadArgs, ReadArgsHalts, Idle, Halt
  <2>5. ASSUME NEW lines, ReadFile(lines) \/ ReadFileMissing(lines) \/ ReadFileNoBuffer(lines)
        PROVE  fault = "none" /\ Died
    BY <2>5 DEF ReadFile, ReadFileMissing, ReadFileNoBuffer, Idle
  <2>6. ASSUME NEW type, NEW key, NEW n, cfg_set_number(type, key, n) PROVE fault = "none" /\ Died
    BY <2>6 DEF cfg_set_number, Idle
  <2>7. ASSUME NEW key, NEW s, cfg_set_string(key, s) PROVE fault = "none" /\ Died
    BY <2>7 DEF cfg_set_string, Idle
  <2>8. ASSUME NEW type, NEW key, AccessHalts(type, key) PROVE fault = "none" /\ Died
    BY <2>8 DEF AccessHalts, Idle, Halt, LookingUp, Unchanged
  <2>. HIDE DEF Died
  <2>. QED  BY <1>1, <2>1, <2>2, <2>3, <2>4, <2>5, <2>6, <2>7, <2>8 DEF ClientStep
<1>2. ASSUME StoreStep PROVE fault = "none" /\ Died
  <2>1. CASE StoreOption \/ AddOptionsReturns
    BY <2>1 DEF StoreOption, AddOptionsReturns, In
  <2>2. CASE StoreHalts
    BY <2>2 DEF StoreHalts, In, Halt, LookingUp, Unchanged
  <2>. QED  BY <1>2, <2>1, <2>2 DEF StoreStep
<1>3. ASSUME ArgStep PROVE fault = "none" /\ Died
  <2>1. CASE ArgCrashes
    BY <2>1 DEF ArgCrashes, InArgs, In, Halt, LookingUp, Unchanged
  <2>. QED  BY <1>3, <2>1 DEF ArgStep, ArgSwitchOff, ArgRefused, ArgSwitchOn, ArgCapture,
                ArgCopied, ArgValue, ArgsReturn, Normal, InArgs, In
<1>4. ASSUME LineStep PROVE fault = "none" /\ Died
  <2>1. CASE LineCrashes
    BY <2>1 DEF LineCrashes, At, In, Known, Halt, LookingUp, Unchanged
  <2>. QED  BY <1>4, <2>1 DEF LineStep, LineSwitch, LineValue, LineSkipped, LineRefused,
                LineHalts, FileReturns, At, In, Halt
<1>. QED  BY <1>1, <1>2, <1>3, <1>4 DEF Next

LEMMA NothingUndefinedStep ==
    ASSUME TypeOK, Locals, NamesLive, OwnedOnce, NothingUndefined, [Next]_vars
    PROVE  NothingUndefined'
<1>1. CASE UNCHANGED vars
  BY <1>1 DEF NothingUndefined, vars, heapVars, lifeVars
<1>2. CASE Next /\ fault' = "undefined"
  <2>1. CASE ExitCrashes
    <3>1. initialized /\ Unchanged /\ \E ptr \in Owned : ~Live(mem, ptr)
      BY <2>1 DEF ExitCrashes, Idle, Halt, LookingUp, Unchanged
    <3>2. lives # 1 /\ lives > 0 /\ lives \in Nat /\ \E i \in DOMAIN opts : opts[i].name = NULL
      BY <3>1 DEF OwnedOnce, Locals, TypeOK
    <3>. QED  BY <3>1, <3>2 DEF NothingUndefined, Unchanged, lifeVars
  <2>2. CASE LookingUp /\ \E key : Crashes(key)
    <3>1. PICK key : Crashes(key)
      BY <2>2
    <3>. DEFINE i == cfg_find(key)
    <3>2. i \in DOMAIN opts /\ ~Live(mem, opts[i].name)
      BY <3>1, FindType DEF Crashes, TypeOK
    <3>3. opts[i].name = NULL
      BY <3>2 DEF NamesLive
    <3>. HIDE DEF i
    <3>4. failed \/ lives > 1
      <4>1. CASE initialized
        BY <3>2, <3>3, <4>1 DEF NamesLive
      <4>2. CASE ~initialized
        BY <2>2, <4>2 DEF LookingUp, Locals
      <4>. QED  BY <4>1, <4>2
    <3>. QED  BY <2>2, <3>2, <3>3, <3>4 DEF NothingUndefined, LookingUp, Unchanged, heapVars, lifeVars
  <2>. QED  BY <1>2, <2>1, <2>2, DeathCauses
<1>3. CASE Next /\ fault' # "undefined"
  BY <1>3 DEF NothingUndefined
<1>. QED  BY <1>1, <1>2, <1>3
-----------------------------------------------------------------------------
(* The invariant, and what follows from it. *)
LEMMA InitMemory == Init => MemoryInvariant
<1>. SUFFICES ASSUME Init PROVE MemoryInvariant
  OBVIOUS
<1>1. /\ opts = <<>> /\ blocks = <<>> /\ block = NULL /\ buffer = NULL /\ files = 0
      /\ state = "NORMAL" /\ call = "none" /\ ~initialized /\ lives = 0 /\ fault = "none"
  BY DEF Init
<1>2. AllBlocks = <<>>
  BY <1>1 DEF AllBlocks
<1>3. OwnedOnce
  BY <1>1 DEF OwnedOnce
<1>4. Locals /\ NamesLive /\ KeyStored /\ BlockRoom /\ FilesCounted /\ NothingUndefined
  BY <1>1 DEF Locals, NamesLive, KeyStored, BlockRoom, FilesCounted, NothingUndefined
<1>5. BlockFits
  BY <1>2 DEF BlockFits
<1>. QED  BY <1>3, <1>4, <1>5 DEF MemoryInvariant

LEMMA MemoryStep ==
    ASSUME TypeOK, TypeOK', CallState, Naming, MemoryInvariant, [Next]_vars
    PROVE  MemoryInvariant'
<1>1. Locals /\ NamesLive /\ OwnedOnce /\ NothingUndefined /\ Places
  BY DEF MemoryInvariant, Places, Locals, InCall
<1>2. Places'
  BY <1>1, PlacesStep
<1>3. Locals' /\ NamesLive'
  BY <1>1, LocalsStep, NamesLiveStep
<1>4. OwnedOnce'
  BY <1>1, OwnedOnceStep DEF Places
<1>5. NothingUndefined'
  BY <1>1, NothingUndefinedStep
<1>. QED  BY <1>2, <1>3, <1>4, <1>5 DEF MemoryInvariant, Places

(* What miniconf keeps of its memory in every state: the invariant that    *)
(* the four theorems after this one are parts of.                          *)
THEOREM MemoryHolds == Spec => [](TypeOK /\ CallState /\ Naming /\ MemoryInvariant)
<1>1. Init => TypeOK /\ CallState /\ Naming /\ MemoryInvariant
  BY InitType, InitNaming, InitMemory
<1>2. TypeOK /\ CallState /\ Naming /\ MemoryInvariant /\ [Next]_vars =>
        TypeOK' /\ CallState' /\ Naming' /\ MemoryInvariant'
  BY TypeStep, NamingStep, MemoryStep
<1>. QED  BY <1>1, <1>2, PTL DEF Spec

(* Between cfg_init and cfg_exit every pointer miniconf keeps is null or   *)
(* the address of a block still allocated, and no two of them are equal,   *)
(* so that cfg_exit frees each block once (cfg_dispose_options,            *)
(* cfg_dispose_blocks), unless a slot is left over from an earlier life.   *)
THEOREM OwnedOnceHolds == Spec => []OwnedOnce
<1>1. MemoryInvariant => OwnedOnce
  BY DEF MemoryInvariant
<1>. QED  BY <1>1, MemoryHolds, PTL

(* No argument block holds more pointers than its vector has room for,     *)
(* for argument vectors of any length (cfg_new_block, cfg_read_args).      *)
THEOREM BlockFitsHolds == Spec => []BlockFits
<1>1. MemoryInvariant => BlockFits
  BY DEF MemoryInvariant
<1>. QED  BY <1>1, MemoryHolds, PTL

(* cfg_read_file closes the file it opened, once, by whichever way it      *)
(* leaves its loop, for files of any lines; where malloc refuses its line  *)
(* buffer it returns and leaves the file open (cfg_read_file).             *)
THEOREM FileClosedHolds == Spec => FileClosed
<1>. USE DEF Reading
<1>. DEFINE Balanced == files' - files = Reading(call') - Reading(call)
            Refusal == /\ call = "none" /\ call' = "none" /\ files' = files + 1
                       /\ failed' /\ ~result' /\ UNCHANGED mem
<1>1. ASSUME TypeOK, [Next]_vars PROVE [Balanced \/ Refusal]_vars
  <2>1. files \in Nat
    BY <1>1 DEF TypeOK
  <2>2. files' = files /\ Reading(call') = Reading(call) => Balanced
    BY <2>1
  <2>3. CASE UNCHANGED vars
    BY <2>3
  <2>4. ASSUME ClientStep PROVE Balanced \/ Refusal
    <3>1. ASSUME NEW lines, ReadFile(lines) PROVE Balanced
      BY <2>1, <3>1 DEF ReadFile, Idle, Enter
    <3>2. ASSUME NEW lines, ReadFileNoBuffer(lines) PROVE Refusal
      BY <3>2 DEF ReadFileNoBuffer, Idle, Return
    <3>3. ASSUME NEW lines, ReadFileMissing(lines) PROVE Balanced
      BY <2>2, <3>3 DEF ReadFileMissing, Idle, Return, fileVars
    <3>4. ASSUME NEW list, AddOptions(list) PROVE Balanced
      BY <2>2, <3>4 DEF AddOptions, Idle, Enter, fileVars
    <3>5. ASSUME NEW argv, ReadArgs(argv) PROVE Balanced
      BY <2>2, <3>5 DEF ReadArgs, Idle, Enter, fileVars
    <3>6. ASSUME NEW how, Halt(how) PROVE Balanced
      BY <2>2, <3>6 DEF Halt, fileVars, callVars
    <3>7. ASSUME NEW key, NEW n, NEW type, cfg_set_number(type, key, n) PROVE Balanced
      BY <2>2, <3>7 DEF cfg_set_number, fileVars, callVars
    <3>8. ASSUME NEW key, NEW str, cfg_set_string(key, str) PROVE Balanced
      BY <2>2, <3>8 DEF cfg_set_string, fileVars, callVars
    <3>9. cfg_init \/ cfg_exit => Balanced
      BY <2>2 DEF cfg_init, cfg_exit, fileVars, callVars
    <3>10. /\ ExitCrashes \/ LifeHalts => \E how : Halt(how)
           /\ \A argv : ReadArgsHalts(argv) => \E how : Halt(how)
           /\ \A key, type : AccessHalts(type, key) => \E how : Halt(how)
      BY DEF ExitCrashes, LifeHalts, ReadArgsHalts, AccessHalts
    <3>. HIDE DEF Balanced, Refusal
    <3>. QED
      BY <2>4, <3>1, <3>2, <3>3, <3>4, <3>5, <3>6, <3>7, <3>8, <3>9, <3>10 DEF ClientStep
  <2>5. ASSUME StoreStep PROVE Balanced
    BY <2>2, <2>5 DEF StoreStep, StoreOption, StoreHalts, AddOptionsReturns, cfg_store, In, Advance, Return,
                      Halt, fileVars, callVars
  <2>6. ASSUME ArgStep PROVE Balanced
    BY <2>2, <2>6 DEF ArgStep, ArgSwitchOff, ArgRefused, ArgSwitchOn, ArgCapture, ArgCopied, ArgValue, ArgCrashes,
                      ArgsReturn, Normal, InArgs, In, Advance, Finish, Return, Halt, fileVars, callVars
  <2>7. ASSUME LineStep PROVE Balanced
    <3>1. LineSwitch \/ LineValue \/ LineSkipped \/ LineHalts \/ LineCrashes => Balanced
      BY <2>2 DEF LineSwitch, LineValue, LineSkipped, LineHalts, LineCrashes, Advance, Halt, fileVars, callVars
    <3>2. LineRefused \/ FileReturns => Balanced
      BY <2>1 DEF LineRefused, FileReturns, At, In, Close, Return
    <3>. QED  BY <2>7, <3>1, <3>2 DEF LineStep
  <2>. QED  BY <1>1, <2>3, <2>4, <2>5, <2>6, <2>7 DEF Next
<1>2. Spec => []TypeOK
  BY MemoryHolds, PTL
<1>. QED  BY <1>1, <1>2, PTL DEF Spec, FileClosed

(* No lookup compares with a name that is not there and cfg_exit frees no  *)
(* block twice, unless malloc refused a name or the library was started    *)
(* again over options of its last life.                                    *)
THEOREM NothingUndefinedHolds == Spec => []NothingUndefined
<1>1. MemoryInvariant => NothingUndefined
  BY DEF MemoryInvariant
<1>. QED  BY <1>1, MemoryHolds, PTL

LEMMA LeaksStep ==
    ASSUME TypeOK, TypeOK', CallState, MemoryInvariant, [Next]_vars, NEW a \in Stray'
    PROVE  \/ a \in Stray
           \/ call = "read_args" /\ state = "CAPTURE" /\ a = opts[cfg_find(current_option)].str
<1>1. a \in DOMAIN mem' /\ mem'[a] # Freed /\ a \notin Owned' /\ a # NULL
  BY HeapAssumption DEF Stray, TypeOK
<1>2. CASE MovesAt(Lost)
  <2>1. LosesOnly(Lost, mem, opts, AllBlocks, buffer, mem', opts', AllBlocks', buffer')
    BY <1>2 DEF MovesAt, Outcome
  <2>2. \A h \in Holders(opts', AllBlocks') : Target(h, opts', AllBlocks', buffer') # a
    BY <1>1, OwnersHold DEF Owned
  <2>3. \/ a = Lost
        \/ /\ a \in DOMAIN mem /\ mem[a] # Freed
           /\ \A h \in Holders(opts, AllBlocks) : Target(h, opts, AllBlocks, buffer) # a
    BY <1>1, <2>1, <2>2 DEF LosesOnly
  <2>4. (\A h \in Holders(opts, AllBlocks) : Target(h, opts, AllBlocks, buffer) # a) => a \notin Owned
    BY OwnersHold DEF Owned
  <2>. QED  BY <1>1, <2>3, <2>4 DEF Lost, Stray
<1>3. CASE cfg_exit
  <2>1. mem' = cfgFREE(mem, Owned)
    BY <1>3 DEF cfg_exit
  <2>2. a \in DOMAIN mem /\ mem'[a] = IF a \in Owned THEN Freed ELSE mem[a]
    BY <1>1, <2>1 DEF cfgFREE
  <2>. QED  BY <1>1, <2>2 DEF Stray
<1>. QED  BY <1>2, <1>3, StepMoves DEF MemoryInvariant

(* Of all the memory miniconf allocates it loses only the old value of a   *)
(* string option that an argument replaces (cfg_copy_to_option); every     *)
(* other step, cfg_exit included, keeps or frees what was allocated.       *)
THEOREM OnlyCaptureLeaksHolds == Spec => OnlyCaptureLeaks
<1>1. TypeOK /\ TypeOK' /\ CallState /\ MemoryInvariant /\ [Next]_vars =>
        [ Stray' \subseteq Stray \cup
            (IF call = "read_args" /\ state = "CAPTURE"
             THEN {opts[cfg_find(current_option)].str} ELSE {}) ]_vars
  BY LeaksStep
<1>. QED  BY <1>1, MemoryHolds, PTL DEF Spec, OnlyCaptureLeaks

=============================================================================
