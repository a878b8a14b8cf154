--------------------------- MODULE MiniconfProofs ---------------------------
(***************************************************************************)
(* Theorems about Miniconf, for all texts, limits and client inputs.       *)
(***************************************************************************)
EXTENDS CfgProps, WellFoundedInduction, TLAPS

-----------------------------------------------------------------------------
(* The heap. *)

(* A copied string is a fresh block that holds it, or nothing changes and  *)
(* the pointer is null.                                                    *)
LEMMA CopyFacts ==
    ASSUME NEW m \in Seq(Content), NEW s \in Text \cup {NULL}, NEW ok \in BOOLEAN
    PROVE  LET copy == cfg_copy_string(m, s, ok)
           IN  /\ copy.mem \in Seq(Content)
               /\ \/ copy.ptr = NULL /\ copy.mem = m
                  \/ /\ copy.ptr = Len(m) + 1
                     /\ copy.mem = Append(m, s) /\ s \in Text
BY HeapAssumption DEF cfg_copy_string, cfgALLOC, Content

(* n is m with cells added. *)
Extends(m, n) ==
    /\ m \in Seq(Content) /\ n \in Seq(Content) /\ Len(m) <= Len(n)
    /\ \A a \in 1..Len(m) : n[a] = m[a]

LEMMA ExtendsTransitive ==
    ASSUME NEW l, NEW m, NEW n, Extends(l, m), Extends(m, n)
    PROVE  Extends(l, n)
BY DEF Extends

(* The pointer a copy of s from memory m to memory n yields. *)
Fresh(m, n, s, ptr) == ptr # NULL => ptr \in Len(m) + 1 .. Len(n) /\ n[ptr] = s

LEMMA CopyExtends ==
    ASSUME NEW m \in Seq(Content), NEW s \in Text \cup {NULL}, NEW ok \in BOOLEAN
    PROVE  LET copy == cfg_copy_string(m, s, ok)
           IN  Extends(m, copy.mem) /\ Fresh(m, copy.mem, s, copy.ptr)
<1>. DEFINE copy == cfg_copy_string(m, s, ok)
<1>1. /\ copy.mem \in Seq(Content)
      /\ \/ copy.ptr = NULL /\ copy.mem = m
         \/ copy.ptr = Len(m) + 1 /\ copy.mem = Append(m, s) /\ s \in Text
  BY CopyFacts
<1>. SUFFICES Extends(m, copy.mem) /\ Fresh(m, copy.mem, s, copy.ptr)
  OBVIOUS
<1>. HIDE DEF copy
<1>2. CASE copy.ptr = NULL /\ copy.mem = m
  BY <1>2 DEF Extends, Fresh
<1>3. CASE copy.ptr = Len(m) + 1 /\ copy.mem = Append(m, s) /\ s \in Text
  <2>1. s \in Content
    BY <1>3 DEF Content
  <2>2. /\ Len(copy.mem) = Len(m) + 1 /\ copy.mem[Len(m) + 1] = s
        /\ \A a \in 1..Len(m) : copy.mem[a] = m[a]
    BY <1>3, <2>1
  <2>. QED  BY <1>1, <1>3, <2>2 DEF Extends, Fresh
<1>. QED  BY <1>1, <1>2, <1>3

(* free() leaves a heap of the same size, with the given blocks freed. *)
LEMMA FreeFacts ==
    ASSUME NEW m \in Seq(Content), NEW ptrs
    PROVE  LET n == cfgFREE(m, ptrs)
           IN  /\ n \in Seq(Content) /\ Len(n) = Len(m)
               /\ \A a \in 1..Len(m) : n[a] = IF a \in ptrs THEN Freed ELSE m[a]
BY DEF cfgFREE, Content

LEMMA GrantType == ASSUME NEW ok \in Grant PROVE ok \in BOOLEAN
BY DEF Grant

(* A non-empty set of naturals has a least element. *)
LEMMA MinFacts ==
    ASSUME NEW S \in SUBSET Nat, S # {}
    PROVE  Min(S) \in S /\ \A x \in S : Min(S) <= x
<1>. DEFINE Less == {p \in Nat \X Nat : p[1] < p[2]}
<1>1. IsWellFoundedOn(Less, Nat)
  BY NatLessThanWellFounded DEF OpToRel
<1>2. \E x \in S : \A y \in S : ~(<<y, x>> \in Less)
  <2>. HIDE DEF Less
  <2>. QED  BY <1>1, WFMin
<1>3. PICK x \in S : \A y \in S : ~(<<y, x>> \in Less)
  BY <1>2
<1>4. ASSUME NEW y \in S PROVE x =< y
  <2>1. ~(y < x)
    BY <1>3, <<y, x>> \in Nat \X Nat
  <2>. QED  BY <2>1
<1>. QED
  BY <1>4 DEF Min

-----------------------------------------------------------------------------
(* The assignments. *)

LEMMA SetNumberFacts ==
    ASSUME opts \in Seq(Slot), NEW i, NEW n \in Int, SetNumber(i, n)
    PROVE  /\ opts' \in Seq(Slot) /\ Len(opts') = Len(opts)
           /\ \A j \in 1..Len(opts) :
                 /\ opts'[j].name = opts[j].name /\ opts'[j].abbrev = opts[j].abbrev
                 /\ opts'[j].str = opts[j].str
           /\ UNCHANGED <<mem, failed>>
<1>. DEFINE new == [opts[i] EXCEPT !.num = n, !.input = TRUE]
<1>1. opts' = [j \in DOMAIN opts |-> IF j = i THEN new ELSE opts[j]]
  BY DEF SetNumber
<1>2. \A j \in DOMAIN opts : opts[j] \in Slot
  OBVIOUS
<1>3. i \in DOMAIN opts => new \in Slot
  BY <1>2 DEF Slot
<1>4. opts' \in Seq(Slot) /\ Len(opts') = Len(opts)
  <2>. HIDE DEF new
  <2>. QED  BY <1>1, <1>2, <1>3
<1>5. \A j \in 1..Len(opts) :
        /\ opts'[j].name = opts[j].name /\ opts'[j].abbrev = opts[j].abbrev
        /\ opts'[j].str = opts[j].str
  BY <1>1, <1>2 DEF Slot
<1>. QED  BY <1>4, <1>5 DEF SetNumber, heapVars

LEMMA SetStringFacts ==
    ASSUME opts \in Seq(Slot), failed \in BOOLEAN,
           NEW m \in Seq(Content), NEW i, NEW s \in Text \cup {NULL}, NEW ok \in BOOLEAN,
           SetString(m, i, s, ok)
    PROVE  /\ Extends(m, mem')
           /\ opts' \in Seq(Slot) /\ Len(opts') = Len(opts)
           /\ \A j \in 1..Len(opts) :
                 /\ opts'[j].name = opts[j].name /\ opts'[j].abbrev = opts[j].abbrev
                 /\ \/ opts'[j].str \in {opts[j].str, NULL}
                    \/ opts'[j].str = Len(m) + 1 /\ Len(mem') = Len(m) + 1
           /\ failed' \in BOOLEAN
<1>. DEFINE copy == cfg_copy_string(m, s, ok)
<1>1. /\ copy.mem \in Seq(Content)
      /\ \/ copy.ptr = NULL /\ copy.mem = m
         \/ copy.ptr = Len(m) + 1 /\ copy.mem = Append(m, s) /\ s \in Text
  BY CopyFacts
<1>2. /\ mem' = copy.mem
      /\ opts' = [opts EXCEPT ![i].str = copy.ptr, ![i].input = TRUE]
      /\ failed' = (failed \/ Refused(s, copy))
  BY DEF SetString
<1>8. Extends(m, copy.mem)
  BY CopyExtends
<1>3. copy.ptr \in Ptr
  BY <1>1 DEF Ptr
<1>. HIDE DEF copy
<1>. DEFINE new == [opts[i] EXCEPT !.str = copy.ptr, !.input = TRUE]
<1>a. opts' = [j \in DOMAIN opts |-> IF j = i THEN new ELSE opts[j]]
  BY <1>2
<1>b. \A j \in DOMAIN opts : opts[j] \in Slot
  OBVIOUS
<1>c. i \in DOMAIN opts => new \in Slot
  BY <1>b, <1>3 DEF Slot
<1>4. opts' \in Seq(Slot) /\ Len(opts') = Len(opts)
  <2>. HIDE DEF new
  <2>. QED  BY <1>a, <1>b, <1>c
<1>5. ASSUME NEW j \in 1..Len(opts)
      PROVE  /\ opts'[j].name = opts[j].name /\ opts'[j].abbrev = opts[j].abbrev
             /\ opts'[j].str \in {opts[j].str, copy.ptr}
  BY <1>a, <1>b DEF Slot
<1>6. failed' \in BOOLEAN
  BY <1>2 DEF Refused
<1>7. copy.ptr # NULL => Len(mem') = Len(m) + 1 /\ copy.ptr = Len(m) + 1
  BY <1>1, <1>2
<1>. QED  BY <1>1, <1>2, <1>4, <1>5, <1>6, <1>7, <1>8

LEMMA ReplaceStringType ==
    ASSUME mem \in Seq(Content), opts \in Seq(Slot), failed \in BOOLEAN,
           NEW i, NEW s \in Text \cup {NULL}, ReplaceString(i, s)
    PROVE  mem' \in Seq(Content) /\ opts' \in Seq(Slot) /\ failed' \in BOOLEAN
<1>. DEFINE freed == cfgFREE(mem, {opts[i].str})
<1>1. PICK ok \in Grant : SetString(freed, i, s, ok)
  BY DEF ReplaceString
<1>2. freed \in Seq(Content) /\ ok \in BOOLEAN
  BY FreeFacts, GrantType
<1>. HIDE DEF freed
<1>. QED  BY <1>1, <1>2, SetStringFacts DEF Extends

(* The conversions yield numbers: an option that is no string is given one. *)
LEMMA NumberType == ASSUME NEW type, NEW s \in Text PROVE Number(type, s) \in Int
BY DataAssumption DEF Number

(* cfg_find returns 0 or the first option where its scan stops. *)
LEMMA FindFacts ==
    ASSUME opts \in Seq(Slot), NEW key
    PROVE  \/ cfg_find(key) = 0 /\ \A j \in 1..Len(opts) : ~StopsAt(j, key)
           \/ /\ cfg_find(key) \in 1..Len(opts) /\ StopsAt(cfg_find(key), key)
              /\ \A j \in 1..(cfg_find(key) - 1) : ~StopsAt(j, key)
<1>. DEFINE hits == {i \in DOMAIN opts : StopsAt(i, key)}
<1>1. hits \in SUBSET Nat /\ hits \subseteq 1..Len(opts)
  OBVIOUS
<1>2. CASE hits = {}
  BY <1>2 DEF cfg_find
<1>3. CASE hits # {}
  <2>1. Min(hits) \in hits /\ \A x \in hits : Min(hits) <= x
    <3>. HIDE DEF hits
    <3>. QED  BY <1>1, <1>3, MinFacts
  <2>2. cfg_find(key) = Min(hits)
    BY <1>3 DEF cfg_find
  <2>3. cfg_find(key) \in 1..Len(opts) /\ StopsAt(cfg_find(key), key)
    BY <2>1, <2>2
  <2>4. ASSUME NEW j \in 1..(cfg_find(key) - 1), StopsAt(j, key) PROVE FALSE
    <3>1. j \in hits
      BY <2>3, <2>4
    <3>2. cfg_find(key) <= j
      <4>. HIDE DEF hits
      <4>. QED  BY <2>1, <2>2, <3>1
    <3>3. j < cfg_find(key)
      BY <2>3
    <3>. QED  BY <2>3, <3>2, <3>3
  <2>. QED  BY <2>3, <2>4
<1>. QED  BY <1>2, <1>3

LEMMA FindType == ASSUME opts \in Seq(Slot), NEW key PROVE cfg_find(key) \in 0..Len(opts)
BY FindFacts

-----------------------------------------------------------------------------
(* Type correctness. *)

(* How a call goes on and how it ends. *)
LEMMA AdvanceType ==
    ASSUME next \in Nat \ {0}, Advance
    PROVE  UNCHANGED <<call, input, result>> /\ next' \in Nat \ {0}
BY DEF Advance

LEMMA ReturnType ==
    ASSUME NEW r \in BOOLEAN, Return(r)
    PROVE  call' = "none" /\ next' \in Nat \ {0} /\ result' \in BOOLEAN
<1>1. 1 \in Nat \ {0}
  OBVIOUS
<1>. QED  BY <1>1 DEF Return

(* Here and below CallState ties the locals of a call to the call.        *)
LEMMA InitType == Init => TypeOK /\ CallState
<1>1. <<>> \in Seq(Content) /\ <<>> \in Seq(Slot) /\ <<>> \in Seq(Block)
  OBVIOUS
<1>2. NULL \in Ptr /\ 0 \in Nat /\ 1 \in Nat \ {0}
  BY DEF Ptr
<1>. QED  BY <1>1, <1>2 DEF Init, TypeOK, CallState

(* The calls and queries of a client. *)
LEMMA ClientStepType ==
    ASSUME TypeOK, CallState, ClientStep
    PROVE  TypeOK' /\ CallState'
<1>. USE DEF TypeOK, CallState
<1>1. CASE cfg_init
  BY <1>1 DEF cfg_init, heapVars, argVars, fileVars
<1>2. CASE cfg_exit
  <2>1. mem' \in Seq(Content)
    BY <1>2, FreeFacts DEF cfg_exit
  <2>2. ASSUME NEW slot \in Slot PROVE Disposed(slot) \in Slot
    <3>1. NULL \in Ptr /\ 0 \in Int
      BY DEF Ptr
    <3>2. \A t \in Slot : [t EXCEPT !.name = NULL] \in Slot
      BY <3>1 DEF Slot
    <3>3. \A t \in Slot : [t EXCEPT !.abbrev = NULL] \in Slot
      BY <3>1 DEF Slot
    <3>4. \A t \in Slot : [t EXCEPT !.str = NULL] \in Slot
      BY <3>1 DEF Slot
    <3>5. \A t \in Slot : [t EXCEPT !.num = 0] \in Slot
      BY <3>1 DEF Slot
    <3>. QED  BY <3>2, <3>3, <3>4, <3>5 DEF Disposed
  <2>3. \A i \in DOMAIN opts : Disposed(opts[i]) \in Slot
    BY <2>2
  <2>4. opts' \in Seq(Slot)
    <3>. HIDE DEF Disposed
    <3>. QED  BY <1>2, <2>3 DEF cfg_exit
  <2>5. blocks' \in Seq(Block)
    BY <1>2 DEF cfg_exit
  <2>. QED  BY <1>2, <2>1, <2>4, <2>5 DEF cfg_exit, fileVars, callVars, Idle
<1>3. CASE ExitCrashes \/ LifeHalts
  BY <1>3 DEF ExitCrashes, LifeHalts, Halt, heapVars, argVars, fileVars, callVars, lifeVars
<1>4. ASSUME NEW list \in OptionLists, AddOptions(list)
      PROVE  TypeOK' /\ CallState'
  BY <1>4, ClientAssumption DEF AddOptions, Enter, heapVars, argVars, fileVars, lifeVars
<1>5. ASSUME NEW argv \in ArgVectors, ReadArgs(argv)
      PROVE  TypeOK' /\ CallState'
  <2>. DEFINE vector == cfgALLOC(mem, Raw, TRUE)
  <2>1. vector.mem \in Seq(Content) /\ vector.ptr \in Nat
    BY DEF cfgALLOC, Content
  <2>2. argv \in Seq(Text) /\ argv[1] \in Text
    BY ClientAssumption
  <2>3. PICK ok \in Grant :
          LET first == cfg_copy_string(vector.mem, argv[1], ok)
          IN  /\ mem' = first.mem
              /\ block' = NewBlock(vector.ptr, Len(argv), first.ptr)
              /\ failed' = (failed \/ Refused(argv[1], first))
    BY <1>5 DEF ReadArgs
  <2>. DEFINE first == cfg_copy_string(vector.mem, argv[1], ok)
  <2>4. first.mem \in Seq(Content) /\ first.ptr \in Ptr
    <3>. HIDE DEF vector
    <3>. QED  BY <2>1, <2>2, CopyFacts, GrantType DEF Ptr
  <2>5. /\ mem' = first.mem /\ block' = NewBlock(vector.ptr, Len(argv), first.ptr)
        /\ failed' = (failed \/ Refused(argv[1], first))
    BY <2>3
  <2>. HIDE DEF vector, first
  <2>6. block' \in Block
    <3>1. <<first.ptr>> \in Seq(Ptr)
      BY <2>4
    <3>. QED  BY <2>1, <2>2, <2>5, <3>1 DEF NewBlock, Block
  <2>7. failed' \in BOOLEAN
    BY <2>5 DEF Refused
  <2>8. call' = "read_args" /\ input' \in Seq(Text) /\ next' \in Nat \ {0}
    BY <1>5, <2>2 DEF ReadArgs, Enter, FirstArg
  <2>9. state' = "NORMAL" /\ current_option' = NULL
    BY <1>5 DEF ReadArgs
  <2>10. UNCHANGED <<opts, blocks, files, buffer, result, initialized, lives, fault>>
    BY <1>5 DEF ReadArgs, Enter, fileVars, lifeVars
  <2>. QED  BY <2>4, <2>5, <2>6, <2>7, <2>8, <2>9, <2>10
<1>6. ASSUME NEW argv \in ArgVectors, ReadArgsHalts(argv)
      PROVE  TypeOK' /\ CallState'
  BY <1>6 DEF ReadArgsHalts, Halt, heapVars, argVars, fileVars, callVars, lifeVars
<1>7. ASSUME NEW lines \in ConfigFiles, ReadFile(lines)
      PROVE  TypeOK' /\ CallState'
  <2>1. mem' \in Seq(Content) /\ buffer' \in Ptr
    BY <1>7 DEF ReadFile, cfgALLOC, Content, Ptr
  <2>2. lines \in Seq(Line)
    BY <1>7, ClientAssumption DEF ReadFile, Opens
  <2>3. files' \in Nat /\ files' > 0
    BY <1>7 DEF ReadFile
  <2>4. call' = "read_file" /\ input' \in Seq(Line) /\ next' = 1 /\ next' \in Nat \ {0}
    BY <1>7, <2>2 DEF ReadFile, Enter
  <2>5. UNCHANGED <<failed, opts, result, blocks, block, state, current_option, initialized, lives, fault>>
    BY <1>7 DEF ReadFile, Enter, argVars, lifeVars
  <2>. QED  BY <2>1, <2>3, <2>4, <2>5
<1>8. ASSUME NEW lines \in ConfigFiles, ReadFileMissing(lines) \/ ReadFileNoBuffer(lines)
      PROVE  TypeOK' /\ CallState'
  <2>1. call' = "none" /\ next' = 1 /\ 1 \in Nat \ {0} /\ result' = FALSE
    BY <1>8 DEF ReadFileMissing, ReadFileNoBuffer, Return
  <2>2. /\ UNCHANGED <<mem, opts, blocks, block, state, current_option, buffer, initialized, lives, fault>>
        /\ failed' \in BOOLEAN /\ files' \in Nat
    <3>1. CASE ReadFileMissing(lines)
      BY <3>1 DEF ReadFileMissing, heapVars, argVars, fileVars, lifeVars
    <3>2. CASE ReadFileNoBuffer(lines)
      BY <3>2 DEF ReadFileNoBuffer, argVars, lifeVars
    <3>. QED  BY <1>8, <3>1, <3>2
  <2>. QED  BY <2>1, <2>2
<1>9. ASSUME NEW key \in Keys, NEW n \in Int, NEW type, cfg_set_number(type, key, n)
      PROVE  TypeOK' /\ CallState'
  <2>1. opts' \in Seq(Slot) /\ UNCHANGED <<mem, failed>>
    BY <1>9, SetNumberFacts DEF cfg_set_number
  <2>. QED  BY <1>9, <2>1 DEF cfg_set_number, argVars, fileVars, callVars, lifeVars
<1>10. ASSUME NEW key \in Keys, NEW s \in Strings, cfg_set_string(key, s)
       PROVE  TypeOK' /\ CallState'
  <2>1. s \in Text \cup {NULL}
    BY ClientAssumption
  <2>2. mem' \in Seq(Content) /\ opts' \in Seq(Slot) /\ failed' \in BOOLEAN
    BY <1>10, <2>1, ReplaceStringType DEF cfg_set_string
  <2>. QED  BY <1>10, <2>2 DEF cfg_set_string, argVars, fileVars, callVars, lifeVars
<1>11. ASSUME NEW key \in Keys, NEW type, AccessHalts(type, key)
       PROVE  TypeOK' /\ CallState'
  BY <1>11 DEF AccessHalts, Halt, heapVars, argVars, fileVars, callVars, lifeVars
<1>. QED
  <2>1. Numbers \subseteq Int /\ 0..1 \subseteq Int
    BY ClientAssumption
  <2>. QED
    BY <2>1, <1>1, <1>2, <1>3, <1>4, <1>5, <1>6, <1>7, <1>8, <1>9, <1>10, <1>11
    DEF ClientStep

-----------------------------------------------------------------------------
(* cfg_store. *)

(* A stored option: its name, if it has one, is a fresh block that holds   *)
(* the name asked for, and no other string of the slot shares the block.   *)
Stored(o, slot) ==
    /\ slot \in Slot
    /\ Extends(mem, mem')
    /\ Fresh(mem, mem', o.name, slot.name)
    /\ slot.abbrev \in {NULL} \cup (Len(mem) + 1 .. Len(mem'))
    /\ slot.str \in {NULL} \cup (Len(mem) + 1 .. Len(mem'))
    /\ slot.name # NULL => slot.str # slot.name

LEMMA StoreFacts ==
    ASSUME mem \in Seq(Content), failed \in BOOLEAN,
           NEW o \in Option, NEW ok \in [1..4 -> Grant], cfg_store(o, ok)
    PROVE  /\ \E slot : Stored(o, slot) /\ opts' = Append(opts, slot)
           /\ failed' \in BOOLEAN
           /\ Advance \/ Return(FALSE)
<1>. DEFINE name   == cfg_copy_string(mem, o.name, ok[1])
            abbrev == cfg_copy_string(name.mem, o.abbrev, ok[2])
            desc   == cfg_copy_string(abbrev.mem, o.desc, ok[3])
            value  == IF o.type = "STRING" THEN o.str ELSE NULL
            str    == cfg_copy_string(desc.mem, value, ok[4])
            slot   == [name |-> name.ptr, abbrev |-> abbrev.ptr, desc |-> desc.ptr,
                       type |-> o.type, num |-> o.num, str |-> str.ptr, input |-> FALSE]
<1>1. /\ mem' = str.mem
      /\ opts' = Append(opts, slot)
      /\ failed' = (\/ failed
                    \/ Refused(o.name, name) \/ Refused(o.abbrev, abbrev)
                    \/ Refused(o.desc, desc) \/ Refused(value, str))
      /\ Advance \/ Return(FALSE)
  BY DEF cfg_store
<1>2. /\ o.name \in Text \cup {NULL} /\ o.abbrev \in Text \cup {NULL}
      /\ o.desc \in Text \cup {NULL} /\ value \in Text \cup {NULL}
      /\ o.type \in ValueType /\ o.num \in Int
  BY DEF Option
<1>3. ok[1] \in BOOLEAN /\ ok[2] \in BOOLEAN /\ ok[3] \in BOOLEAN /\ ok[4] \in BOOLEAN
  BY GrantType
<1>. HIDE DEF value
<1>4. Extends(mem, name.mem) /\ Fresh(mem, name.mem, o.name, name.ptr)
  BY <1>2, <1>3, CopyExtends
<1>. HIDE DEF name
<1>5. Extends(name.mem, abbrev.mem) /\ Fresh(name.mem, abbrev.mem, o.abbrev, abbrev.ptr)
  BY <1>2, <1>3, <1>4, CopyExtends DEF Extends
<1>. HIDE DEF abbrev
<1>6. Extends(abbrev.mem, desc.mem) /\ Fresh(abbrev.mem, desc.mem, o.desc, desc.ptr)
  <2>1. abbrev.mem \in Seq(Content)
    BY <1>5 DEF Extends
  <2>. QED  BY <1>2, <1>3, <2>1, CopyExtends
<1>. HIDE DEF desc
<1>7. Extends(desc.mem, str.mem) /\ Fresh(desc.mem, str.mem, value, str.ptr)
  <2>1. desc.mem \in Seq(Content)
    BY <1>6 DEF Extends
  <2>. QED  BY <1>2, <1>3, <2>1, CopyExtends
<1>. HIDE DEF str
<1>8. Extends(mem, abbrev.mem) /\ Extends(abbrev.mem, str.mem) /\ Extends(mem, str.mem)
  BY <1>4, <1>5, <1>6, <1>7, ExtendsTransitive
<1>9. /\ Fresh(mem, str.mem, o.name, name.ptr)
      /\ abbrev.ptr \in {NULL} \cup (Len(mem) + 1 .. Len(str.mem))
      /\ desc.ptr \in {NULL} \cup (Len(mem) + 1 .. Len(str.mem))
      /\ str.ptr \in {NULL} \cup (Len(mem) + 1 .. Len(str.mem))
      /\ name.ptr # NULL => str.ptr # name.ptr
  <2>1. Extends(name.mem, str.mem) /\ Extends(desc.mem, str.mem) /\ Extends(name.mem, desc.mem)
    BY <1>5, <1>6, <1>7, <1>8, ExtendsTransitive
  <2>2. Fresh(mem, str.mem, o.name, name.ptr)
    BY <1>4, <2>1 DEF Extends, Fresh
  <2>. /\ Len(mem) <= Len(name.mem) /\ Len(name.mem) <= Len(desc.mem)
       /\ Len(mem) <= Len(abbrev.mem) /\ Len(abbrev.mem) <= Len(str.mem)
       /\ Len(desc.mem) <= Len(str.mem)
       /\ Len(mem) \in Nat /\ Len(name.mem) \in Nat /\ Len(abbrev.mem) \in Nat
       /\ Len(desc.mem) \in Nat /\ Len(str.mem) \in Nat
    BY <1>4, <1>8, <2>1 DEF Extends
  <2>3. abbrev.ptr \in {NULL} \cup (Len(mem) + 1 .. Len(str.mem))
    BY <1>5 DEF Fresh
  <2>4. desc.ptr \in {NULL} \cup (Len(mem) + 1 .. Len(str.mem))
    BY <1>6 DEF Fresh
  <2>5. str.ptr \in {NULL} \cup (Len(mem) + 1 .. Len(str.mem))
    BY <1>7 DEF Fresh
  <2>6. name.ptr # NULL => str.ptr # name.ptr
    BY <1>4, <1>7, HeapAssumption DEF Fresh
  <2>. QED  BY <2>2, <2>3, <2>4, <2>5, <2>6
<1>10. slot \in Slot
  <2>1. /\ name.ptr \in Ptr /\ abbrev.ptr \in Ptr /\ desc.ptr \in Ptr /\ str.ptr \in Ptr
    BY <1>8, <1>9 DEF Extends, Fresh, Ptr
  <2>. QED  BY <1>2, <2>1 DEF Slot
<1>11. Stored(o, slot)
  BY <1>1, <1>8, <1>9, <1>10 DEF Stored
<1>12. failed' \in BOOLEAN
  BY <1>1 DEF Refused
<1>. QED
  <2>. HIDE DEF slot
  <2>. QED  BY <1>1, <1>11, <1>12

LEMMA StoreStepType ==
    ASSUME TypeOK, CallState, StoreStep
    PROVE  TypeOK' /\ CallState'
<1>. USE DEF TypeOK, CallState
<1>1. CASE StoreOption
  <2>1. In("add_options") /\ More /\ UNCHANGED <<argVars, fileVars, lifeVars, fault>>
    BY <1>1 DEF StoreOption
  <2>2. input[next] \in Option
    BY <2>1 DEF In, More
  <2>3. PICK ok \in [1..4 -> Grant] : cfg_store(input[next], ok)
    BY <1>1 DEF StoreOption
  <2>4. PICK slot : Stored(input[next], slot) /\ opts' = Append(opts, slot)
    BY <2>2, <2>3, StoreFacts
  <2>5. failed' \in BOOLEAN /\ (Advance \/ Return(FALSE))
    BY <2>2, <2>3, StoreFacts
  <2>6. mem' \in Seq(Content) /\ opts' \in Seq(Slot)
    BY <2>4 DEF Stored, Extends
  <2>7. /\ call' \in {"add_options", "none"} /\ result' \in BOOLEAN
        /\ call' = "add_options" => input' \in Seq(Option)
        /\ next' \in Nat \ {0}
    BY <2>1, <2>5, AdvanceType, ReturnType DEF In
  <2>8. UNCHANGED <<blocks, block, state, current_option, files, buffer, initialized, lives, fault>>
    BY <2>1 DEF argVars, fileVars, lifeVars
  <2>. QED  BY <2>5, <2>6, <2>7, <2>8
<1>2. CASE StoreHalts
  BY <1>2 DEF StoreHalts, Halt, heapVars, argVars, fileVars, callVars, lifeVars
<1>3. CASE AddOptionsReturns
  BY <1>3 DEF AddOptionsReturns, Return, heapVars, argVars, fileVars, lifeVars
<1>. QED  BY <1>1, <1>2, <1>3 DEF StoreStep

(* The steps of cfg_read_args and of cfg_read_file. *)
LEMMA CopyType ==
    ASSUME mem \in Seq(Content), failed \in BOOLEAN, block \in Block, NEW s \in Text, Copy(s)
    PROVE  /\ Extends(mem, mem') /\ block' \in Block /\ failed' \in BOOLEAN
<1>1. PICK ok \in Grant :
        LET copy == cfg_copy_string(mem, s, ok)
        IN  /\ mem' = copy.mem
            /\ block' = [block EXCEPT !.items = Append(@, copy.ptr)]
            /\ failed' = (failed \/ Refused(s, copy))
  BY DEF Copy
<1>. DEFINE copy == cfg_copy_string(mem, s, ok)
<1>2. Extends(mem, copy.mem) /\ Fresh(mem, copy.mem, s, copy.ptr)
  BY CopyExtends, GrantType
<1>3. mem' = copy.mem /\ block' = [block EXCEPT !.items = Append(@, copy.ptr)]
      /\ failed' = (failed \/ Refused(s, copy))
  BY <1>1
<1>. HIDE DEF copy
<1>4. copy.ptr \in Ptr
  BY <1>2 DEF Extends, Fresh, Ptr
<1>5. Append(block.items, copy.ptr) \in Seq(Ptr)
  BY <1>4 DEF Block
<1>6. block' \in Block
  BY <1>3, <1>5 DEF Block
<1>. QED  BY <1>2, <1>3, <1>6 DEF Refused

LEMMA FinishType ==
    ASSUME blocks \in Seq(Block), block \in Block, NEW r \in BOOLEAN, Finish(r)
    PROVE  /\ blocks' \in Seq(Block) /\ block' = NULL
           /\ state' = "NORMAL" /\ current_option' = NULL
           /\ call' = "none" /\ next' \in Nat \ {0} /\ result' \in BOOLEAN
BY ReturnType DEF Finish

LEMMA AssignType ==
    ASSUME mem \in Seq(Content), opts \in Seq(Slot), failed \in BOOLEAN,
           NEW i \in 0..Len(opts), NEW s \in Text, Assign(i, s)
    PROVE  mem' \in Seq(Content) /\ opts' \in Seq(Slot) /\ failed' \in BOOLEAN
<1>1. CASE opts[i].type = "STRING"
  <2>1. PICK ok \in Grant : SetString(mem, i, s, ok)
    BY <1>1 DEF Assign
  <2>. QED  BY <2>1, GrantType, SetStringFacts DEF Extends
<1>2. CASE opts[i].type # "STRING"
  <2>1. SetNumber(i, Number(opts[i].type, s))
    BY <1>2 DEF Assign
  <2>. QED  BY <2>1, NumberType, SetNumberFacts
<1>. QED  BY <1>1, <1>2

LEMMA ArgStepType ==
    ASSUME TypeOK, CallState, ArgStep
    PROVE  TypeOK' /\ CallState'
<1>. USE DEF TypeOK, CallState
<1>1. /\ fault = "none" /\ call = "read_args" /\ input \in Seq(Text) /\ block \in Block
      /\ More => Arg \in Text
  <2>1. fault = "none" /\ call = "read_args"
    BY DEF ArgStep, ArgSwitchOff, ArgRefused, ArgSwitchOn, ArgCapture, ArgCopied, ArgValue,
           ArgCrashes, ArgsReturn, Normal, InArgs, In
  <2>. QED  BY <2>1 DEF More, Arg
<1>2. ASSUME ArgSwitchOff \/ ArgSwitchOn
      PROVE  TypeOK' /\ CallState'
  <2>1. opts' \in Seq(Slot) /\ UNCHANGED <<mem, failed>>
    BY <1>2, SetNumberFacts DEF ArgSwitchOff, ArgSwitchOn
  <2>2. UNCHANGED <<call, input, result>> /\ next' \in Nat \ {0}
    BY <1>2, AdvanceType DEF ArgSwitchOff, ArgSwitchOn
  <2>3. UNCHANGED <<argVars, fileVars, lifeVars, fault>>
    BY <1>2 DEF ArgSwitchOff, ArgSwitchOn
  <2>. QED  BY <2>1, <2>2, <2>3 DEF argVars, fileVars, lifeVars
<1>3. ASSUME ArgRefused \/ ArgsReturn
      PROVE  TypeOK' /\ CallState'
  <2>1. Finish(TRUE) \/ Finish(FALSE)
    BY <1>3 DEF ArgRefused, ArgsReturn
  <2>2. UNCHANGED <<heapVars, opts, fileVars, lifeVars, fault>>
    BY <1>3 DEF ArgRefused, ArgsReturn
  <2>3. /\ blocks' \in Seq(Block) /\ block' = NULL
        /\ state' = "NORMAL" /\ current_option' = NULL
        /\ call' = "none" /\ next' \in Nat \ {0} /\ result' \in BOOLEAN
    BY <1>1, <2>1, FinishType
  <2>. QED  BY <2>2, <2>3 DEF heapVars, fileVars, lifeVars
<1>4. CASE ArgCapture
  <2>1. Rest[Arg] \in Text
    BY <1>1, <1>4, DataAssumption DEF ArgCapture, Normal, InArgs
  <2>2. UNCHANGED <<call, input, result>> /\ next' \in Nat \ {0}
    BY <1>4, AdvanceType DEF ArgCapture
  <2>. QED  BY <1>4, <2>1, <2>2 DEF ArgCapture, heapVars, fileVars, lifeVars
<1>5. CASE ArgCopied
  <2>1. More /\ Copy(Arg) /\ Advance
        /\ UNCHANGED <<opts, blocks, state, current_option, fileVars, lifeVars, fault>>
    BY <1>5 DEF ArgCopied, Normal, InArgs
  <2>2. mem' \in Seq(Content) /\ block' \in Block /\ failed' \in BOOLEAN
    BY <1>1, <2>1, CopyType DEF Extends
  <2>3. UNCHANGED <<call, input, result>> /\ next' \in Nat \ {0}
    BY <2>1, AdvanceType
  <2>. QED  BY <2>1, <2>2, <2>3 DEF fileVars, lifeVars
<1>6. CASE ArgValue
  <2>1. /\ More /\ Assign(cfg_find(current_option), Arg) /\ Advance
        /\ state' = "NORMAL" /\ current_option' = NULL
        /\ UNCHANGED <<blocks, block, fileVars, lifeVars, fault>>
    BY <1>6 DEF ArgValue, InArgs
  <2>2. mem' \in Seq(Content) /\ opts' \in Seq(Slot) /\ failed' \in BOOLEAN
    BY <1>1, <2>1, FindType, AssignType
  <2>3. UNCHANGED <<call, input, result>> /\ next' \in Nat \ {0}
    BY <2>1, AdvanceType
  <2>. QED  BY <2>1, <2>2, <2>3 DEF fileVars, lifeVars
<1>7. CASE ArgCrashes
  BY <1>7 DEF ArgCrashes, Halt, heapVars, argVars, fileVars, callVars, lifeVars
<1>. QED  BY <1>2, <1>3, <1>4, <1>5, <1>6, <1>7 DEF ArgStep

LEMMA CloseType ==
    ASSUME mem \in Seq(Content), files \in Nat, files > 0, NEW r \in BOOLEAN, Close(r)
    PROVE  /\ mem' \in Seq(Content) /\ files' \in Nat /\ buffer' \in Ptr
           /\ call' = "none" /\ next' \in Nat \ {0} /\ result' \in BOOLEAN
<1>1. mem' \in Seq(Content)
  BY FreeFacts DEF Close
<1>2. NULL \in Ptr
  BY DEF Ptr
<1>. QED  BY <1>1, <1>2, ReturnType DEF Close

LEMMA LineStepType ==
    ASSUME TypeOK, CallState, LineStep
    PROVE  TypeOK' /\ CallState'
<1>. USE DEF TypeOK, CallState
<1>1. /\ fault = "none" /\ call = "read_file" /\ input \in Seq(Line) /\ files > 0
      /\ More => TheLine.key \in Text /\ TheLine.value \in Text
  <2>1. fault = "none" /\ call = "read_file"
    BY DEF LineStep, LineSwitch, LineValue, LineSkipped, LineRefused, LineHalts, LineCrashes,
           FileReturns, At, In
  <2>2. More => TheLine \in Line
    BY <2>1 DEF More, TheLine
  <2>. QED  BY <2>1, <2>2 DEF Line
<1>2. CASE LineSwitch
  <2>1. opts' \in Seq(Slot) /\ UNCHANGED <<mem, failed>>
    BY <1>2, SetNumberFacts DEF LineSwitch
  <2>2. UNCHANGED <<call, input, result>> /\ next' \in Nat \ {0}
    BY <1>2, AdvanceType DEF LineSwitch
  <2>. QED  BY <1>2, <2>1, <2>2 DEF LineSwitch, argVars, fileVars, lifeVars
<1>3. CASE LineValue
  <2>. DEFINE i == cfg_find(TheLine.key)
  <2>1. More /\ Advance /\ UNCHANGED <<argVars, fileVars, lifeVars, fault>>
    BY <1>3 DEF LineValue, At
  <2>2. \/ ReplaceString(i, TheLine.value)
        \/ SetNumber(i, Number(opts[i].type, TheLine.value))
    BY <1>3 DEF LineValue
  <2>3. mem' \in Seq(Content) /\ opts' \in Seq(Slot) /\ failed' \in BOOLEAN
    <3>. HIDE DEF i
    <3>1. TheLine.value \in Text
      BY <1>1, <2>1
    <3>2. CASE ReplaceString(i, TheLine.value)
      BY <3>1, <3>2, ReplaceStringType
    <3>3. CASE SetNumber(i, Number(opts[i].type, TheLine.value))
      BY <3>1, <3>3, NumberType, SetNumberFacts
    <3>. QED  BY <2>2, <3>2, <3>3
  <2>4. UNCHANGED <<call, input, result>> /\ next' \in Nat \ {0}
    BY <2>1, AdvanceType
  <2>. QED  BY <2>1, <2>3, <2>4 DEF argVars, fileVars, lifeVars
<1>4. CASE LineSkipped
  <2>1. UNCHANGED <<call, input, result>> /\ next' \in Nat \ {0}
    BY <1>4, AdvanceType DEF LineSkipped
  <2>. QED  BY <1>4, <2>1 DEF LineSkipped, heapVars, argVars, fileVars, lifeVars
<1>5. ASSUME LineRefused \/ FileReturns
      PROVE  TypeOK' /\ CallState'
  <2>1. Close(TRUE) \/ Close(FALSE)
    BY <1>5 DEF LineRefused, FileReturns
  <2>2. UNCHANGED <<failed, opts, argVars, lifeVars, fault>>
    BY <1>5 DEF LineRefused, FileReturns
  <2>3. /\ mem' \in Seq(Content) /\ files' \in Nat /\ buffer' \in Ptr
        /\ call' = "none" /\ next' \in Nat \ {0} /\ result' \in BOOLEAN
    BY <1>1, <2>1, CloseType
  <2>. QED  BY <2>2, <2>3 DEF argVars, lifeVars
<1>6. CASE LineHalts \/ LineCrashes
  BY <1>6 DEF LineHalts, LineCrashes, Halt, heapVars, argVars, fileVars, callVars, lifeVars
<1>. QED  BY <1>2, <1>3, <1>4, <1>5, <1>6 DEF LineStep

LEMMA TypeStep == TypeOK /\ CallState /\ [Next]_vars => TypeOK' /\ CallState'
<1>1. TypeOK /\ CallState /\ UNCHANGED vars => TypeOK' /\ CallState'
  BY DEF TypeOK, CallState, vars, heapVars, argVars, fileVars, callVars, lifeVars
<1>. QED  BY <1>1, ClientStepType, StoreStepType, ArgStepType, LineStepType DEF Next

(* Every variable keeps its type, for all texts, limits and client inputs. *)
THEOREM TypeCorrect == Spec => []TypeOK
BY InitType, TypeStep, PTL DEF Spec

-----------------------------------------------------------------------------
(* Lookup by name.  What a step does to the names that are stored: cells   *)
(* are added to the heap and some are freed, none that holds a name; a     *)
(* string value or a line buffer that is new lies in an added cell.        *)
Added == Len(mem) + 1 .. Len(mem')

KeepsNames ==
    /\ Len(mem) <= Len(mem')
    /\ \A a \in 1..Len(mem) : mem'[a] \in {mem[a], Freed}
    /\ \A i \in 1..Len(opts) :
          /\ opts'[i].name = opts[i].name /\ opts'[i].abbrev = opts[i].abbrev
          /\ opts'[i].str \in {opts[i].str, NULL} \cup Added
          /\ opts[i].name # NULL => mem'[opts[i].name] = mem[opts[i].name]
    /\ call' = "read_file" => (call = "read_file" /\ buffer' = buffer) \/ buffer' \in Added

Naming == InRange /\ NamesAlone /\ NamesApart

(* A key that no stored option answers to finds none afterwards either. *)
LEMMA StillApart ==
    ASSUME TypeOK, TypeOK', InRange, KeepsNames, Len(opts) <= Len(opts'),
           NEW j \in 1..Len(opts), NEW key, ~StopsAt(j, key)
    PROVE  ~StopsAt(j, key)'
<1>. DEFINE name == opts[j].name  abbrev == opts[j].abbrev
<1>1. /\ name \in 1..Len(mem) /\ mem[name] # Freed /\ mem[name] # key
      /\ ~(Live(mem, abbrev) /\ mem[abbrev] = key)
  BY DEF StopsAt, Matches, Live, TypeOK
<1>2. opts'[j].name = name /\ opts'[j].abbrev = abbrev /\ Len(mem) <= Len(mem')
      /\ \A a \in 1..Len(mem) : mem'[a] \in {mem[a], Freed}
  BY DEF KeepsNames
<1>3. mem'[name] = mem[name]
  BY <1>1, HeapAssumption DEF KeepsNames
<1>4. abbrev \in 1..Len(mem) \cup {NULL}
  BY DEF InRange, TypeOK
<1>5. DOMAIN mem' = 1..Len(mem') /\ DOMAIN mem = 1..Len(mem)
  BY DEF TypeOK
<1>6. Live(mem', name)
  BY <1>1, <1>2, <1>3, <1>5 DEF Live, TypeOK
<1>7. ~(Live(mem', abbrev) /\ mem'[abbrev] = key)
  BY <1>1, <1>2, <1>4, <1>5, HeapAssumption DEF Live, TypeOK
<1>. QED
  <2>. HIDE DEF name, abbrev
  <2>. QED  BY <1>1, <1>2, <1>3, <1>6, <1>7 DEF StopsAt, Matches

(* A step that keeps the names and stores no option keeps them apart. *)
LEMMA NamingKept ==
    ASSUME TypeOK, TypeOK', Naming, KeepsNames, Len(opts') = Len(opts)
    PROVE  Naming'
<1>1. /\ DOMAIN opts = 1..Len(opts) /\ DOMAIN opts' = 1..Len(opts)
      /\ DOMAIN mem = 1..Len(mem) /\ DOMAIN mem' = 1..Len(mem')
      /\ Len(mem) \in Nat /\ Len(mem') \in Nat /\ Len(opts) \in Nat
  BY DEF TypeOK
<1>2. /\ Len(mem) <= Len(mem')
      /\ \A a \in 1..Len(mem) : mem'[a] \in {mem[a], Freed}
      /\ call' = "read_file" => (call = "read_file" /\ buffer' = buffer) \/ buffer' \in Added
      /\ \A i \in 1..Len(opts) :
            /\ opts'[i].name = opts[i].name /\ opts'[i].abbrev = opts[i].abbrev
            /\ opts'[i].str \in {opts[i].str, NULL} \cup Added
            /\ opts[i].name # NULL => mem'[opts[i].name] = mem[opts[i].name]
  BY DEF KeepsNames
<1>3. \A i \in 1..Len(opts) :
        /\ opts[i].name \in 1..Len(mem) \cup {NULL}
        /\ opts[i].abbrev \in 1..Len(mem) \cup {NULL}
        /\ opts[i].str \in 1..Len(mem) \cup {NULL}
  BY <1>1 DEF Naming, InRange
<1>4. \A i \in 1..Len(opts) : opts[i].name # NULL =>
        /\ \A j \in 1..Len(opts) : opts[j].str # opts[i].name
        /\ call = "read_file" => buffer # opts[i].name
  BY <1>1 DEF Naming, NamesAlone
<1>5. InRange'
  <2>. SUFFICES ASSUME NEW i \in 1..Len(opts)
                PROVE  /\ opts'[i].name \in 1..Len(mem') \cup {NULL}
                       /\ opts'[i].abbrev \in 1..Len(mem') \cup {NULL}
                       /\ opts'[i].str \in 1..Len(mem') \cup {NULL}
    BY <1>1 DEF InRange
  <2>. QED  BY <1>1, <1>2, <1>3 DEF Added
<1>6. NamesAlone'
  <2>. SUFFICES ASSUME NEW i \in 1..Len(opts), opts'[i].name # NULL
                PROVE  /\ \A j \in 1..Len(opts) : opts'[j].str # opts'[i].name
                       /\ call' = "read_file" => buffer' # opts'[i].name
    BY <1>1 DEF NamesAlone
  <2>1. opts'[i].name = opts[i].name /\ opts[i].name \in 1..Len(mem)
    BY <1>2, <1>3
  <2>2. opts'[i].name \notin Added
    BY <1>1, <2>1 DEF Added
  <2>. QED  BY <1>2, <1>4, <2>1, <2>2
<1>7. NamesApart'
  <2>. SUFFICES ASSUME NEW i \in 1..Len(opts), Live(mem, opts[i].name)',
                       NEW key, key = mem'[opts'[i].name], NEW j \in 1..(i - 1)
                PROVE  ~StopsAt(j, key)'
    BY <1>1 DEF NamesApart
  <2>1. opts'[i].name = opts[i].name /\ opts[i].name \in 1..Len(mem)
    BY <1>1, <1>2, <1>3, HeapAssumption DEF Live
  <2>2. key = mem[opts[i].name] /\ mem[opts[i].name] # Freed
    BY <1>1, <1>2, <2>1, HeapAssumption DEF Live
  <2>3. j \in 1..Len(opts) /\ i \in DOMAIN opts /\ Live(mem, opts[i].name)
    BY <1>1, <2>1, <2>2 DEF Live
  <2>4. ~StopsAt(j, key)
    BY <2>2, <2>3 DEF Naming, NamesApart
  <2>. QED  BY <2>3, <2>4, StillApart DEF Naming
<1>. QED  BY <1>5, <1>6, <1>7 DEF Naming

(* The ways the actions change the heap and the table, one lemma each. *)
SameBuffer == call' = "read_file" => call = "read_file" /\ buffer' = buffer

LEMMA GrownKeeps ==
    ASSUME TypeOK, InRange, Extends(mem, mem'), UNCHANGED opts, SameBuffer \/ buffer' \in Added
    PROVE  KeepsNames /\ Len(opts') = Len(opts)
<1>1. \A i \in 1..Len(opts) : opts[i].name # NULL => opts[i].name \in 1..Len(mem)
  BY DEF TypeOK, InRange
<1>2. Len(mem) <= Len(mem') /\ \A a \in 1..Len(mem) : mem'[a] = mem[a]
  BY DEF Extends
<1>. QED  BY <1>1, <1>2 DEF TypeOK, KeepsNames, SameBuffer

LEMMA UnmovedKeeps ==
    ASSUME TypeOK, UNCHANGED <<mem, opts>>, SameBuffer
    PROVE  KeepsNames /\ Len(opts') = Len(opts)
BY DEF TypeOK, KeepsNames, SameBuffer

LEMMA NumberKeeps ==
    ASSUME TypeOK, NEW i, NEW n \in Int, SetNumber(i, n), SameBuffer
    PROVE  KeepsNames /\ Len(opts') = Len(opts)
<1>1. /\ Len(opts') = Len(opts) /\ mem' = mem
      /\ \A j \in 1..Len(opts) :
            /\ opts'[j].name = opts[j].name /\ opts'[j].abbrev = opts[j].abbrev
            /\ opts'[j].str = opts[j].str
  BY SetNumberFacts DEF TypeOK
<1>. QED  BY <1>1 DEF TypeOK, KeepsNames, SameBuffer

(* A string set in a heap m that is mem with cells freed, none of a name. *)
LEMMA StringKeeps ==
    ASSUME TypeOK, InRange, SameBuffer,
           NEW m \in Seq(Content), Len(m) = Len(mem),
           \A a \in 1..Len(mem) : m[a] \in {mem[a], Freed},
           \A j \in 1..Len(opts) : opts[j].name # NULL => m[opts[j].name] = mem[opts[j].name],
           NEW i, NEW s \in Text \cup {NULL}, NEW ok \in BOOLEAN, SetString(m, i, s, ok)
    PROVE  KeepsNames /\ Len(opts') = Len(opts)
<1>1. /\ Extends(m, mem')
      /\ Len(opts') = Len(opts)
      /\ \A j \in 1..Len(opts) :
            /\ opts'[j].name = opts[j].name /\ opts'[j].abbrev = opts[j].abbrev
            /\ \/ opts'[j].str \in {opts[j].str, NULL}
               \/ opts'[j].str = Len(m) + 1 /\ Len(mem') = Len(m) + 1
  <2>1. opts \in Seq(Slot) /\ failed \in BOOLEAN
    BY DEF TypeOK
  <2>. QED  BY <2>1, SetStringFacts
<1>2. Len(mem) <= Len(mem') /\ Len(mem) \in Nat /\ \A a \in 1..Len(mem) : mem'[a] = m[a]
  BY <1>1 DEF TypeOK, Extends
<1>3. \A j \in 1..Len(opts) : opts[j].name # NULL => opts[j].name \in 1..Len(mem)
  BY DEF InRange, TypeOK
<1>4. \A j \in 1..Len(opts) : opts'[j].str \in {opts[j].str, NULL} \cup Added
  BY <1>1, <1>2 DEF Added
<1>. QED  BY <1>1, <1>2, <1>3, <1>4 DEF KeepsNames, SameBuffer

(* cells of no name are freed *)
LEMMA FreeKeeps ==
    ASSUME TypeOK, Naming, NEW a,
           \A j \in 1..Len(opts) : opts[j].name # NULL => opts[j].name # a
    PROVE  LET m == cfgFREE(mem, {a})
           IN  /\ m \in Seq(Content) /\ Len(m) = Len(mem)
               /\ \A b \in 1..Len(mem) : m[b] \in {mem[b], Freed}
               /\ \A j \in 1..Len(opts) :
                     opts[j].name # NULL => m[opts[j].name] = mem[opts[j].name]
<1>. DEFINE m == cfgFREE(mem, {a})
<1>1. /\ m \in Seq(Content) /\ Len(m) = Len(mem)
      /\ \A b \in 1..Len(mem) : m[b] = IF b \in {a} THEN Freed ELSE mem[b]
  BY FreeFacts DEF TypeOK
<1>2. \A j \in 1..Len(opts) : opts[j].name # NULL => opts[j].name \in 1..Len(mem)
  BY DEF Naming, InRange, TypeOK
<1>. HIDE DEF m
<1>3. /\ \A b \in 1..Len(mem) : m[b] \in {mem[b], Freed}
      /\ \A j \in 1..Len(opts) : opts[j].name # NULL => m[opts[j].name] = mem[opts[j].name]
  BY <1>1, <1>2
<1>. QED  BY <1>1, <1>3 DEF m

LEMMA ReplaceKeeps ==
    ASSUME TypeOK, Naming, SameBuffer,
           NEW i \in 1..Len(opts), NEW s \in Text \cup {NULL}, ReplaceString(i, s)
    PROVE  KeepsNames /\ Len(opts') = Len(opts)
<1>. DEFINE m == cfgFREE(mem, {opts[i].str})
<1>1. PICK ok \in Grant : SetString(m, i, s, ok)
  BY DEF ReplaceString
<1>2. \A j \in 1..Len(opts) : opts[j].name # NULL => opts[j].name # opts[i].str
  BY DEF Naming, NamesAlone, TypeOK
<1>3. /\ m \in Seq(Content) /\ Len(m) = Len(mem)
      /\ \A b \in 1..Len(mem) : m[b] \in {mem[b], Freed}
      /\ \A j \in 1..Len(opts) : opts[j].name # NULL => m[opts[j].name] = mem[opts[j].name]
  BY <1>2, FreeKeeps
<1>. HIDE DEF m
<1>. QED  BY <1>1, <1>3, GrantType, StringKeeps DEF Naming

LEMMA AssignKeeps ==
    ASSUME TypeOK, Naming, SameBuffer, NEW i, NEW s \in Text, Assign(i, s)
    PROVE  KeepsNames /\ Len(opts') = Len(opts)
<1>1. CASE opts[i].type = "STRING"
  <2>1. PICK ok \in Grant : SetString(mem, i, s, ok)
    BY <1>1 DEF Assign
  <2>2. \A a \in 1..Len(mem) : mem[a] \in {mem[a], Freed}
    OBVIOUS
  <2>3. mem \in Seq(Content) /\ InRange
    BY DEF TypeOK, Naming
  <2>. QED  BY <2>1, <2>2, <2>3, GrantType, StringKeeps
<1>2. CASE opts[i].type # "STRING"
  <2>1. SetNumber(i, Number(opts[i].type, s))
    BY <1>2 DEF Assign
  <2>. QED  BY <2>1, NumberType, NumberKeeps
<1>. QED  BY <1>1, <1>2

LEMMA CloseKeeps ==
    ASSUME TypeOK, Naming, call = "read_file", NEW r, Close(r), UNCHANGED opts
    PROVE  KeepsNames /\ Len(opts') = Len(opts)
<1>. DEFINE m == cfgFREE(mem, {buffer})
<1>1. mem' = m /\ call' = "none"
  BY DEF Close, Return
<1>2. \A j \in 1..Len(opts) : opts[j].name # NULL => opts[j].name # buffer
  BY DEF Naming, NamesAlone, TypeOK
<1>3. /\ Len(m) = Len(mem)
      /\ \A b \in 1..Len(mem) : m[b] \in {mem[b], Freed}
      /\ \A j \in 1..Len(opts) : opts[j].name # NULL => m[opts[j].name] = mem[opts[j].name]
  BY <1>2, FreeKeeps
<1>. HIDE DEF m
<1>. QED  BY <1>1, <1>3 DEF KeepsNames, TypeOK

(* The two actions that do more: a new option gets a name that no earlier  *)
(* one answers to, and cfg_exit takes every name away.                     *)
LEMMA StoreNaming ==
    ASSUME TypeOK, TypeOK', Naming, StoreOption
    PROVE  Naming'
<1>. DEFINE o == input[next]  n == Len(opts)
<1>1. In("add_options") /\ o \in Option /\ cfg_find(o.name) = 0
  BY DEF StoreOption, Storable, In, More, TypeOK
<1>2. PICK ok \in [1..4 -> Grant] : cfg_store(o, ok)
  BY DEF StoreOption
<1>3. mem \in Seq(Content) /\ failed \in BOOLEAN
  BY DEF TypeOK
<1>4. PICK slot : Stored(o, slot) /\ opts' = Append(opts, slot)
  BY <1>1, <1>2, <1>3, StoreFacts
<1>5. call' # "read_file"
  BY <1>1, <1>2, <1>3, StoreFacts DEF In, Advance, Return
<1>. HIDE DEF o
<1>6. /\ DOMAIN opts = 1..n /\ DOMAIN opts' = 1..(n + 1) /\ Len(opts') = n + 1 /\ n \in Nat
      /\ DOMAIN mem = 1..Len(mem) /\ DOMAIN mem' = 1..Len(mem')
      /\ Len(mem) \in Nat /\ Len(mem') \in Nat /\ Len(mem) <= Len(mem')
      /\ \A a \in 1..Len(mem) : mem'[a] = mem[a]
      /\ opts'[n + 1] = slot /\ \A i \in 1..n : opts'[i] = opts[i]
  <2>1. slot \in Slot /\ opts \in Seq(Slot) /\ Extends(mem, mem')
    BY <1>4 DEF Stored, TypeOK
  <2>. QED  BY <1>4, <2>1 DEF Extends
<1>7. /\ slot.name # NULL => slot.name \in Added /\ mem'[slot.name] = o.name
      /\ slot.abbrev \in {NULL} \cup Added /\ slot.str \in {NULL} \cup Added
      /\ slot.name # NULL => slot.str # slot.name
  BY <1>4 DEF Stored, Fresh, Added
<1>8. \A i \in 1..n : /\ opts[i].name \in 1..Len(mem) \cup {NULL}
                      /\ opts[i].abbrev \in 1..Len(mem) \cup {NULL}
                      /\ opts[i].str \in 1..Len(mem) \cup {NULL}
  BY <1>6 DEF Naming, InRange
<1>9. KeepsNames /\ Len(opts) <= Len(opts')
  BY <1>5, <1>6, <1>8 DEF KeepsNames
<1>10. InRange'
  <2>. SUFFICES ASSUME NEW i \in 1..(n + 1)
                PROVE  /\ opts'[i].name \in 1..Len(mem') \cup {NULL}
                       /\ opts'[i].abbrev \in 1..Len(mem') \cup {NULL}
                       /\ opts'[i].str \in 1..Len(mem') \cup {NULL}
    BY <1>6 DEF InRange
  <2>1. CASE i = n + 1
    BY <1>6, <1>7, <2>1 DEF Added
  <2>2. CASE i \in 1..n
    BY <1>6, <1>8, <2>2
  <2>. QED  BY <1>6, <2>1, <2>2
<1>11. NamesAlone'
  <2>. SUFFICES ASSUME NEW i \in 1..(n + 1), opts'[i].name # NULL, NEW j \in 1..(n + 1)
                PROVE  opts'[j].str # opts'[i].name
    BY <1>5, <1>6 DEF NamesAlone
  <2>1. CASE i \in 1..n /\ j \in 1..n
    BY <1>6, <2>1 DEF Naming, NamesAlone
  <2>2. CASE i \in 1..n /\ j = n + 1
    BY <1>6, <1>7, <1>8, <2>2 DEF Added
  <2>3. CASE i = n + 1 /\ j \in 1..n
    BY <1>6, <1>7, <1>8, <2>3 DEF Added
  <2>4. CASE i = n + 1 /\ j = n + 1
    BY <1>6, <1>7, <2>4
  <2>. QED  BY <1>6, <2>1, <2>2, <2>3, <2>4
<1>12. NamesApart'
  <2>. SUFFICES ASSUME NEW i \in 1..(n + 1), Live(mem, opts[i].name)',
                       NEW key, key = mem'[opts'[i].name], NEW j \in 1..(i - 1)
                PROVE  ~StopsAt(j, key)'
    BY <1>6 DEF NamesApart
  <2>1. j \in 1..n
    BY <1>6
  <2>2. CASE i \in 1..n
    <3>1. opts'[i].name = opts[i].name /\ opts[i].name \in 1..Len(mem)
      BY <1>6, <1>8, <2>2, HeapAssumption DEF Live
    <3>2. key = mem[opts[i].name] /\ mem[opts[i].name] # Freed
      BY <1>6, <3>1 DEF Live
    <3>3. i \in DOMAIN opts /\ Live(mem, opts[i].name)
      BY <1>6, <2>2, <3>1, <3>2 DEF Live
    <3>4. ~StopsAt(j, key)
      BY <3>2, <3>3 DEF Naming, NamesApart
    <3>. QED  BY <1>9, <2>1, <3>4, StillApart DEF Naming
  <2>3. CASE i = n + 1
    <3>1. slot.name # NULL
      BY <1>6, <2>3, HeapAssumption DEF Live
    <3>2. key = o.name
      BY <1>6, <1>7, <2>3, <3>1
    <3>3. ~StopsAt(j, key)
      <4>1. opts \in Seq(Slot)
        BY DEF TypeOK
      <4>. QED  BY <1>1, <2>1, <3>2, <4>1, FindFacts
    <3>. QED  BY <1>9, <2>1, <3>3, StillApart DEF Naming
  <2>. QED  BY <1>6, <2>2, <2>3
<1>. QED  BY <1>10, <1>11, <1>12 DEF Naming

LEMMA ExitNaming ==
    ASSUME TypeOK, TypeOK', cfg_exit
    PROVE  Naming'
<1>1. DOMAIN opts' = DOMAIN opts /\ \A i \in DOMAIN opts : opts'[i] = Disposed(opts[i])
  BY DEF cfg_exit
<1>2. \A slot \in Slot :
        Disposed(slot).name = NULL /\ Disposed(slot).abbrev = NULL /\ Disposed(slot).str = NULL
  BY DEF Disposed, Slot
<1>3. \A i \in DOMAIN opts : opts[i] \in Slot
  BY DEF TypeOK
<1>4. \A i \in DOMAIN opts' :
        opts'[i].name = NULL /\ opts'[i].abbrev = NULL /\ opts'[i].str = NULL
  BY <1>1, <1>2, <1>3
<1>5. DOMAIN mem' \subseteq Nat
  BY DEF TypeOK
<1>. QED  BY <1>4, <1>5, HeapAssumption DEF Naming, InRange, NamesAlone, NamesApart, Live

LEMMA ClientKeeps ==
    ASSUME TypeOK, Naming, ClientStep
    PROVE  (KeepsNames /\ Len(opts') = Len(opts)) \/ cfg_exit
<1>. DEFINE Kept == KeepsNames /\ Len(opts') = Len(opts)
<1>0. InRange
  BY DEF Naming
<1>1. ASSUME cfg_init \/ ExitCrashes \/ LifeHalts
      PROVE  Kept
  <2>1. UNCHANGED <<mem, opts>> /\ SameBuffer
    BY <1>1 DEF cfg_init, ExitCrashes, LifeHalts, Halt, SameBuffer,
                heapVars, fileVars, callVars
  <2>. QED  BY <2>1, UnmovedKeeps
<1>2. ASSUME NEW list \in OptionLists, AddOptions(list)
      PROVE  Kept
  <2>1. UNCHANGED <<mem, opts>> /\ SameBuffer
    BY <1>2 DEF AddOptions, Enter, SameBuffer, heapVars
  <2>. QED  BY <2>1, UnmovedKeeps
<1>3. ASSUME NEW argv \in ArgVectors, ReadArgs(argv)
      PROVE  Kept
  <2>. DEFINE vector == cfgALLOC(mem, Raw, TRUE)
  <2>1. PICK ok \in Grant : mem' = cfg_copy_string(vector.mem, argv[1], ok).mem
    BY <1>3 DEF ReadArgs
  <2>2. Extends(mem, vector.mem)
    BY DEF cfgALLOC, Extends, Content, TypeOK
  <2>3. argv[1] \in Text
    BY ClientAssumption
  <2>. HIDE DEF vector
  <2>4. Extends(vector.mem, mem')
    BY <2>1, <2>2, <2>3, CopyExtends, GrantType DEF Extends
  <2>5. UNCHANGED opts /\ SameBuffer
    BY <1>3 DEF ReadArgs, Enter, SameBuffer
  <2>. QED  BY <1>0, <2>2, <2>4, <2>5, ExtendsTransitive, GrownKeeps
<1>4. ASSUME NEW argv \in ArgVectors, ReadArgsHalts(argv)
      PROVE  Kept
  <2>1. UNCHANGED <<mem, opts>> /\ SameBuffer
    BY <1>4 DEF ReadArgsHalts, Halt, SameBuffer, heapVars, fileVars, callVars
  <2>. QED  BY <2>1, UnmovedKeeps
<1>5. ASSUME NEW lines \in ConfigFiles, ReadFile(lines)
      PROVE  Kept
  <2>1. mem' = Append(mem, Raw) /\ buffer' = Len(mem) + 1 /\ UNCHANGED opts
    BY <1>5 DEF ReadFile, cfgALLOC
  <2>2. Extends(mem, mem') /\ buffer' \in Added
    BY <2>1 DEF Extends, Added, Content, TypeOK
  <2>. QED  BY <1>0, <2>1, <2>2, GrownKeeps
<1>6. ASSUME NEW lines \in ConfigFiles, ReadFileMissing(lines) \/ ReadFileNoBuffer(lines)
      PROVE  Kept
  <2>1. UNCHANGED <<mem, opts>> /\ SameBuffer
    BY <1>6 DEF ReadFileMissing, ReadFileNoBuffer, Return, SameBuffer, heapVars
  <2>. QED  BY <2>1, UnmovedKeeps
<1>7. ASSUME NEW key \in Keys, NEW n \in Int, NEW type, cfg_set_number(type, key, n)
      PROVE  Kept
  <2>1. SetNumber(cfg_find(key), n) /\ SameBuffer
    BY <1>7 DEF cfg_set_number, SameBuffer, fileVars, callVars
  <2>. QED  BY <2>1, NumberKeeps
<1>8. ASSUME NEW key \in Keys, NEW s \in Strings, cfg_set_string(key, s)
      PROVE  Kept
  <2>1. s \in Text \cup {NULL}
    BY ClientAssumption
  <2>2. ReplaceString(cfg_find(key), s) /\ SameBuffer /\ cfg_find(key) # 0
    BY <1>8 DEF cfg_set_string, cfg_type, SameBuffer, fileVars, callVars
  <2>3. cfg_find(key) \in 1..Len(opts)
    BY <2>2, FindType DEF TypeOK
  <2>. QED  BY <2>1, <2>2, <2>3, ReplaceKeeps
<1>9. ASSUME NEW key \in Keys, NEW type, AccessHalts(type, key)
      PROVE  Kept
  <2>1. UNCHANGED <<mem, opts>> /\ SameBuffer
    BY <1>9 DEF AccessHalts, Halt, SameBuffer, heapVars, fileVars, callVars
  <2>. QED  BY <2>1, UnmovedKeeps
<1>10. Kept \/ cfg_exit
  <2>1. Numbers \subseteq Int /\ 0..1 \subseteq Int
    BY ClientAssumption
  <2>. HIDE DEF Kept
  <2>. QED  BY <2>1, <1>1, <1>2, <1>3, <1>4, <1>5, <1>6, <1>7, <1>8, <1>9 DEF ClientStep
<1>. QED  BY <1>10

LEMMA ArgKeeps ==
    ASSUME TypeOK, Naming, ArgStep
    PROVE  KeepsNames /\ Len(opts') = Len(opts)
<1>. DEFINE Kept == KeepsNames /\ Len(opts') = Len(opts)
<1>1. call = "read_args" /\ input \in Seq(Text) /\ (More => Arg \in Text)
  <2>1. call = "read_args"
    BY DEF ArgStep, ArgSwitchOff, ArgRefused, ArgSwitchOn, ArgCapture, ArgCopied, ArgValue,
           ArgCrashes, ArgsReturn, Normal, InArgs, In
  <2>. QED  BY <2>1 DEF More, Arg, TypeOK
<1>2. SameBuffer
  BY <1>1 DEF ArgStep, ArgSwitchOff, ArgRefused, ArgSwitchOn, ArgCapture, ArgCopied, ArgValue,
           ArgCrashes, ArgsReturn, Halt, Finish, Return, Advance, SameBuffer, callVars
<1>3. ASSUME ArgSwitchOff \/ ArgSwitchOn
      PROVE  Kept
  <2>1. SetNumber(cfg_find(Rest[Arg]), 0) \/ SetNumber(cfg_find(Rest[Arg]), 1)
    BY <1>3 DEF ArgSwitchOff, ArgSwitchOn
  <2>. QED  BY <1>2, <2>1, NumberKeeps
<1>4. ASSUME ArgRefused \/ ArgsReturn \/ ArgCapture \/ ArgCrashes
      PROVE  Kept
  <2>1. UNCHANGED <<mem, opts>>
    BY <1>4 DEF ArgRefused, ArgsReturn, ArgCapture, ArgCrashes, Halt, heapVars
  <2>. QED  BY <1>2, <2>1, UnmovedKeeps
<1>5. ASSUME ArgCopied
      PROVE  Kept
  <2>1. Copy(Arg) /\ UNCHANGED opts /\ Arg \in Text
    BY <1>1, <1>5 DEF ArgCopied, Normal, InArgs
  <2>2. PICK ok \in Grant : mem' = cfg_copy_string(mem, Arg, ok).mem
    BY <2>1 DEF Copy
  <2>3. Extends(mem, mem')
    BY <2>1, <2>2, CopyExtends, GrantType DEF TypeOK
  <2>. QED  BY <1>2, <2>1, <2>3, GrownKeeps DEF Naming
<1>6. ASSUME ArgValue
      PROVE  Kept
  <2>1. Assign(cfg_find(current_option), Arg) /\ Arg \in Text
    BY <1>1, <1>6 DEF ArgValue, InArgs
  <2>. QED  BY <1>2, <2>1, AssignKeeps
<1>7. Kept
  <2>. HIDE DEF Kept
  <2>. QED  BY <1>3, <1>4, <1>5, <1>6 DEF ArgStep
<1>. QED  BY <1>7

LEMMA LineKeeps ==
    ASSUME TypeOK, Naming, LineStep
    PROVE  KeepsNames /\ Len(opts') = Len(opts)
<1>. DEFINE Kept == KeepsNames /\ Len(opts') = Len(opts)
<1>1. call = "read_file" /\ input \in Seq(Line) /\ (More => TheLine \in Line)
  <2>1. call = "read_file"
    BY DEF LineStep, LineSwitch, LineValue, LineSkipped, LineRefused, LineHalts, LineCrashes,
           FileReturns, At, In
  <2>. QED  BY <2>1 DEF More, TheLine, TypeOK
<1>2. ASSUME LineSwitch
      PROVE  Kept
  <2>1. /\ SetNumber(cfg_find(TheLine.key), 0) \/ SetNumber(cfg_find(TheLine.key), 1)
        /\ SameBuffer
    BY <1>2 DEF LineSwitch, Advance, SameBuffer, fileVars
  <2>. QED  BY <2>1, NumberKeeps
<1>3. ASSUME LineValue
      PROVE  Kept
  <2>. DEFINE i == cfg_find(TheLine.key)
  <2>1. SameBuffer /\ More /\ i # 0
    BY <1>3 DEF LineValue, Advance, SameBuffer, fileVars, At, cfg_type, Capturing
  <2>2. i \in 1..Len(opts)
    BY <2>1, FindType DEF TypeOK
  <2>3. TheLine.value \in Text
    BY <1>1, <2>1 DEF Line
  <2>4. \/ ReplaceString(i, TheLine.value)
        \/ SetNumber(i, Number(opts[i].type, TheLine.value))
    BY <1>3 DEF LineValue
  <2>. HIDE DEF i
  <2>5. CASE ReplaceString(i, TheLine.value)
    BY <2>1, <2>2, <2>3, <2>5, ReplaceKeeps
  <2>6. CASE SetNumber(i, Number(opts[i].type, TheLine.value))
    BY <2>1, <2>3, <2>6, NumberType, NumberKeeps
  <2>. QED  BY <2>4, <2>5, <2>6
<1>4. ASSUME LineSkipped \/ LineHalts \/ LineCrashes
      PROVE  Kept
  <2>1. UNCHANGED <<mem, opts>> /\ SameBuffer
    BY <1>4 DEF LineSkipped, LineHalts, LineCrashes, Halt, Advance, SameBuffer,
                heapVars, fileVars, callVars
  <2>. QED  BY <2>1, UnmovedKeeps
<1>5. ASSUME LineRefused \/ FileReturns
      PROVE  Kept
  <2>1. (Close(TRUE) \/ Close(FALSE)) /\ UNCHANGED opts
    BY <1>5 DEF LineRefused, FileReturns
  <2>. QED  BY <1>1, <2>1, CloseKeeps
<1>6. Kept
  <2>. HIDE DEF Kept
  <2>. QED  BY <1>2, <1>3, <1>4, <1>5 DEF LineStep
<1>. QED  BY <1>6

(* Every step keeps the names but cfg_exit's, and StoreOption adds one. *)
LEMMA StepKeeps ==
    ASSUME TypeOK, Naming, [Next]_vars
    PROVE  (KeepsNames /\ Len(opts') = Len(opts)) \/ cfg_exit \/ StoreOption
<1>1. CASE UNCHANGED vars
  <2>1. UNCHANGED <<mem, opts>> /\ SameBuffer
    BY <1>1 DEF vars, heapVars, callVars, fileVars, SameBuffer
  <2>. QED  BY <2>1, UnmovedKeeps
<1>2. CASE StoreStep
  <2>1. CASE StoreHalts \/ AddOptionsReturns
    <3>1. UNCHANGED <<mem, opts>> /\ SameBuffer
      BY <2>1 DEF StoreHalts, AddOptionsReturns, Halt, Return, SameBuffer,
                  heapVars, fileVars, callVars
    <3>. QED  BY <3>1, UnmovedKeeps
  <2>. QED  BY <1>2, <2>1 DEF StoreStep
<1>. QED  BY <1>1, <1>2, ClientKeeps, ArgKeeps, LineKeeps DEF Next

LEMMA NamingStep ==
    ASSUME TypeOK, TypeOK', Naming, [Next]_vars
    PROVE  Naming'
BY StepKeeps, NamingKept, StoreNaming, ExitNaming

LEMMA InitNaming == Init => Naming
BY HeapAssumption DEF Init, Naming, InRange, NamesAlone, NamesApart

(* The invariant gives the property: the name of option i stops the scan   *)
(* at i and at no earlier option.                                          *)
LEMMA NamingLookup ==
    ASSUME TypeOK, NamesApart
    PROVE  NameLookup
<1>. SUFFICES ASSUME NEW i \in DOMAIN opts, Live(mem, opts[i].name),
                     NEW key, key = mem[opts[i].name]
              PROVE  cfg_find(key) = i
  BY DEF NameLookup
<1>1. i \in 1..Len(opts) /\ opts \in Seq(Slot)
  BY DEF TypeOK
<1>2. StopsAt(i, key)
  BY DEF StopsAt, Matches
<1>3. \A j \in 1..(i - 1) : ~StopsAt(j, key)
  BY DEF NamesApart
<1>4. CASE cfg_find(key) = 0
  BY <1>1, <1>2, <1>4, FindFacts
<1>5. CASE cfg_find(key) # 0
  <2>1. /\ cfg_find(key) \in 1..Len(opts) /\ StopsAt(cfg_find(key), key)
        /\ \A j \in 1..(cfg_find(key) - 1) : ~StopsAt(j, key)
    BY <1>1, <1>5, FindFacts
  <2>. QED  BY <1>1, <1>2, <1>3, <2>1
<1>. QED  BY <1>4, <1>5

(* Whatever is stored, named, abbreviated, assigned or read, the name of a *)
(* stored option finds that option (cfg_find, cfg_store).                  *)
THEOREM NameLookupHolds == Spec => []NameLookup
<1>1. Init => TypeOK /\ CallState /\ Naming
  BY InitType, InitNaming
<1>2. TypeOK /\ CallState /\ Naming /\ [Next]_vars => TypeOK' /\ CallState' /\ Naming'
  BY TypeStep, NamingStep
<1>3. TypeOK /\ CallState /\ Naming => NameLookup
  BY NamingLookup DEF Naming
<1>. QED  BY <1>1, <1>2, <1>3, PTL DEF Spec

====
