----------------------------- MODULE DepProofs ------------------------------
(***************************************************************************)
(* What holds of the scan for any directories, headers and contents.       *)
(***************************************************************************)
EXTENDS DepProps, TLAPS

(* What the scan of one #include may find is a file it may mean. *)
LEMMA IncFacts ==
    ASSUME TypeOK, Reading
    PROVE  /\ Scanned \in exists /\ line \in DOMAIN includes[Scanned]
           /\ Inc \in Include
           /\ InPath(Inc) \subseteq File /\ Generated(Inc) \in File
           /\ Meant(Inc) = InPath(Inc) \cup {Generated(Inc)}
           /\ Meant(Inc) \subseteq MeantBy(Scanned)
<1>1. Scanned \in exists /\ Scanned \in File
  BY DEF TypeOK, Scanned
<1>2. line \in DOMAIN includes[Scanned]
  BY <1>1 DEF TypeOK, Reading, Scanned
<1>3. Inc \in Include
  BY <1>1, <1>2 DEF TypeOK, Inc
<1>4. InPath(Inc) \subseteq File /\ Generated(Inc) \in File
  BY <1>3 DEF InPath, Generated, File, Include
<1>5. Meant(Inc) \subseteq MeantBy(Scanned)
  BY <1>2 DEF MeantBy, Inc
<1> QED
  BY <1>1, <1>2, <1>3, <1>4, <1>5 DEF Meant

-----------------------------------------------------------------------------
(* The initial state satisfies the invariant. *)
LEMMA DepInit == Init => DepInvariant
<1> SUFFICES ASSUME Init PROVE DepInvariant
  OBVIOUS
<1>1. TypeOK
  <2>1. Source \in exists /\ exists \subseteq File
    BY ScanAssumption DEF Init, File
  <2>2. includes \in [File -> Seq(Include)]
    BY ScanAssumption DEF Init
  <2>3. queue \in Seq(exists) /\ queue # <<>> /\ line = 1 /\ Head(queue) = Source
    BY <2>1 DEF Init
  <2>4. Len(includes[Head(queue)]) \in Nat
    BY <2>1, <2>2, <2>3
  <2>5. line \in 1..(Len(includes[Head(queue)]) + 1)
    BY <2>3, <2>4
  <2> QED
    BY <2>1, <2>2, <2>3, <2>5 DEF TypeOK, Init
<1>2. Idle
  BY DEF Idle, Init
<1>3. Pending
  BY DEF Pending, Init
<1>4. Progress
  <2>1. ReadFrom(file_arr) \subseteq {Source} /\ Scanned = Source
    BY DEF Init, ReadFrom, Scanned
  <2>2. includes[Source] \in Seq(Include)
    BY <1>1 DEF TypeOK
  <2>3. \A l \in DOMAIN includes[Source] : ~(l < line)
    BY <2>2 DEF Init
  <2> QED
    BY <2>1, <2>3 DEF Progress
<1>5. Reached(file_arr)
  BY DEF Init, Reached
<1>6. DepExact
  BY DEF Init, DepExact
<1> QED
  BY <1>1, <1>2, <1>3, <1>4, <1>5, <1>6 DEF DepInvariant

-----------------------------------------------------------------------------
(* Steps of the scan. *)

(* A file found for the #include under the line, listed and, if it is      *)
(* there, queued, keeps the invariant.                                     *)
LEMMA FoundKeeps ==
    ASSUME DepInvariant, Reading, NextLine, NEW f \in Meant(Inc),
           file_arr' = file_arr \cup {f},
           \/ f \in exists /\ queue' = Append(queue, f)
           \/ f \notin exists /\ queue' = queue
    PROVE  DepInvariant'
<1> USE DEF DepInvariant
<1>0. /\ Scanned \in exists /\ line \in DOMAIN includes[Scanned]
      /\ f \in File /\ f \in MeantBy(Scanned)
      /\ Scanned \in {Source} \cup file_arr
      /\ queue \in Seq(exists) /\ queue # <<>> /\ includes[Scanned] \in Seq(Include)
  <2>1. Scanned \in {Source} \cup file_arr
    BY DEF Pending, Scanned, TypeOK
  <2> QED
    BY <2>1, IncFacts DEF TypeOK
<1>1. /\ queue' \in Seq(exists) /\ queue' # <<>> /\ Head(queue') = Head(queue)
      /\ Len(queue') >= Len(queue)
      /\ \A k \in DOMAIN queue : k \in DOMAIN queue' /\ queue'[k] = queue[k]
      /\ f \in exists => Len(queue') \in 2..Len(queue') /\ queue'[Len(queue')] = f
      /\ \A k \in DOMAIN queue' : k \in DOMAIN queue \/ queue'[k] = f
  BY <1>0
<1>2. UNCHANGED <<exists, includes, scanning, dep, stale>> /\ line' = line + 1
  BY DEF NextLine, treeVars
<1>3. TypeOK'
  <2>1. line' \in 1..(Len(includes[Head(queue)]) + 1)
    BY <1>0, <1>2 DEF Scanned
  <2> QED
    BY <1>0, <1>1, <1>2, <2>1 DEF TypeOK
<1>4. Idle'
  BY <1>2 DEF Idle, Reading
<1>5. Pending'
  BY <1>1 DEF Pending
<1>6. Progress'
  <2> SUFFICES ASSUME NEW g \in ReadFrom(file_arr)',
                      ~ \E k \in 2..Len(queue') : queue'[k] = g,
                      NEW l \in DOMAIN includes[g], g # Scanned \/ l < line + 1
               PROVE  Meant(includes[g][l]) \cap (file_arr \cup {f}) # {}
    <3>1. Scanned' = Scanned
      BY <1>1 DEF Scanned
    <3>2. \A inc : Meant(inc)' = Meant(inc)
      BY DEF Meant, InPath, Generated
    <3> QED
      BY <1>2, <3>1, <3>2 DEF Progress
  <2>1. g # f
    BY <1>1, <1>2 DEF ReadFrom
  <2>2. g \in ReadFrom(file_arr)
    BY <1>2, <2>1 DEF ReadFrom
  <2>3. ~ \E k \in 2..Len(queue) : queue[k] = g
    <3> SUFFICES ASSUME NEW k \in 2..Len(queue), queue[k] = g PROVE FALSE
      OBVIOUS
    <3>1. k \in DOMAIN queue /\ k \in 2..Len(queue')
      BY <1>0, <1>1
    <3> QED
      BY <1>1, <3>1
  <2>4. CASE g # Scanned \/ l < line
    BY <2>2, <2>3, <2>4 DEF Progress
  <2>5. CASE g = Scanned /\ ~(l < line)
    <3>1. l = line
      BY <1>0, <2>5
    <3> QED
      BY <2>5, <3>1 DEF Inc
  <2> QED
    BY <2>4, <2>5
<1>7. Reached(file_arr)'
  <2> SUFFICES ASSUME NEW files \in SUBSET File, Source \in files,
                      \A g \in ReadFrom(file_arr \cup {f}) \cap files : MeantBy(g) \subseteq files
               PROVE  file_arr \cup {f} \subseteq files
    BY <1>2 DEF Reached, ReadFrom, MeantBy, Meant, InPath, Generated
  <2>1. file_arr \subseteq files
    BY DEF Reached, ReadFrom
  <2>2. MeantBy(Scanned) \subseteq files
    BY <1>0, <2>1 DEF ReadFrom
  <2> QED
    BY <1>0, <2>1, <2>2
<1>8. DepExact'
  BY <1>2 DEF DepExact, Complete, Reached, ReadFrom, MeantBy, Meant, InPath, Generated
<1> QED
  BY <1>3, <1>4, <1>5, <1>6, <1>7, <1>8

(* So does a line whose #include is listed already. *)
LEMMA KnownKeeps ==
    ASSUME DepInvariant, IncludeKnown
    PROVE  DepInvariant'
<1> USE DEF DepInvariant, IncludeKnown
<1>1. /\ UNCHANGED <<exists, includes, scanning, file_arr, queue, dep, stale>> /\ line' = line + 1
      /\ Reading
  BY DEF NextLine, treeVars
<1>2. line' \in 1..(Len(includes[Head(queue)]) + 1)
  <2>1. includes[Head(queue)] \in Seq(Include)
    BY DEF TypeOK
  <2> QED
    BY <1>1, <2>1 DEF TypeOK, Reading, Scanned
<1>3. TypeOK' /\ Idle' /\ Pending'
  BY <1>1, <1>2 DEF TypeOK, Idle, Reading, Pending
<1>4. Progress'
  <2> SUFFICES ASSUME NEW g \in ReadFrom(file_arr), ~ \E k \in 2..Len(queue) : queue[k] = g,
                      NEW l \in DOMAIN includes[g], g # Scanned \/ l < line + 1
               PROVE  Meant(includes[g][l]) \cap file_arr # {}
    <3>1. \A inc : Meant(inc)' = Meant(inc)
      BY DEF Meant, InPath, Generated
    <3>2. Scanned' = Scanned /\ ReadFrom(file_arr)' = ReadFrom(file_arr)
      BY <1>1 DEF Scanned, ReadFrom
    <3> QED
      BY <1>1, <3>1, <3>2 DEF Progress
  <2>1. CASE g # Scanned \/ l < line
    BY <2>1 DEF Progress
  <2>2. CASE g = Scanned /\ ~(l < line)
    <3>1. includes[g] \in Seq(Include) /\ line \in Nat
      BY <2>2 DEF TypeOK, Scanned
    <3>2. l = line
      BY <2>2, <3>1
    <3> QED
      BY <2>2, <3>2 DEF Inc, Known, Meant
  <2> QED
    BY <2>1, <2>2
<1>5. Reached(file_arr)' /\ DepExact'
  BY <1>1 DEF DepExact, Complete, Reached, ReadFrom, MeantBy, Meant, InPath, Generated
<1> QED
  BY <1>3, <1>4, <1>5

(* The next file of the queue is read from its first line. *)
LEMMA NextFileKeeps ==
    ASSUME DepInvariant, NextFile
    PROVE  DepInvariant'
<1> USE DEF DepInvariant, NextFile
<1>1. /\ UNCHANGED <<exists, includes, scanning, file_arr, dep, stale>> /\ line' = 1 /\ scanning
      /\ line > Len(includes[Scanned])
      /\ queue \in Seq(exists) /\ Len(queue) > 1 /\ queue' = Tail(queue)
  BY DEF FileRead, treeVars, TypeOK
<1>2. /\ queue' \in Seq(exists) /\ queue' # <<>> /\ Head(queue') = queue[2]
      /\ Len(queue') = Len(queue) - 1
      /\ \A k \in DOMAIN queue' : k + 1 \in DOMAIN queue /\ queue'[k] = queue[k + 1]
  <2>1. queue' \in Seq(exists) /\ Len(queue') = Len(queue) - 1
    BY <1>1
  <2>2. \A k \in 1..(Len(queue) - 1) : k + 1 \in 1..Len(queue) /\ queue'[k] = queue[k + 1]
    BY <1>1
  <2>3. DOMAIN queue' = 1..(Len(queue) - 1) /\ DOMAIN queue = 1..Len(queue) /\ Len(queue) \in Nat
    BY <1>1, <2>1
  <2>4. 1 \in 1..(Len(queue) - 1) /\ queue'[1] = queue[2]
    BY <1>1, <2>2, <2>3
  <2>5. queue' # <<>> /\ Head(queue') = queue'[1]
    BY <2>1, <2>3, <2>4
  <2> QED
    BY <2>1, <2>2, <2>3, <2>4, <2>5
<1>3. TypeOK'
  <2>1. includes[Head(queue')] \in Seq(Include)
    BY <1>1, <1>2 DEF TypeOK
  <2>2. line' \in 1..(Len(includes[Head(queue')]) + 1)
    BY <1>1, <2>1
  <2> QED
    BY <1>1, <1>2, <2>2 DEF TypeOK
<1>4. Idle' /\ Pending'
  BY <1>1, <1>2 DEF Idle, Pending
<1>5. Progress'
  <2> SUFFICES ASSUME NEW g \in ReadFrom(file_arr), ~ \E k \in 2..Len(queue') : queue'[k] = g,
                      NEW l \in DOMAIN includes[g], g # queue[2] \/ l < 1
               PROVE  Meant(includes[g][l]) \cap file_arr # {}
    <3>1. \A inc : Meant(inc)' = Meant(inc)
      BY DEF Meant, InPath, Generated
    <3>2. Scanned' = queue[2] /\ ReadFrom(file_arr)' = ReadFrom(file_arr)
      BY <1>1, <1>2 DEF Scanned, ReadFrom
    <3> QED
      BY <1>1, <3>1, <3>2 DEF Progress
  <2>1. includes[g] \in Seq(Include) /\ includes[Scanned] \in Seq(Include) /\ line \in Nat
    <3>1. g \in File /\ Scanned \in File
      BY <1>1 DEF ReadFrom, TypeOK, Scanned
    <3> QED
      BY <3>1 DEF TypeOK
  <2>2. g # queue[2]
    BY <2>1
  <2>3. ~ \E k \in 2..Len(queue) : queue[k] = g
    <3> SUFFICES ASSUME NEW k \in 2..Len(queue), queue[k] = g PROVE FALSE
      OBVIOUS
    <3>1. k # 2
      BY <2>2
    <3>2. k - 1 \in 2..Len(queue') /\ k - 1 \in DOMAIN queue' /\ (k - 1) + 1 = k
      BY <1>1, <1>2, <3>1
    <3>3. queue'[k - 1] = g
      BY <1>2, <3>2
    <3> QED
      BY <3>2, <3>3
  <2>4. g # Scanned \/ l < line
    BY <1>1, <2>1
  <2> QED
    BY <2>3, <2>4 DEF Progress
<1>6. Reached(file_arr)' /\ DepExact'
  BY <1>1 DEF DepExact, Complete, Reached, ReadFrom, MeantBy, Meant, InPath, Generated
<1> QED
  BY <1>3, <1>4, <1>5, <1>6

-----------------------------------------------------------------------------
(* Between scans. *)

(* What holds when nothing of a scan is left. *)
LEMMA Rested ==
    ASSUME exists' \in SUBSET File, Source \in exists', includes' \in [File -> Seq(Include)],
           scanning' \in BOOLEAN, dep' \in (SUBSET File) \cup {NULL}, stale' \in BOOLEAN,
           file_arr' = {}, queue' = <<Source>>, line' = 1
    PROVE  (TypeOK /\ Idle /\ Pending /\ Progress /\ Reached(file_arr))'
<1>1. Source \in File /\ includes'[Source] \in Seq(Include)
  OBVIOUS
<1>2. queue' \in Seq(exists') /\ queue' # <<>> /\ Head(queue') = Source
  OBVIOUS
<1>3. line' \in 1..(Len(includes'[Head(queue')]) + 1) /\ \A l \in DOMAIN includes'[Source] : ~(l < line')
  BY <1>1, <1>2
<1>4. TypeOK'
  BY <1>2, <1>3 DEF TypeOK
<1>5. Progress'
  BY <1>2, <1>3 DEF Progress, ReadFrom, Scanned
<1>6. Pending'
  BY <1>2 DEF Pending
<1> QED
  BY <1>4, <1>5, <1>6 DEF Idle, Reached

(* The scan that ends well has read every listed file to the end. *)
LEMMA WriteDepKeeps ==
    ASSUME DepInvariant, WriteDep
    PROVE  DepInvariant'
<1> USE DEF DepInvariant, WriteDep
<1>1. /\ UNCHANGED <<exists, includes>> /\ scanning' = FALSE
      /\ file_arr' = {} /\ queue' = <<Source>> /\ line' = 1
      /\ dep' = file_arr /\ stale' = FALSE
      /\ line > Len(includes[Scanned]) /\ Len(queue) = 1
  BY DEF Ends, FileRead, treeVars
<1>2. TypeOK' /\ Idle' /\ Pending' /\ Progress' /\ Reached(file_arr)'
  BY <1>1, Rested DEF TypeOK
<1>3. Complete(file_arr)
  <2> SUFFICES ASSUME NEW f \in ReadFrom(file_arr), NEW l \in DOMAIN includes[f]
               PROVE  Meant(includes[f][l]) \cap file_arr # {}
    BY DEF Complete
  <2>1. includes[Scanned] \in Seq(Include) /\ line \in Nat
    BY DEF TypeOK, Scanned
  <2>2. f # Scanned \/ l < line
    BY <1>1, <2>1
  <2> QED
    BY <1>1, <2>2 DEF Progress
<1>4. DepExact'
  BY <1>1, <1>3 DEF DepExact, Complete, Reached, ReadFrom, MeantBy, Meant, InPath, Generated
<1> QED
  BY <1>2, <1>4

(* A scan that ends with an error leaves the dependency file alone. *)
LEMMA MissingKeeps ==
    ASSUME DepInvariant, IncludeMissing
    PROVE  DepInvariant'
<1> USE DEF DepInvariant, IncludeMissing
<1>1. /\ UNCHANGED <<exists, includes, dep, stale>> /\ scanning' = FALSE
      /\ file_arr' = {} /\ queue' = <<Source>> /\ line' = 1
  BY DEF Ends, treeVars
<1>2. TypeOK' /\ Idle' /\ Pending' /\ Progress' /\ Reached(file_arr)'
  BY <1>1, Rested DEF TypeOK
<1>3. DepExact'
  BY <1>1 DEF DepExact, Complete, Reached, ReadFrom, MeantBy, Meant, InPath, Generated
<1> QED
  BY <1>2, <1>3

(* make starts the script. *)
LEMMA ScanKeeps ==
    ASSUME DepInvariant, Scan
    PROVE  DepInvariant'
<1> USE DEF DepInvariant, Scan
<1>1. /\ UNCHANGED <<exists, includes, dep, stale>> /\ scanning' = TRUE
      /\ file_arr' = {} /\ queue' = <<Source>> /\ line' = 1
  BY DEF treeVars, Idle
<1>2. TypeOK' /\ Idle' /\ Pending' /\ Progress' /\ Reached(file_arr)'
  BY <1>1, Rested DEF TypeOK
<1>3. DepExact'
  BY <1>1 DEF DepExact, Complete, Reached, ReadFrom, MeantBy, Meant, InPath, Generated
<1> QED
  BY <1>2, <1>3

(* A change to one file, between scans: if it is the source or listed, the *)
(* dependency file is stale.                                               *)
LEMMA ChangeKeeps ==
    ASSUME DepInvariant, ~scanning, UNCHANGED <<scanVars, dep>>, NEW f \in File, Touched(f),
           exists' \in SUBSET File, Source \in exists', includes' \in [File -> Seq(Include)],
           \A g \in File \ {f} : (g \in exists' <=> g \in exists) /\ includes'[g] = includes[g]
    PROVE  DepInvariant'
<1> USE DEF DepInvariant
<1>1. /\ UNCHANGED <<dep, scanning>> /\ file_arr' = {} /\ queue' = <<Source>> /\ line' = 1
      /\ stale' \in BOOLEAN
  BY DEF scanVars, Idle, TypeOK, Touched
<1>2. TypeOK' /\ Idle' /\ Pending' /\ Progress' /\ Reached(file_arr)'
  BY <1>1, Rested DEF TypeOK
<1>3. DepExact'
  <2> SUFFICES ASSUME dep # NULL, ~stale' PROVE Complete(dep)' /\ Reached(dep)'
    BY <1>1 DEF DepExact
  <2>1. ~stale /\ f \notin {Source} \cup dep /\ dep \subseteq File
    BY DEF Touched, Prerequisites, TypeOK
  <2>2. Source \in File
    BY DEF TypeOK
  <2>3. ReadFrom(dep)' = ReadFrom(dep)
    BY <1>1, <2>1, <2>2 DEF ReadFrom
  <2>4. \A g \in ReadFrom(dep) : includes'[g] = includes[g]
    BY <2>1, <2>2 DEF ReadFrom
  <2>5. (\A inc : Meant(inc)' = Meant(inc)) /\ \A g \in ReadFrom(dep) : MeantBy(g)' = MeantBy(g)
    BY <2>4 DEF MeantBy, Meant, InPath, Generated
  <2>6. Complete(dep) /\ Reached(dep)
    BY <2>1 DEF DepExact
  <2>7. Complete(dep)'
    BY <1>1, <2>3, <2>4, <2>5, <2>6 DEF Complete
  <2>8. Reached(dep)'
    BY <1>1, <2>3, <2>5, <2>6 DEF Reached
  <2> QED
    BY <2>7, <2>8
<1> QED
  BY <1>2, <1>3

-----------------------------------------------------------------------------
(* Every step keeps the invariant. *)
LEMMA DepStep == DepInvariant /\ [Next]_vars => DepInvariant'
<1> SUFFICES ASSUME DepInvariant, [Next]_vars PROVE DepInvariant'
  OBVIOUS
<1> USE DEF DepInvariant
<1>1. CASE IncludeNew
  <2>1. Reading /\ NextLine
    BY <1>1 DEF IncludeNew
  <2>2. PICK f \in New : file_arr' = file_arr \cup {f} /\ queue' = Append(queue, f)
    BY <1>1 DEF IncludeNew
  <2>3. f \in Meant(Inc) /\ f \in exists
    BY <2>2 DEF New, Meant
  <2> QED
    BY <2>1, <2>2, <2>3, FoundKeeps
<1>2. CASE IncludeKnown
  BY <1>2, KnownKeeps
<1>3. CASE IncludeGenerated
  <2>1. Reading /\ NextLine /\ Generated(Inc) \in Meant(Inc)
    BY <1>3 DEF IncludeGenerated, Meant
  <2>2. /\ file_arr' = file_arr \cup {Generated(Inc)}
        /\ \/ Generated(Inc) \in exists /\ queue' = Append(queue, Generated(Inc))
           \/ Generated(Inc) \notin exists /\ queue' = queue
    BY <1>3 DEF IncludeGenerated, Listed
  <2> QED
    BY <2>1, <2>2, FoundKeeps
<1>4. CASE IncludeMissing
  BY <1>4, MissingKeeps
<1>5. CASE NextFile
  BY <1>5, NextFileKeeps
<1>6. CASE WriteDep
  BY <1>6, WriteDepKeeps
<1>7. CASE Scan
  BY <1>7, ScanKeeps
<1>8. CASE Build
  <2>1. PICK f \in Prerequisites \ exists : exists' = exists \cup {f} /\ Touched(f)
    BY <1>8 DEF Build
  <2>2. f \in File /\ Source \in exists
    BY DEF Prerequisites, TypeOK
  <2>3. ~scanning /\ UNCHANGED <<scanVars, dep, includes>>
    BY <1>8 DEF Build
  <2> QED
    BY <2>1, <2>2, <2>3, ChangeKeeps DEF TypeOK
<1>9. CASE Write
  <2>1. PICK f \in Written \ exists : exists' = exists \cup {f} /\ Touched(f)
    BY <1>9 DEF Write
  <2>2. f \in File
    BY ScanAssumption DEF File
  <2>3. ~scanning /\ UNCHANGED <<scanVars, dep, includes>>
    BY <1>9 DEF Write
  <2> QED
    BY <2>1, <2>2, <2>3, ChangeKeeps DEF TypeOK
<1>10. CASE Remove
  <2>1. PICK f \in exists \ {Source} : exists' = exists \ {f} /\ Touched(f)
    BY <1>10 DEF Remove
  <2>2. ~scanning /\ UNCHANGED <<scanVars, dep, includes>>
    BY <1>10 DEF Remove
  <2> QED
    BY <2>1, <2>2, ChangeKeeps DEF TypeOK
<1>11. CASE Edit
  <2>1. PICK f \in exists :
          /\ \E text \in {content[f] : content \in Contents} : includes' = [includes EXCEPT ![f] = text]
          /\ Touched(f)
    BY <1>11 DEF Edit
  <2>2. PICK content \in Contents : includes' = [includes EXCEPT ![f] = content[f]]
    BY <2>1
  <2>3. f \in File /\ content[f] \in Seq(Include)
    BY ScanAssumption DEF TypeOK
  <2>4. ~scanning /\ UNCHANGED <<scanVars, dep, exists>>
    BY <1>11 DEF Edit
  <2>5. /\ includes' \in [File -> Seq(Include)]
        /\ \A g \in File \ {f} : includes'[g] = includes[g]
    BY <2>2, <2>3 DEF TypeOK
  <2> QED
    BY <2>1, <2>3, <2>4, <2>5, ChangeKeeps DEF TypeOK
<1>12. CASE UNCHANGED vars
  <2>1. UNCHANGED <<exists, includes, scanning, file_arr, queue, line, dep, stale>>
    BY <1>12 DEF vars, treeVars, scanVars
  <2>2. TypeOK' /\ Idle' /\ Pending'
    BY <2>1 DEF TypeOK, Idle, Pending
  <2>3. Progress'
    BY <2>1 DEF Progress, ReadFrom, Scanned, Meant, InPath, Generated
  <2>4. Reached(file_arr)' /\ DepExact'
    BY <2>1 DEF Reached, DepExact, Complete, ReadFrom, MeantBy, Meant, InPath, Generated
  <2> QED
    BY <2>2, <2>3, <2>4
<1> QED
  BY <1>1, <1>2, <1>3, <1>4, <1>5, <1>6, <1>7, <1>8, <1>9, <1>10, <1>11, <1>12
     DEF Next, ScanStep

LEMMA DepInvariantHolds == Spec => []DepInvariant
BY DepInit, DepStep, PTL DEF Spec

(* Whatever the directories, the headers and the edits, the dependency     *)
(* file lists something for every #include of a file it lists, and nothing *)
(* that the source does not reach, until make knows that it is stale       *)
(* (source_dep.awk:74-168).                                                *)
THEOREM DepExactHolds == Spec => []DepExact
<1>1. DepInvariant => DepExact
  BY DEF DepInvariant
<1> QED
  BY <1>1, DepInvariantHolds, PTL

=============================================================================
