----------------------------- MODULE SourceDep ------------------------------
(***************************************************************************)
(* make/source_dep.awk: the scan of a source file for #include "...", of   *)
(* the headers found for more, and the dependency file it writes; and what *)
(* make, and whoever edits the files, do with it in between.               *)
(***************************************************************************)
EXTENDS Naturals, Sequences

CONSTANTS
    Dirs,       \* search_path
    Gen,        \* gen_path, where headers are generated
    Names,      \* of headers, as they are included
    Source,     \* src_file
    Written,    \* headers that somebody may write, or remove
    Contents,   \* assignments of #includes, in order, to all files
    NULL

File == ((Dirs \cup {Gen}) \X Names) \cup {Source}

(* The name between the quotes, and whether a comment says autogen. *)
Include == [name: Names, autogen: BOOLEAN]

ASSUME ScanAssumption ==
    /\ Written \subseteq Dirs \X Names
    /\ \A content \in Contents : content \in [File -> Seq(Include)]

VARIABLES
    exists,     \* the files that are there
    includes,   \* file -> its #includes, also of a file still to be generated
    scanning,   \* is the script running?
    file_arr,   \* the files found
    queue,      \* ARGV, from the file that is being scanned on
    line,       \* the #include of it that comes next
    dep,        \* the files the dependency file lists, NULL if there is none
    stale       \* has any of them, or the source, changed since?

treeVars == <<exists, includes>>
scanVars == <<scanning, file_arr, queue, line>>
vars == <<treeVars, scanVars, dep, stale>>

TypeOK ==
    /\ exists \subseteq File /\ Source \in exists
    /\ includes \in [File -> Seq(Include)]
    /\ scanning \in BOOLEAN
    /\ file_arr \subseteq File
    /\ queue \in Seq(exists) /\ queue # <<>>
    /\ line \in 1..(Len(includes[Head(queue)]) + 1)
    /\ dep \in (SUBSET File) \cup {NULL}
    /\ stale \in BOOLEAN

Init ==
    /\ \E tree \in SUBSET Written : exists = tree \cup {Source}
    /\ includes \in Contents
    /\ scanning = FALSE /\ file_arr = {} /\ queue = <<Source>> /\ line = 1
    /\ dep = NULL /\ stale = FALSE

-----------------------------------------------------------------------------
(* The scan: one step per #include. *)

Scanned == Head(queue)
Reading == scanning /\ line <= Len(includes[Scanned])
Inc == includes[Scanned][line]

(* The headers a #include may mean. *)
InPath(inc) == {<<d, inc.name>> : d \in Dirs}
Generated(inc) == <<Gen, inc.name>>

(* Variant of New: a file found before is found again. *)
New_Again == InPath(Inc) \cap exists

(* search_path is walked in no particular order, until a file is found     *)
(* that is there and was not found before: any such file may be the one.   *)
New == (InPath(Inc) \cap exists) \ file_arr

Known == InPath(Inc) \cap file_arr # {}

(* A generated file may include generated ones without a comment. *)
Autogen == Scanned[1] = Gen \/ Inc.autogen

NextLine == line' = line + 1 /\ UNCHANGED <<treeVars, scanning, dep, stale>>

IncludeNew ==
    /\ Reading
    /\ \E f \in New : file_arr' = file_arr \cup {f} /\ queue' = Append(queue, f)
    /\ NextLine

IncludeKnown ==
    /\ Reading /\ New = {} /\ Known
    /\ NextLine /\ UNCHANGED <<file_arr, queue>>

(* Variant of Listed: only what is there. *)
Listed_IfThere(f) == IF f \in exists THEN file_arr \cup {f} ELSE file_arr

Listed(f) == file_arr \cup {f}

(* Nobody looks whether it was found before. *)
IncludeGenerated ==
    /\ Reading /\ New = {} /\ ~Known /\ Autogen
    /\ file_arr' = Listed(Generated(Inc))
    /\ queue' = IF Generated(Inc) \in exists THEN Append(queue, Generated(Inc)) ELSE queue
    /\ NextLine

Ends == scanning' = FALSE /\ file_arr' = {} /\ queue' = <<Source>> /\ line' = 1

(* error: the dependency file, if there is one, stays as it is. *)
IncludeMissing ==
    /\ Reading /\ New = {} /\ ~Known /\ ~Autogen
    /\ Ends
    /\ UNCHANGED <<treeVars, dep, stale>>

FileRead == scanning /\ line > Len(includes[Scanned])

NextFile ==
    /\ FileRead /\ Len(queue) > 1
    /\ queue' = Tail(queue) /\ line' = 1
    /\ UNCHANGED <<treeVars, scanning, file_arr, dep, stale>>

(* END *)
WriteDep ==
    /\ FileRead /\ Len(queue) = 1
    /\ dep' = file_arr /\ stale' = FALSE
    /\ Ends
    /\ UNCHANGED treeVars

-----------------------------------------------------------------------------
(* make, one rule at a time, and whoever works on the files.  The          *)
(* dependency file depends on the source and on the headers it lists: make *)
(* builds the generated ones that are not there, and then scans again.     *)

Prerequisites == {Source} \cup (IF dep = NULL THEN {} ELSE dep)
Touched(f) == stale' = (stale \/ f \in Prerequisites)

Scan ==
    /\ ~scanning /\ (dep = NULL \/ stale)
    /\ Prerequisites \subseteq exists
    /\ scanning' = TRUE
    /\ UNCHANGED <<treeVars, file_arr, queue, line, dep, stale>>

Build ==
    /\ ~scanning
    /\ \E f \in Prerequisites \ exists :
          f[1] = Gen /\ exists' = exists \cup {f} /\ Touched(f)
    /\ UNCHANGED <<includes, scanVars, dep>>

Write ==
    /\ ~scanning
    /\ \E f \in Written \ exists : exists' = exists \cup {f} /\ Touched(f)
    /\ UNCHANGED <<includes, scanVars, dep>>

Remove ==
    /\ ~scanning
    /\ \E f \in exists \ {Source} : exists' = exists \ {f} /\ Touched(f)
    /\ UNCHANGED <<includes, scanVars, dep>>

(* A file is edited, or generated anew with something else in it. *)
Edit ==
    /\ ~scanning
    /\ \E f \in exists :
          /\ \E text \in {content[f] : content \in Contents} : includes' = [includes EXCEPT ![f] = text]
          /\ Touched(f)
    /\ UNCHANGED <<exists, scanVars, dep>>

-----------------------------------------------------------------------------
ScanStep == IncludeNew \/ IncludeKnown \/ IncludeGenerated \/ IncludeMissing
            \/ NextFile \/ WriteDep

Next == ScanStep \/ Scan \/ Build \/ Write \/ Remove \/ Edit

Spec == Init /\ [][Next]_vars

(* awk runs on until it has no file left. *)
FairSpec == Spec /\ WF_vars(ScanStep)

=============================================================================
