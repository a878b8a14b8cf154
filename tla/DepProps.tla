------------------------------ MODULE DepProps ------------------------------
(***************************************************************************)
(* What make relies on: that the dependency file lists the headers that    *)
(* the source may need, and that the scan comes to an end.                 *)
(***************************************************************************)
EXTENDS SourceDep

(* All files the #includes of a file may mean. *)
Meant(inc) == InPath(inc) \cup {Generated(inc)}
MeantBy(f) == UNION {Meant(includes[f][l]) : l \in DOMAIN includes[f]}

(* The files of a list that are there and were read, and the source. *)
ReadFrom(list) == ({Source} \cup list) \cap exists

(* Every #include, of the source and of every listed file that is there,   *)
(* has a file on the list.                                                 *)
Complete(list) ==
    \A f \in ReadFrom(list) : \A l \in DOMAIN includes[f] : Meant(includes[f][l]) \cap list # {}

(* What is on the list is reached from the source: it is in every set that *)
(* holds the source, and with a listed file all that it may include.       *)
Reached(list) ==
    \A files \in SUBSET File :
        Source \in files /\ (\A f \in ReadFrom(list) \cap files : MeantBy(f) \subseteq files)
            => list \subseteq files

(* While make knows of no change to the source or to a listed file, the    *)
(* dependency file is complete and lists only what is reached, whatever    *)
(* has been generated, written, edited and removed, in whatever order, and *)
(* however many scans failed since (source_dep.awk:74-168).                *)
DepExact == dep # NULL /\ ~stale => Complete(dep) /\ Reached(dep)

-----------------------------------------------------------------------------
(* The inductive invariant behind DepExact: what is on the list of the     *)
(* running scan is reached, and every file on it that is there has been    *)
(* read (Progress), up to the line if it is the one being read, unless it  *)
(* still waits in the queue.  Between scans nothing is left of one.        *)
Pending == \A k \in DOMAIN queue : queue[k] \in {Source} \cup file_arr

Progress ==
    \A f \in ReadFrom(file_arr) :
        \/ \E k \in 2..Len(queue) : queue[k] = f
        \/ \A l \in DOMAIN includes[f] :
              f # Scanned \/ l < line => Meant(includes[f][l]) \cap file_arr # {}

Idle == ~scanning => file_arr = {} /\ queue = <<Source>> /\ line = 1

DepInvariant == TypeOK /\ Idle /\ Pending /\ Progress /\ Reached(file_arr) /\ DepExact

-----------------------------------------------------------------------------
(* Generated files that are there and include each other; no file in the   *)
(* search path hides them.                                                 *)
Ring(files) ==
    \A f \in files : \E l \in DOMAIN includes[f] :
        /\ Generated(includes[f][l]) \in files
        /\ InPath(includes[f][l]) \cap exists = {}

Endless == \E files \in SUBSET {f \in exists : f[1] = Gen} : files # {} /\ Ring(files)

(* "until no further includes can be found" (source_dep.awk:10-12): headers *)
(* that include each other end the scan like any others, but for generated *)
(* ones, which are scanned as often as they are included                   *)
(* (source_dep.awk:105, 135-146).                                          *)
ScanEnds == scanning ~> (~scanning \/ Endless)

=============================================================================
