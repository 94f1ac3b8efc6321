----------------------------- MODULE ConfigFile -----------------------------
(***************************************************************************)
(* config_init() of src/lib/util/config.c with path_create() of            *)
(* filesystem.c, as processes run it that share the file: each looks for   *)
(* the file and, where there is none, makes the directories, creates the   *)
(* file and has text_init() write a first text.  Any process may die.      *)
(***************************************************************************)
EXTENDS Calls

CONSTANTS
    Processes,
    Depth        \* directories on the path

ASSUME DepthAssumption == Depth \in Nat

VARIABLE disk

File == Depth + 1

Levels == 1..File

\* what the path can lead to before: directories, then a file or nothing
Trees == {node \in [Levels -> {"none", "dir", "file"}] :
             /\ \A k \in 1..Depth : node[k] # "dir" => node[k + 1] = "none"
             /\ node[File] # "dir"}

Missing(k) == \E j \in 1..k : disk.node[j] = "none"

\* a file stands where the path to level k needs a directory
Blocked(k) == \E j \in 1..k - 1 : disk.node[j] = "file"

\* what the path names: a final slash makes it the name of its last directory
Target == IF disk.slash THEN Depth ELSE File

Goes(p, pc) == [disk EXCEPT !.pc[p] = pc]

Begin ==
    /\ disk = None
    /\ \E node \in Trees, slash \in BOOLEAN :
          /\ slash => node[File] = "none"
          /\ disk' = [node |-> node, slash |-> slash, written |-> 0, lost |-> FALSE,
                      created |-> FALSE, pc |-> [p \in Processes |-> "idle"],
                      level |-> [p \in Processes |-> 1], fd |-> [p \in Processes |-> FALSE]]
    /\ Returns(None)

-----------------------------------------------------------------------------
(* path_create(), level by level *)

Climb(p, k) == [disk EXCEPT !.level[p] = k, !.pc[p] = IF k > Depth THEN "open" ELSE "look"]

\* stat() of a directory on the path; anything else is left to mkdir()
LookAtDirectory(p) ==
    LET k == disk.level[p]
    IN  /\ disk.pc[p] = "look"
        /\ disk' = IF Blocked(k) THEN Goes(p, "failed")
                   ELSE IF disk.node[k] = "dir" THEN Climb(p, k + 1)
                   ELSE Goes(p, "mkdir")

\* mkdir(), which may be refused; EEXIST is no error.  Behind a final slash the
\* search for the next one starts beyond the end of the path
MakeDirectory(p) ==
    LET k == disk.level[p]
        made == [Climb(p, k + 1) EXCEPT !.node[k] = IF @ = "none" THEN "dir" ELSE @]
    IN  /\ disk.pc[p] = "mkdir"
        /\ \/ disk' = Goes(p, "failed") /\ fault' = fault
           \/ ~Blocked(k) /\ ~(disk.slash /\ k = Depth) /\ disk' = made /\ fault' = fault
           \/ ~Blocked(k) /\ disk.slash /\ k = Depth /\ disk' = made /\ Stray("path_create")

-----------------------------------------------------------------------------
(* config_init() *)

\* stat() of the whole path
LookForFile(p) ==
    /\ disk.pc[p] = "idle"
    /\ disk' = IF Blocked(File) THEN Goes(p, "failed")
               ELSE IF Missing(Target) THEN Climb(p, 1)
               ELSE Goes(p, "maps")

\* OpenShared: O_EXCL is missing
OpenShared(p) ==
    /\ disk.pc[p] = "open"
    /\ disk' = [disk EXCEPT !.pc[p] = "text", !.fd[p] = TRUE, !.node[File] = "file",
                            !.created = TRUE]

\* open() with O_EXCL; with EEXIST it goes on, without a descriptor; the name of
\* a directory is refused
OpenFile(p) ==
    /\ disk.pc[p] = "open"
    /\ \/ disk' = Goes(p, "failed")
       \/ ~Blocked(File) /\ ~disk.slash /\ disk.node[File] = "file"
          /\ disk' = [disk EXCEPT !.pc[p] = "text", !.fd[p] = FALSE]
       \/ ~Blocked(File) /\ ~disk.slash /\ disk.node[File] = "none"
          /\ disk' = [disk EXCEPT !.pc[p] = "text", !.fd[p] = TRUE, !.node[File] = "file",
                                  !.created = TRUE]

\* text_init(), which is called with or without a descriptor, and close()
TextInit(p) ==
    /\ disk.pc[p] = "text"
    /\ disk' = [disk EXCEPT !.pc[p] = "maps", !.fd[p] = FALSE,
                            !.written = IF disk.fd[p] THEN @ + 1 ELSE @]

\* the maps, for which there may be no memory
InitMaps(p) ==
    /\ disk.pc[p] = "maps"
    /\ disk' \in {Goes(p, "done"), Goes(p, "failed")}

Crash(p) ==
    /\ disk.pc[p] \notin {"idle", "done", "failed"}
    /\ disk' = [disk EXCEPT !.pc[p] = "failed", !.fd[p] = FALSE, !.lost = @ \/ disk.fd[p]]

\* config_destroy(), or another try
Again(p) ==
    /\ disk.pc[p] \in {"done", "failed"}
    /\ disk' = [disk EXCEPT !.pc[p] = "idle", !.level[p] = 1]

Gone == disk' = None /\ \A p \in Processes : disk.pc[p] = "idle"

ProcessStep(p) ==
    \/ MakeDirectory(p) /\ UNCHANGED returned
    \/ /\ \/ LookForFile(p) \/ LookAtDirectory(p) \/ OpenFile(p)
          \/ TextInit(p) \/ InitMaps(p) \/ Crash(p) \/ Again(p)
       /\ UNCHANGED <<returned, fault>>

DiskNext ==
    /\ Fine
    /\ \/ Begin
       \/ /\ disk # None
          /\ \/ Gone /\ Returns(None)
             \/ \E p \in Processes : ProcessStep(p)

-----------------------------------------------------------------------------
(* Properties *)

\* However processes interleave, die and try again: the first text is written
\* at most once, whoever succeeds leaves with the file in place, and a file
\* that config_init() has created stays without its text only if the process
\* that created it died before text_init() (config_init(), path_create()).
DefaultsOnce ==
    disk # None =>
        /\ disk.written <= 1
        /\ \A p \in Processes : disk.pc[p] = "done" => ~Missing(Target) /\ ~Blocked(File)
        /\ (disk.created /\ disk.written = 0 /\ \A p \in Processes : ~disk.fd[p]) => disk.lost
=============================================================================
