------------------------ MODULE ResolutionOwnership ------------------------
(***************************************************************************)
(* Which manifests and lock files a task that changes dependencies has to  *)
(* own: _resolution_ownership_errors of spec-check.py, and the author who  *)
(* widens the task's Files until the check names nothing more.             *)
(*                                                                         *)
(* A file is a directory, as the sequence of its parts, and a name.  What  *)
(* the workspace globs of an ancestor's manifest match is given with the   *)
(* project as a set of pairs.                                              *)
(***************************************************************************)
EXTENDS Naturals, Sequences, FiniteSets, SequencesExt

CONSTANTS Dirs,       \* the directories of the project, with <<>> for its root
          Families,   \* RESOLUTION_GROUPS and the requirements files of one stem
          Registry,   \* WORKSPACE_LOCK_REGISTRY: the lock names of a manifest's name
          Projects    \* the projects under consideration

Names == UNION Families
File == [dir : Dirs, name : Names]

ASSUME OwnershipAssumption ==
    /\ \A F, G \in Families : F # G => F \cap G = {}
    /\ DOMAIN Registry \subseteq Names
    /\ \A m \in DOMAIN Registry : Registry[m] \subseteq Names \ DOMAIN Registry
    /\ \A m \in DOMAIN Registry, F \in Families : m \in F => Registry[m] \subseteq F
    /\ Projects \subseteq [files : SUBSET File, members : SUBSET (Dirs \X Dirs)]

VARIABLES project,   \* the files there are, and who declares whom a workspace member
          owned,     \* _owned_resolution_paths of the task
          rounds     \* how often the check has named files that were missing

Family(name) == CHOOSE F \in Families : name \in F

Siblings(f) == {g \in project.files : g.dir = f.dir /\ g.name \in Family(f.name)}

\* The nearest ancestor that declares the directory a member and has a lock.
AncestorLocks(f) ==
    LET locks(a) == {g \in project.files : g.dir = a /\ g.name \in Registry[f.name]}
        homes == {a \in Dirs : /\ IsStrictPrefix(a, f.dir)
                               /\ <<a, f.dir>> \in project.members
                               /\ locks(a) # {}}
    IN  IF f.name \notin DOMAIN Registry \/ homes = {} THEN {}
        ELSE locks(CHOOSE a \in homes : \A b \in homes : IsPrefix(b, a))

WorkspaceLocks(S) == UNION {AncestorLocks(f) : f \in S}

\* A slip: an owned workspace lock asks for its siblings too.
MissingOfAll(S) == (WorkspaceLocks(S) \cup UNION {Siblings(f) : f \in S}) \ S

Missing(S) == (WorkspaceLocks(S) \cup UNION {Siblings(f) : f \in S \ WorkspaceLocks(S)}) \ S

OwnershipAccepted == owned # {} /\ Missing(owned) = {}

OwnInit ==
    /\ project \in Projects
    /\ owned \in SUBSET project.files
    /\ rounds = 0

\* The author adds what the check named, or a first file where the task owned none.
Widen ==
    /\ ~OwnershipAccepted
    /\ IF owned = {}
       THEN \E f \in project.files : owned' = {f}
       ELSE owned' = owned \cup Missing(owned)
    /\ rounds' = IF owned = {} THEN rounds ELSE rounds + 1
    /\ UNCHANGED project

-----------------------------------------------------------------------------
\* Where an edit of a manifest is written: the locks beside it, or else those of the nearest
\* directory above it that takes it for a member.
WrittenBy(f) ==
    LET beside == {g \in Siblings(f) : g.name \in Registry[f.name]}
    IN  IF beside # {} THEN beside ELSE AncestorLocks(f)

\* An author who adds what is named needs two rounds at most, and a task that is let through
\* owns the locks its manifests are resolved into, and the manifest beside every lock it owns
\* that is not there for a member's sake (spec-check.py:959-1004).
OwnershipIsClosed ==
    /\ rounds <= 2
    /\ OwnershipAccepted =>
        /\ \A f \in owned : f.name \in DOMAIN Registry => WrittenBy(f) \subseteq owned
        /\ \A f \in owned, g \in project.files :
              /\ f.dir = g.dir /\ g.name \in DOMAIN Registry /\ f.name \in Registry[g.name]
              /\ g \notin owned
              => \E h \in owned : f \in AncestorLocks(h)
=============================================================================
