---------------------------- MODULE BackupSteps ----------------------------
(***************************************************************************)
(* Steps of a backup, each by itself: listing a folder (ObjectListing) or  *)
(* an archive (ZipListing), bringing a file into the store (EntryPart),    *)
(* making a tree of the results (TreeBuild), and giving the version its    *)
(* place among the others (VersionOrder).                                  *)
(***************************************************************************)
EXTENDS VersionOrder, Integers, Sequences, FiniteSets

CONSTANTS Keys, PageSize, MaxAttempts, MaxChanges, MaxListed, \* of ObjectListing
          TailLen, CountMod,                         \* of ZipListing
          MaxLen,                                    \* of EntryPart
          Paths, FileKeys, MaxEntries, MaxDepth      \* of TreeBuild

ASSUME StepsAssumption == /\ Keys \subseteq Nat \ {0} /\ IsFiniteSet(Keys)
                          /\ {PageSize, MaxAttempts, TailLen, CountMod} \subseteq Nat \ {0}
                          /\ {MaxChanges, MaxListed, MaxLen, MaxEntries, MaxDepth} \subseteq Nat
                          /\ \A p \in Paths : /\ Len(p) \in 1..MaxDepth
                                              /\ p = [i \in 1..Len(p) |-> p[i]]
                          /\ 0 \notin FileKeys

VARIABLES task,          \* the step
          client, server, bucket, changes, always, ever, cursor, objects, attempt, state,
          storage, layout, archive, step, tail, dir, ranges,
          kind, place, object, listed, existing, key, handle, got, pc, part, changed,
          entries, pending, newPathToFileKey, dirPaths, subdirs, leaves, todo, trees, lost,
          stage, walk

folderVars == <<client, server, bucket, changes, always, ever, cursor, objects, attempt, state>>
zipVars == <<storage, layout, archive, step, tail, dir, ranges>>
partVars == <<kind, place, object, listed, existing, key, handle, got, pc, part, changed>>
treeVars == <<entries, pending, newPathToFileKey, dirPaths, subdirs, leaves, todo, trees, lost,
              stage, walk>>
stepVars == <<task, vars, folderVars, zipVars, partVars, treeVars>>

Folder == INSTANCE ObjectListing
Zip == INSTANCE ZipListing
Part == INSTANCE EntryPart
Tree == INSTANCE TreeBuild

\* The state of the steps that are not taken.
None == "none"
NoVersions == /\ versions = None /\ clock = None /\ run = None /\ reported = None /\ born = None
              /\ made = None /\ orderly = None
NoFolder == /\ client = None /\ server = None /\ bucket = None /\ changes = None /\ always = None
            /\ ever = None /\ cursor = None /\ objects = None /\ attempt = None /\ state = None
NoZip == /\ storage = None /\ layout = None /\ archive = None /\ step = None /\ tail = None
         /\ dir = None /\ ranges = None
NoPart == /\ kind = None /\ place = None /\ object = None /\ listed = None /\ existing = None
          /\ key = None /\ handle = None /\ got = None /\ pc = None /\ part = None /\ changed = None
NoTree == /\ entries = None /\ pending = None /\ newPathToFileKey = None /\ dirPaths = None
          /\ subdirs = None /\ leaves = None /\ todo = None /\ trees = None /\ lost = None
          /\ stage = None /\ walk = None

StepInit ==
    \/ task = "folder" /\ Folder!Init /\ NoZip /\ NoPart /\ NoTree /\ NoVersions
    \/ task = "zip" /\ NoFolder /\ Zip!Init /\ NoPart /\ NoTree /\ NoVersions
    \/ task = "part" /\ NoFolder /\ NoZip /\ Part!Init /\ NoTree /\ NoVersions
    \/ task = "tree" /\ NoFolder /\ NoZip /\ NoPart /\ Tree!Init /\ NoVersions
    \/ task = "version" /\ NoFolder /\ NoZip /\ NoPart /\ NoTree /\ Init

ListFolder ==
    task = "folder" /\ Folder!ListStep /\ UNCHANGED <<task, vars, zipVars, partVars, treeVars>>

StepNext ==
    \/ task = "folder" /\ Folder!Next /\ UNCHANGED <<task, vars, zipVars, partVars, treeVars>>
    \/ task = "zip" /\ Zip!Next /\ UNCHANGED <<task, vars, folderVars, partVars, treeVars>>
    \/ task = "part" /\ Part!Next /\ UNCHANGED <<task, vars, folderVars, zipVars, treeVars>>
    \/ task = "tree" /\ Tree!Next /\ UNCHANGED <<task, vars, folderVars, zipVars, partVars>>
    \/ task = "version" /\ Next /\ UNCHANGED <<task, folderVars, zipVars, partVars, treeVars>>

\* Each attempt at a request ends (MetadataAttemptTimeout).
StepSpec == StepInit /\ [][StepNext]_stepVars /\ WF_stepVars(ListFolder)

-----------------------------------------------------------------------------
(* Properties. *)

\* A listing of a bucket that others write to names every object that stays, no object
\* that never was, and none twice: see ObjectListing.
ListingFaithful == task = "folder" => Folder!ListingFaithful

\* A listing ends, also with a server that ignores the token or the marker, unless the S3 or
\* the OCI client is given the same token or start again and again: see ObjectListing.
ListingEnds == task = "folder" => Folder!ListingEnds

\* The entries of an archive are found where they are, or the listing fails: see ZipListing.
ZipListingExact == task = "zip" => Zip!ZipListingExact

\* A part holds the content its key names: see EntryPart.
KeyedContent == task = "part" => Part!KeyedContent

\* A tree gives back the source's entries, in whatever order they came: see TreeBuild.
TreeExact == task = "tree" => Tree!TreeExact

\* Versions are ordered as they were made: see VersionOrder.
VersionsOrdered == [][task = "version" => HistoryStep]_stepVars
=============================================================================
