------------------------------ MODULE BlobStorage ------------------------------
(***************************************************************************)
(* The file bodies of one codebase, as objects that are named by the hash  *)
(* of what they hold, beside the graph whose rows refer to them.  A body   *)
(* is put before the commit that names it, and not again if it is there;   *)
(* `hop storage gc --execute` reads which objects the graph refers to,     *)
(* lists the bucket and deletes the others, one request after the other.   *)
(* Neither holds the other off.                                            *)
(***************************************************************************)
EXTENDS GraphStore

VARIABLES
  objects,  \* the contents that the bucket has an object for
  recent,   \* those whose object was written within the retention window
  gc        \* the collection under way

blobs == <<objects, recent, gc>>

NoGc == [step |-> "idle", window |-> FALSE, kept |-> {}, doomed |-> {}]

BlobInit == objects = {} /\ recent = {} /\ gc = NoGc

\* putBlob: an object that exists is left alone, with its age.
Put(content) ==
  /\ objects' = objects \cup {content}
  /\ recent' = IF content \in objects THEN recent ELSE recent \cup {content}

\* reachableBlobKeysForCloud of the current files.
Reachable == {files[p].content : p \in {q \in Paths : files[q] # NoFile}}

\* retainedBlobKeysForVersions: every content a row of file_versions names.
Retained == {row.content : row \in versions} \ {NoFile}

\* The command starts with the graph; it has a retention window or, by default, none.
GcReadGraph ==
  /\ gc.step = "idle"
  /\ \E window \in BOOLEAN :
       gc' = [NoGc EXCEPT !.step = "graph", !.window = window, !.kept = Reachable]
  /\ UNCHANGED <<store, objects, recent>>

GcReadVersions ==
  /\ gc.step = "graph"
  /\ gc' = [gc EXCEPT !.step = "versions", !.kept = @ \cup Retained]
  /\ UNCHANGED <<store, objects, recent>>

\* Mutant of GcList: the window is not looked at.
GcListAnyAge ==
  /\ gc.step = "versions"
  /\ gc' = [gc EXCEPT !.step = "deleting", !.doomed = objects \ gc.kept]
  /\ UNCHANGED <<store, objects, recent>>

GcList ==
  /\ gc.step = "versions"
  /\ gc' = [gc EXCEPT !.step = "deleting",
              !.doomed = objects \ (gc.kept \cup (IF gc.window THEN recent ELSE {}))]
  /\ UNCHANGED <<store, objects, recent>>

GcDelete ==
  /\ gc.step = "deleting"
  /\ \E content \in gc.doomed :
       /\ gc' = [gc EXCEPT !.doomed = @ \ {content}]
       /\ objects' = objects \ {content}
       /\ recent' = recent \ {content}
  /\ UNCHANGED store

\* The command is done, was a dry run, fails or is killed.
GcEnds ==
  /\ gc.step # "idle"
  /\ gc' = NoGc
  /\ UNCHANGED <<store, objects, recent>>

Collect == GcReadGraph \/ GcReadVersions \/ GcList \/ GcDelete \/ GcEnds

===============================================================================
