------------------------------ MODULE NameRepair ------------------------------
(***************************************************************************)
(* The repair of misnamed objects in Google Cloud Storage (pubky-homeserver/ *)
(* src/persistence/files/opendal/gcs_name_repair.rs): at startup every entry *)
(* whose path has a character that old versions encoded twice gets its       *)
(* object moved to its path, while users write and other homeservers of the  *)
(* deployment repair too.  Name n is a path encoded n times, so the object of*)
(* entry n may be misnamed n + 1, which may be the path of another entry.    *)
(* Every run can be cut short at any step.                                   *)
(***************************************************************************)
EXTENDS Naturals, Sequences, FiniteSets, Values

CONSTANTS
  NrNames,       \* paths of entries, as numbers of encodings
  NrContents,
  NrRepairers,   \* homeservers that share the bucket and the database
  BatchSize,     \* BATCH_SIZE
  Attempts,      \* ATTEMPTS_PER_ENTRY
  MaxNrWrites, MaxNrRuns

VARIABLES
  nrRows,      \* entry -> [id, content], None when there is no such entry
  nrObjects,   \* object name -> [gen, content], None when there is none
  nrGen, nrIds,
  nrWrite,     \* a PUT published and not committed, or a DELETE, or None
  nrWrites,    \* writes so far
  nrMarked,    \* FINISHED_MARKER
  nrRun,       \* repairer -> its run, None when it does not run
  nrRuns       \* runs so far

nrVars == <<nrRows, nrObjects, nrGen, nrIds, nrWrite, nrWrites, nrMarked, nrRun, nrRuns>>
nrStore == <<nrRows, nrObjects, nrGen, nrIds, nrWrite, nrWrites>>

------------------------------------------------------------------------------
Objects == NrNames \cup {n + 1 : n \in NrNames}

\* misnamed_object_name
Misnamed(n) == n + 1

Entries == {n \in NrNames : nrRows[n] # None}
IsEntry(n) == n \in Entries
Holds(objects, n, content) == objects[n] # None /\ objects[n].content = content

\* An entry with a row of an old version.
Old(n) == IsEntry(n) /\ nrRows[n].id <= Cardinality(NrNames)

\* list_by_path_pattern: the next entries by id, as they are now.
Later(after) == {n \in Entries : nrRows[n].id > after}
NextBatch(names, after) ==
  /\ \A i, j \in DOMAIN names : i < j => nrRows[names[i]].id < nrRows[names[j]].id
  /\ \A n \in Later(after) : (\E i \in DOMAIN names : names[i] = n) \/
       (Len(names) = BatchSize /\ \A i \in DOMAIN names : nrRows[names[i]].id < nrRows[n].id)
Listed(names) ==
  [i \in 1..Len(names) |->
     [name |-> names[i], content |-> nrRows[names[i]].content, id |-> nrRows[names[i]].id]]

\* The entry's content is at its path, or under the misnamed name: also where the path
\* has an object of other content, which is another entry's or nobody's.
Kept(rows, objects, n) ==
  Holds(objects, n, rows[n].content) \/ Holds(objects, Misnamed(n), rows[n].content)

NrRow    == [id : Nat, content : NrContents]
NrObject == [gen : Nat, content : NrContents]
NrPut    == [name : NrNames, content : NrContents \cup {None}]
NrListed == [name : NrNames, content : NrContents, id : Nat]
Repair   ==
  [step : {"list", "stat", "find", "hash", "compare", "copy", "owner", "delete"}, after : Nat,
   batch : Seq(NrListed), tries : 0..Attempts,
   inPlace : BOOLEAN, gen : Nat, placed : Nat, asked : Nat, failed : BOOLEAN]

ASSUME RepairAssumption ==
  /\ NrNames \subseteq Nat /\ IsFiniteSet(NrNames)
  /\ BatchSize \in Nat \ {0} /\ Attempts \in Nat \ {0}
  /\ None \notin NrContents \cup NrRow \cup NrObject \cup NrPut \cup Repair

NrTypeOK ==
  /\ nrRows \in [NrNames -> NrRow \cup {None}] /\ nrObjects \in [Objects -> NrObject \cup {None}]
  /\ nrGen \in Nat /\ nrIds \in Nat /\ nrWrite \in NrPut \cup {None} /\ nrMarked \in BOOLEAN
  /\ nrRun \in [NrRepairers -> Repair \cup {None}]

\* Entries of old versions, each with its object at its path or misnamed, and objects
\* of other content at either name.
NrInit ==
  /\ nrRows \in [NrNames -> {None} \cup [id : 1..Cardinality(NrNames), content : NrContents]]
  /\ \A m, n \in Entries : m # n => nrRows[m].id # nrRows[n].id
  /\ nrObjects \in [Objects -> {None} \cup [gen : {1}, content : NrContents]]
  /\ \A n \in Entries : Kept(nrRows, nrObjects, n)
  /\ nrGen = 1 /\ nrIds = Cardinality(NrNames) /\ nrWrite = None /\ nrWrites = 0
  /\ nrMarked = FALSE /\ nrRun = [r \in NrRepairers |-> None] /\ nrRuns = 0

------------------------------------------------------------------------------
(* Users: a PUT publishes its object and then commits its row, or rolls back;  *)
(* a DELETE removes the row first.                                             *)

PublishObject(n, c) ==
  /\ nrWrite = None /\ nrWrites < MaxNrWrites /\ nrWrites' = nrWrites + 1
  /\ nrGen' = nrGen + 1 /\ nrObjects' = [nrObjects EXCEPT ![n] = [gen |-> nrGen + 1, content |-> c]]
  /\ nrWrite' = [name |-> n, content |-> c]
  /\ UNCHANGED <<nrRows, nrIds, nrMarked, nrRun, nrRuns>>

EndWrite(commit) ==
  /\ nrWrite # None /\ nrWrite.content # None /\ nrWrite' = None
  /\ LET n == nrWrite.name  new == ~IsEntry(n) IN
     IF commit
     THEN /\ nrIds' = IF new THEN nrIds + 1 ELSE nrIds
          /\ nrRows' = [nrRows EXCEPT ![n] = [id |-> IF new THEN nrIds + 1 ELSE nrRows[n].id,
                                              content |-> nrWrite.content]]
     ELSE UNCHANGED <<nrIds, nrRows>>
  /\ UNCHANGED <<nrObjects, nrGen, nrWrites, nrMarked, nrRun, nrRuns>>

DeleteRow(n) ==
  /\ nrWrite = None /\ IsEntry(n) /\ nrWrites < MaxNrWrites /\ nrWrites' = nrWrites + 1
  /\ nrRows' = [nrRows EXCEPT ![n] = None] /\ nrWrite' = [name |-> n, content |-> None]
  /\ UNCHANGED <<nrObjects, nrGen, nrIds, nrMarked, nrRun, nrRuns>>

RemoveObject ==
  /\ nrWrite # None /\ nrWrite.content = None /\ nrWrite' = None
  /\ nrObjects' = [nrObjects EXCEPT ![nrWrite.name] = None]
  /\ UNCHANGED <<nrRows, nrGen, nrIds, nrWrites, nrMarked, nrRun, nrRuns>>

------------------------------------------------------------------------------
(* A run.                                                                      *)

Goes(r, step) == nrRun' = [nrRun EXCEPT ![r].step = step]
AtStep(r, step) == nrRun[r] # None /\ nrRun[r].step = step
EntryAt(r) == nrRun[r].batch[1]
OldName(r) == Misnamed(EntryAt(r).name)

\* run_once: a deployment that has finished skips the repair.
StartRun(r) ==
  /\ nrRun[r] = None /\ nrRuns < MaxNrRuns /\ nrRuns' = nrRuns + 1 /\ ~nrMarked
  /\ nrRun' = [nrRun EXCEPT ![r] = [step |-> "list", after |-> 0, batch |-> <<>>, tries |-> 0,
                                    inPlace |-> FALSE, gen |-> 0, placed |-> 0, asked |-> 0,
                                    failed |-> FALSE]]
  /\ UNCHANGED <<nrStore, nrMarked>>

\* Summary::is_complete
IsComplete(run) == ~run.failed

\* The next batch; a run that got through every entry without a failure is marked.
ListEntries(r) ==
  /\ AtStep(r, "list")
  /\ \E k \in 0..BatchSize : \E names \in [1..k -> Later(nrRun[r].after)] :
       /\ NextBatch(names, nrRun[r].after)
       /\ IF k = 0
          THEN /\ nrRun' = [nrRun EXCEPT ![r] = None]
               /\ nrMarked' = (nrMarked \/ IsComplete(nrRun[r]))
          ELSE /\ nrRun' = [nrRun EXCEPT ![r].step = "stat", ![r].batch = Listed(names),
                                         ![r].after = nrRows[names[k]].id, ![r].tries = 1]
               /\ UNCHANGED nrMarked
  /\ UNCHANGED <<nrStore, nrRuns>>

\* The entry is finished, or given up: the next one of the batch.
Finished(run, failed) ==
  [run EXCEPT !.step = IF Len(run.batch) = 1 THEN "list" ELSE "stat", !.batch = Tail(@),
              !.tries = 1, !.inPlace = FALSE, !.gen = 0, !.placed = 0, !.asked = 0,
              !.failed = @ \/ failed]
Finish(r)    == nrRun' = [nrRun EXCEPT ![r] = Finished(nrRun[r], FALSE)]
FailEntry(r) == nrRun' = [nrRun EXCEPT ![r] = Finished(nrRun[r], TRUE)]

\* Attempt::Raced
TryAgain(r) ==
  IF nrRun[r].tries < Attempts
  THEN nrRun' = [nrRun EXCEPT ![r].step = "stat", ![r].tries = @ + 1, ![r].inPlace = FALSE]
  ELSE FailEntry(r)

\* The object at the entry's path holds its content; which it is is kept for the properties.
InPlace(r, gen) == nrRun' = [nrRun EXCEPT ![r].step = "owner", ![r].placed = gen]

RunOnly == UNCHANGED <<nrStore, nrMarked, nrRuns>>

\* attempt_repair: is there an object at the entry's path?
StatPath(r) ==
  /\ AtStep(r, "stat")
  /\ nrRun' = [nrRun EXCEPT ![r].step = "find", ![r].inPlace = nrObjects[EntryAt(r).name] # None]
  /\ RunOnly

\* find_misnamed_copy: the generation first, then the content, in reads of their own.
FindMisnamed(r) ==
  /\ AtStep(r, "find")
  /\ IF nrObjects[OldName(r)] = None THEN Finish(r)
     ELSE nrRun' = [nrRun EXCEPT ![r].step = "hash", ![r].gen = nrObjects[OldName(r)].gen]
  /\ RunOnly

HashMisnamed(r) ==
  /\ AtStep(r, "hash")
  /\ IF nrObjects[OldName(r)] = None THEN IF nrRun[r].inPlace THEN Finish(r) ELSE TryAgain(r)
     ELSE IF Holds(nrObjects, OldName(r), EntryAt(r).content)
     THEN Goes(r, IF nrRun[r].inPlace THEN "compare" ELSE "copy")
     ELSE Finish(r)
  /\ RunOnly

\* remove_leftover: only if the object in place holds the entry's content.
ComparePlaces(r) ==
  /\ AtStep(r, "compare")
  /\ LET n == EntryAt(r).name IN
     IF nrObjects[n] = None THEN FailEntry(r)
     ELSE IF Holds(nrObjects, n, EntryAt(r).content) THEN InPlace(r, nrObjects[n].gen) ELSE Finish(r)
  /\ RunOnly

\* copy_as_checked: the generation that was checked, to a path without an object.
CopyObject(r) ==
  /\ AtStep(r, "copy")
  /\ LET n == EntryAt(r).name  o == nrObjects[OldName(r)] IN
     IF nrObjects[n] # None \/ o = None \/ (o # None => o.gen # nrRun[r].gen)
     THEN TryAgain(r) /\ UNCHANGED <<nrObjects, nrGen>>
     ELSE /\ nrGen' = nrGen + 1
          /\ nrObjects' = [nrObjects EXCEPT ![n] = [gen |-> nrGen + 1, content |-> o.content]]
          /\ InPlace(r, nrGen + 1)
  /\ UNCHANGED <<nrRows, nrIds, nrWrite, nrWrites, nrMarked, nrRuns>>

\* is_object_of_an_entry
AskOwner(r) ==
  /\ AtStep(r, "owner")
  /\ IF IsEntry(OldName(r)) THEN Finish(r)
     ELSE nrRun' = [nrRun EXCEPT ![r].step = "delete", ![r].asked = nrIds]
  /\ RunOnly

\* Fault: the delete is not bound to the generation that was checked.
SameAlways(r) == nrObjects[OldName(r)] # None

SameGeneration(r) == nrObjects[OldName(r)] # None => nrObjects[OldName(r)].gen = nrRun[r].gen

\* delete_unless_replaced: an object that is gone counts as deleted.
DeleteMisnamed(r) ==
  /\ AtStep(r, "delete")
  /\ IF SameGeneration(r)
     THEN Finish(r) /\ nrObjects' = [nrObjects EXCEPT ![OldName(r)] = None]
     ELSE FailEntry(r) /\ UNCHANGED nrObjects
  /\ UNCHANGED <<nrRows, nrGen, nrIds, nrWrite, nrWrites, nrMarked, nrRuns>>

\* A request of the entry fails: it is counted, and the run goes on.
RepairFails(r) ==
  /\ nrRun[r] # None /\ nrRun[r].step # "list" /\ FailEntry(r) /\ RunOnly

\* A listing fails, or the homeserver stops: the run is over.
AbortRun(r) == nrRun[r] # None /\ nrRun' = [nrRun EXCEPT ![r] = None] /\ RunOnly

RepairStep(r) ==
  \/ StartRun(r) \/ ListEntries(r) \/ StatPath(r) \/ FindMisnamed(r) \/ HashMisnamed(r)
  \/ ComparePlaces(r) \/ CopyObject(r) \/ AskOwner(r) \/ DeleteMisnamed(r)
  \/ RepairFails(r) \/ AbortRun(r)

NrNext ==
  \/ \E r \in NrRepairers : RepairStep(r)
  \/ \E n \in NrNames : DeleteRow(n) \/ \E c \in NrContents : PublishObject(n, c)
  \/ \E b \in BOOLEAN : EndWrite(b)
  \/ RemoveObject

NrSpec == NrInit /\ [][NrNext]_nrVars

------------------------------------------------------------------------------
\* The object of n was there when the repair looked, its row only after it asked.
AddedSince(r, n) ==
  /\ AtStep(r, "delete") /\ OldName(r) = n
  /\ nrRows[n].id > nrRun[r].asked /\ nrObjects[n].gen = nrRun[r].gen

\* The object at the path of n is no longer the one that held its content when the
\* repair compared or copied it: a PUT published since, which may still roll back, or a
\* DELETE removed it.
ReplacedSince(r, n) ==
  /\ AtStep(r, "delete") /\ EntryAt(r).name = n
  /\ nrObjects[n] # None => nrObjects[n].gen # nrRun[r].placed

\* No step of a repair takes the last copy of an entry's content from where the entry's
\* content may be, also where the object at its path is another's, with two exceptions
\* that the code leaves open between its checks and its delete: a PUT of that entry
\* published over the copy that the repair had checked, or the object was that of
\* a PUT that committed after the repair had asked whose it is.  No step takes
\* the object from the path of an entry, but in that last case.
RepairLosesNoContent ==
  [][nrRows' = nrRows /\ nrWrite' = nrWrite =>
       \A n \in Entries :
         /\ Kept(nrRows, nrObjects, n) =>
              \/ Kept(nrRows, nrObjects', n)
              \/ \E r \in NrRepairers : AddedSince(r, n) \/ ReplacedSince(r, n)
         /\ nrObjects[n] # None =>
              nrObjects'[n] = nrObjects[n] \/ \E r \in NrRepairers : AddedSince(r, n)]_nrVars

\* Entry n waits for the repair: its object is as an old version left it, under the
\* misnamed name alone.
Waits(n) ==
  /\ Old(n) /\ nrObjects[n] = None
  /\ Holds(nrObjects, Misnamed(n), nrRows[n].content) /\ nrObjects[Misnamed(n)].gen = 1

\* Once the repair is marked as finished, no entry of an old version waits for it.
MarkedMeansRepaired == nrMarked => \A n \in NrNames : ~Waits(n)

\* The repair loses nothing and is marked as finished only when it is
\* (gcs_name_repair.rs).
RepairSound == [](NrTypeOK /\ MarkedMeansRepaired) /\ RepairLosesNoContent
===============================================================================
