------------------------------- MODULE BulkOpen -------------------------------
(***************************************************************************)
(* Opening a bag by name: BagzReader::Open of src/bagz_reader.cc, which    *)
(* calls BulkOpenPRead of src/file/file.cc, which looks the prefixes up in *)
(* the registry and calls BulkOpenPRead of each file system, POSIX or GCS, *)
(* which opens or lists the files in parallel.                             *)
(*                                                                         *)
(* Other threads may register and unregister file systems meanwhile.  The  *)
(* files stay as they are; opening one may fail although it is there.      *)
(* GCS answers a listing, in any order here: the code looks at the order.  *)
(***************************************************************************)
EXTENDS FileSpecs, FiniteSets

CONSTANTS
  KnownPrefixes,    \* that file systems may be registered for
  Specs,       \* the specs, sequences of parts
  Stores,      \* what lies in the file systems: functions of their names
  MaxChanges   \* bound: changes of the registry during the call

FileSystems == {"posix", "gcs"}
NoFileSystem == "none"

ASSUME SpecsAssumption == Specs \subseteq Seq([prefix: STRING, dir: BOOLEAN,
  limits: {FALSE}, name: STRING, shards: Nat \cup {None, Star}]) \ {<<>>}
\* Nobody registers a prefix that begins with "limits.".
ASSUME PrefixesAssumption == "limits." \notin KnownPrefixes
ASSUME StoresAssumption ==
  \A store \in Stores : \A fs \in FileSystems :
    store[fs] \subseteq Files /\ IsFiniteSet(store[fs])
ASSUME MaxChangesAssumption == MaxChanges \in Nat

VARIABLES
  file_systems_,  \* the registry
  changes,
  stored,         \* the files of each file system
  spec,
  placement,      \* of the limits: "tail" or "separate"
  pc,
  resolved,       \* per part so far: its file system and the part
  opened_parts,   \* how many of the parts have been opened
  filenames,      \* of the group that is being opened
  files,          \* what has been opened for each of them
  opened,         \* the positions of those that have been
  failed,         \* whether one of them has failed
  result,         \* the files of all groups so far
  shards,         \* the files of records and limits of each shard
  status,
  broke           \* history: whether opening a file that is there has failed

registry == <<file_systems_, changes>>
input == <<stored, spec, placement>>
group == <<filenames, files, opened, failed>>
openVars == <<registry, input, pc, resolved, opened_parts, group, result, shards,
              status, broke>>

\* The spec that BulkOpenPRead is given.
Parts == IF placement = "separate" THEN spec \o LimitsName(spec) ELSE spec

OpenInit ==
  /\ file_systems_ \in {[p \in KnownPrefixes |-> IF p = "gs:" THEN gs ELSE "posix"] :
                          gs \in {"gcs", NoFileSystem}}
  /\ changes = 0
  /\ stored \in Stores
  /\ spec \in Specs
  /\ placement \in {"tail", "separate"}
  /\ pc = "resolve"
  /\ resolved = <<>>
  /\ opened_parts = 0
  /\ filenames = <<>>
  /\ files = <<>>
  /\ opened = {}
  /\ failed = FALSE
  /\ result = <<>>
  /\ shards = <<>>
  /\ status = "none"
  /\ broke = FALSE

Return(s) ==
  /\ pc' = "returned"
  /\ status' = s

-----------------------------------------------------------------------------
(* The registry *)

\* Register refuses a prefix that is taken.
Register(prefix, file_system) ==
  /\ pc = "resolve"
  /\ changes < MaxChanges
  /\ file_systems_[prefix] = NoFileSystem
  /\ file_systems_' = [file_systems_ EXCEPT ![prefix] = file_system]
  /\ changes' = changes + 1
  /\ UNCHANGED <<input, pc, resolved, opened_parts, group, result, shards,
                 status, broke>>

Unregister(prefix) ==
  /\ pc = "resolve"
  /\ changes < MaxChanges
  /\ file_systems_[prefix] # NoFileSystem
  /\ file_systems_' = [file_systems_ EXCEPT ![prefix] = NoFileSystem]
  /\ changes' = changes + 1
  /\ UNCHANGED <<input, pc, resolved, opened_parts, group, result, shards,
                 status, broke>>

\* Mutant: a file system that has gone is found.
IsRegistered_Once(prefix) == prefix \in KnownPrefixes

IsRegistered(prefix) ==
  prefix \in KnownPrefixes /\ file_systems_[prefix] # NoFileSystem

\* The next part's file system, found under the registry's lock.
Resolve ==
  /\ pc = "resolve"
  /\ Len(resolved) < Len(Parts)
  /\ LET part == Parts[Len(resolved) + 1]
     IN  IF IsRegistered(part.prefix)
           THEN /\ resolved' = Append(resolved,
                     [file_system |-> file_systems_[part.prefix], part |-> part])
                /\ UNCHANGED <<pc, status>>
           ELSE Return("not found") /\ UNCHANGED resolved
  /\ UNCHANGED <<registry, input, opened_parts, group, result, shards, broke>>

-----------------------------------------------------------------------------
(* file::BulkOpenPRead: one group of neighbouring parts after the other *)

\* The last part of the group that begins with the given one.
EndOfGroup(first) ==
  Max({k \in first..Len(resolved) : \A j \in first..k :
         resolved[j].file_system = resolved[first].file_system})

PartsOf(first, last) == [k \in 1..last-first+1 |-> resolved[first + k - 1].part]

OpenGroup ==
  /\ pc = "resolve" /\ Len(resolved) = Len(Parts)
  /\ opened_parts < Len(resolved)
  /\ LET first == opened_parts + 1
         last == EndOfGroup(first)
         parts == PartsOf(first, last)
     IN  /\ filenames' = ExpandShardSpec(
                IF resolved[first].file_system = "posix"
                  THEN CanonicaliseShardSpec(parts, stored["posix"])
                  ELSE parts)
         /\ files' = [k \in DOMAIN filenames' |-> <<>>]
         /\ opened_parts' = last
  /\ opened' = {}
  /\ failed' = FALSE
  /\ pc' = resolved[opened_parts + 1].file_system
  /\ UNCHANGED <<registry, input, resolved, result, shards, status, broke>>

\* FileSystem::BulkOpenPRead and GcsFileSystem::BulkOpenPRead: ParallelDo runs a
\* task for each name.  When one fails, those that have begun are finished.
Opened(k, found) ==
  /\ files' = [files EXCEPT ![k] = found]
  /\ opened' = opened \cup {k}
  /\ UNCHANGED <<failed, broke>>

TaskFails(was_there) ==
  /\ failed' = TRUE
  /\ broke' = (broke \/ was_there)
  /\ UNCHANGED <<files, opened>>

OpenPRead(k) ==
  /\ pc = "posix"
  /\ k \notin opened
  /\ IF filenames[k] \in stored["posix"] THEN Opened(k, <<filenames[k]>>)
                                         ELSE TaskFails(FALSE)
  /\ UNCHANGED <<registry, input, pc, resolved, opened_parts, filenames, result,
                 shards, status>>

\* What the code asks of a listing.
IsListed(listing) ==
  \A j \in 2..Len(listing) : NameOrder(listing[j - 1], listing[j])

\* A name of which there is no object gives an empty list and no error.
ListObjects(k) ==
  /\ pc = "gcs"
  /\ k \notin opened
  /\ \E listing \in SetToSeqs(Matches(filenames[k], stored["gcs"])) :
       IF IsListed(listing) THEN Opened(k, listing) ELSE TaskFails(TRUE)
  /\ UNCHANGED <<registry, input, pc, resolved, opened_parts, filenames, result,
                 shards, status>>

\* Too many open files, no permission, no answer.
OpenFails(k) ==
  /\ pc \in FileSystems
  /\ k \notin opened
  /\ TaskFails(TRUE)
  /\ UNCHANGED <<registry, input, pc, resolved, opened_parts, filenames, result,
                 shards, status>>

GroupOpened ==
  /\ pc \in FileSystems
  /\ ~failed /\ opened = DOMAIN filenames
  /\ result' = result \o FlattenSeq(files)
  /\ pc' = "resolve"
  /\ UNCHANGED <<registry, input, resolved, opened_parts, group, shards, status,
                 broke>>

GroupFails ==
  /\ pc \in FileSystems
  /\ failed
  /\ Return("error")
  /\ UNCHANGED <<registry, input, resolved, opened_parts, group, result, shards,
                 broke>>

-----------------------------------------------------------------------------
(* BagzReader::Open and OpenFiles with what BulkOpenPRead returns *)

AllOpened ==
  /\ pc = "resolve"
  /\ Len(resolved) = Len(Parts) /\ opened_parts = Len(resolved)

\* The tail of each file is split off, in parallel and each on its own.
OpenWithTails ==
  /\ AllOpened
  /\ placement = "tail"
  /\ shards' = [i \in DOMAIN result |->
                  [records |-> result[i], limits |-> result[i]]]
  /\ Return("ok")
  /\ UNCHANGED <<registry, input, resolved, opened_parts, group, result, broke>>

SplitFails ==
  /\ AllOpened
  /\ placement = "tail" /\ result # <<>>
  /\ broke' = TRUE
  /\ Return("error")
  /\ UNCHANGED <<registry, input, resolved, opened_parts, group, result, shards>>

NumFiles == Len(result) \div 2

\* Mutant: records and limits come in turns.
PairUp_Neighbours ==
  [i \in 1..NumFiles |-> [records |-> result[2 * i - 1], limits |-> result[2 * i]]]

\* The first half are records, the second half limits.
PairUp ==
  [i \in 1..NumFiles |-> [records |-> result[i], limits |-> result[NumFiles + i]]]

OpenWithLimits ==
  /\ AllOpened
  /\ placement = "separate"
  /\ IF 2 * NumFiles = Len(result)
       THEN shards' = PairUp /\ Return("ok")
       ELSE Return("invalid") /\ UNCHANGED shards
  /\ UNCHANGED <<registry, input, resolved, opened_parts, group, result, broke>>

Returned == pc = "returned" /\ UNCHANGED openVars

-----------------------------------------------------------------------------
OtherThread ==
  \E prefix \in KnownPrefixes :
    Unregister(prefix) \/ \E fs \in FileSystems : Register(prefix, fs)

OpenNext ==
  \/ OtherThread
  \/ Resolve
  \/ OpenGroup
  \/ \E k \in DOMAIN filenames : OpenPRead(k) \/ ListObjects(k) \/ OpenFails(k)
  \/ GroupOpened \/ GroupFails
  \/ OpenWithTails \/ SplitFails \/ OpenWithLimits
  \/ Returned

OpenSpec == OpenInit /\ [][OpenNext]_openVars

-----------------------------------------------------------------------------
(* Properties *)

\* The type invariant; nothing is resolved to no file system.
OpenTypeOK ==
  /\ file_systems_ \in [KnownPrefixes -> FileSystems \cup {NoFileSystem}]
  /\ changes \in 0..MaxChanges
  /\ stored \in Stores /\ spec \in Specs /\ placement \in {"tail", "separate"}
  /\ pc \in FileSystems \cup {"resolve", "returned"}
  /\ \A k \in DOMAIN resolved : /\ resolved[k].file_system \in FileSystems
                                /\ resolved[k].part = Parts[k]
  /\ opened_parts \in 0..Len(resolved)
  /\ opened \subseteq DOMAIN filenames /\ DOMAIN files = DOMAIN filenames
  /\ failed \in BOOLEAN /\ broke \in BOOLEAN
  /\ \A i \in DOMAIN result : \E fs \in FileSystems : result[i] \in stored[fs]
  /\ status \in {"none", "ok", "not found", "error", "invalid"}

\* How many files a part stands for, on POSIX, where all shards must be there.
NumberOf(r) ==
  IF IsSharded(r.part) THEN r.part.shards
  ELSE IF r.part.shards = Star THEN Max(ShardCounts(r.part, stored["posix"]))
  ELSE 1

\* The files that a part stands for in its file system: one file, all shards of
\* one number, or on GCS with "@*" the shards of any number.
InStore(r) ==
  LET part == r.part
      Belongs(f) ==
        /\ [f EXCEPT !.at = <<>>] = FileOf(part, <<>>)
        /\ IF IsSharded(part) \/ part.shards = Star
             THEN /\ Len(f.at) = 2
                  /\ \/ part.shards = Star /\ r.file_system = "gcs"
                     \/ f.at[2] = NumberOf(r) /\ f.at[1] < f.at[2]
             ELSE f.at = Literally(part)
  IN  {f \in stored[r.file_system] : Belongs(f)}

\* The files of a set in the order of their numbers.
Listing(S) == CHOOSE listing \in SetToSeqs(S) : IsListed(listing)

\* The group that was opened last is asked of POSIX, which lacks one of its files.
PosixLacksFile ==
  /\ resolved[opened_parts].file_system = "posix"
  /\ \E k \in DOMAIN filenames : filenames[k] \notin stored["posix"]

\* BulkOpenPRead: whatever the groups of file systems and the order in which
\* the tasks finish, a successful call returns the files of the first part in
\* the order of their numbers, then those of the second, and so on.  On POSIX it
\* has all of them, but on GCS those that exist: a missing shard or object is
\* left out, and only a failure or a file that POSIX lacks makes an error, where
\* file.h:79 says that any file that cannot be opened does.
OkInOrder ==
  /\ status = "ok" =>
       /\ result = FlattenSeq([k \in DOMAIN resolved |->
                                Listing(InStore(resolved[k]))])
       /\ \A k \in DOMAIN resolved : resolved[k].file_system = "posix" =>
            Cardinality(InStore(resolved[k])) = NumberOf(resolved[k])
  /\ status = "error" => broke \/ PosixLacksFile

\* Each file of records has its file of limits in that file system.
NoOrphans(fs) ==
  \A f \in stored[fs] : [f EXCEPT !.limits = ~@] \in stored[fs]

LimitsAreOwn ==
  \A i \in DOMAIN shards :
    shards[i].limits = [shards[i].records EXCEPT !.limits = TRUE]

\* Open with separate limits: the records of a bag of one part are read with
\* their own limits and not with another shard's, although half of a list of
\* files decides which is which, and GCS leaves out what is missing; if both
\* names were found in one file system, which the registry looks up separately.
\* (Of a list only the part behind the last slash gets a name of limits.)
OwnLimits ==
  /\ status = "ok" /\ placement = "separate" /\ Len(spec) = 1
  /\ \A k \in DOMAIN resolved :
       /\ resolved[k].file_system = resolved[1].file_system
       /\ resolved[k].file_system = "gcs" => NoOrphans("gcs")
  => LimitsAreOwn
=============================================================================
