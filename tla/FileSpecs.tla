------------------------------ MODULE FileSpecs ------------------------------
(***************************************************************************)
(* File specs: what src/file/file_system/shard_spec.cc, limits_name.cc and *)
(* the file systems make of them.                                          *)
(*                                                                         *)
(* A spec is the sequence of its parts, those between its commas.  A part  *)
(* has the prefix of a file system ("" without one), tells whether it has  *)
(* a '/', whether its name behind that begins with "limits.", and what     *)
(* follows its '@'.  A file is named by a part and by what stands where    *)
(* the '@' was: <<>>, <<specifier>>, or <<shard, num_shards>>.             *)
(***************************************************************************)
EXTENDS Integers, SequencesExt

CONSTANT
  MaxShards   \* "@N" with a larger N is no specifier: 99999

ASSUME MaxShardsAssumption == MaxShards \in Nat \ {0}

None == -1   \* no '@' in the name
Star == -2   \* "@*"

Part(prefix, dir, name, shards) ==
  [prefix |-> prefix, dir |-> dir, limits |-> FALSE, name |-> name,
   shards |-> shards]

-----------------------------------------------------------------------------
(* Names *)

\* What may be stored: no file's name has a '*' for its number of shards.
Files == [dir: BOOLEAN, limits: BOOLEAN, name: STRING,
          at: {at \in Seq(Nat) : Len(at) <= 2}]

\* The file of a part that is not expanded.
Literally(part) == IF part.shards = None THEN <<>> ELSE <<part.shards>>

FileOf(part, at) ==
  [dir |-> part.dir, limits |-> part.limits, name |-> part.name, at |-> at]

\* ParseShardSpec: whether the specifier stands for a number of shards.
IsSharded(part) == part.shards \in 1..MaxShards

\* Mutant: shards are numbered from one.
ExpandAtSpec_FromOne(part) ==
  IF IsSharded(part)
    THEN [i \in 1..part.shards |-> FileOf(part, <<i, part.shards>>)]
    ELSE <<FileOf(part, Literally(part))>>

ExpandAtSpec(part) ==
  IF IsSharded(part)
    THEN [i \in 1..part.shards |-> FileOf(part, <<i - 1, part.shards>>)]
    ELSE <<FileOf(part, Literally(part))>>

ExpandShardSpec(parts) ==
  FlattenSeq([k \in DOMAIN parts |-> ExpandAtSpec(parts[k])])

\* The numbers of shards of which the first shard is there.
ShardCounts(part, files) ==
  {n \in 0..MaxShards : FileOf(part, <<0, n>>) \in files}

\* The prefix and the suffix around "@*" are taken from the whole list: with a
\* comma in either, the pattern names no file and the list stays as it is.
CanonicaliseShardSpec(parts, files) ==
  IF Len(parts) = 1 /\ parts[1].shards = Star
       /\ ShardCounts(parts[1], files) \ {0} # {}
    THEN <<[parts[1] EXCEPT !.shards = Max(ShardCounts(parts[1], files))]>>
    ELSE parts

\* "limits." goes behind the last slash of the whole spec; without any, it goes
\* to the front and becomes part of the prefix, if there is one.
LimitsName(spec) ==
  LET slashes == {k \in DOMAIN spec : spec[k].dir}
  IN  IF slashes # {} THEN [spec EXCEPT ![Max(slashes)].limits = TRUE]
      ELSE IF spec[1].prefix = "" THEN [spec EXCEPT ![1].limits = TRUE]
      ELSE [spec EXCEPT ![1].prefix = "limits."]

-----------------------------------------------------------------------------
(* Listing objects of GCS *)

NameOrder(f, g) ==
  f.at[1] < g.at[1] \/ (f.at[1] = g.at[1] /\ f.at[2] < g.at[2])

\* The objects that the pattern made of an expanded part matches: for "@*" all
\* shards of any number, otherwise the object of that name if there is one.
Matches(file, files) ==
  IF file.at = <<Star>>
    THEN {f \in files : Len(f.at) = 2 /\ [f EXCEPT !.at = file.at] = file}
    ELSE {file} \cap files
=============================================================================
