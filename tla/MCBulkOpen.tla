----------------------------- MODULE MCBulkOpen -----------------------------
(* Instances of BulkOpen. *)
EXTENDS BulkOpen

P(prefix, name, n) == Part(prefix, prefix = "gs:", name, n)
InDir(part) == [part EXCEPT !.dir = TRUE]

MCSpecs ==
  { <<P("", "a", None)>>, <<P("", "a", 2)>>, <<P("posix:", "a", Star)>>,
    <<InDir(P("", "a", Star))>>, <<P("", "a", 0)>>,
    <<P("gs:", "a", 2)>>, <<P("gs:", "a", Star)>>,
    <<[P("gs:", "a", 1) EXCEPT !.dir = FALSE]>>,
    <<P("", "a", 1), P("", "b", None)>>,
    <<P("gs:", "b", None), P("posix:", "a", Star), P("", "b", None)>>,
    <<P("gs:", "a", 1), P("", "a", Star), P("gs:", "a", Star)>>,
    <<P("s3:", "a", None)>> }

\* The shards of a, and b, with and without limits, in or out of a directory.
Shards(dirs, counts, limits) ==
  [dir: dirs, limits: limits, name: {"a"},
   at: {<<>>} \cup UNION {{<<i, n>> : i \in 0..n-1} : n \in counts}]
  \cup [dir: dirs, limits: limits, name: {"b"}, at: {<<>>}]

Without(all, limits, at) == {f \in all : ~(f.limits \in limits /\ f.at = at)}

Full(dirs) == Shards(dirs, {1, 2}, BOOLEAN)

MCStores ==
  { [posix |-> Full(BOOLEAN), gcs |-> Full({TRUE})],
    [posix |-> Shards(BOOLEAN, {1, 3}, {FALSE}), gcs |-> Shards({TRUE}, {2}, BOOLEAN)],
    [posix |-> Without(Full(BOOLEAN), {TRUE}, <<1, 2>>),
     gcs |-> Without(Full({TRUE}), {FALSE}, <<0, 2>>)],
    [posix |-> Without(Full(BOOLEAN), BOOLEAN, <<0, 2>>),
     gcs |-> Without(Full({TRUE}), BOOLEAN, <<0, 2>>)] }
=============================================================================
