---------------------------- MODULE MCObjectStore ----------------------------
(* A small instance of ObjectStore: two buckets, an object in one, and        *)
(* names with spaces, dots and separators in the places where they matter.    *)
(* The requests are interchangeable and no liveness is checked, so symmetry   *)
(* is sound.                                                                  *)
EXTENDS ObjectStore, TLC

CONSTANTS r1, r2, r3

MCRequests == {r1, r2, r3}
Symmetry   == Permutations(MCRequests)
MCBuckets  == <<"cars", "docs">>
MCBad      == {"a/b"}
MCSymbols  == {" ", ".", "a", "f"}

A       == <<"a">>
F       == <<"f">>
None    == << <<>> >>
MCSeeds == {[bucket |-> "cars", path |-> <<A>>]}

Op(kind, bucket, path, name, upsert, all) ==
    [kind |-> kind, bucket |-> bucket, path |-> path, name |-> name,
     upsert |-> upsert, all |-> all]
Upload(bucket, folder, name, upsert) == Op("upload", bucket, folder, name, upsert, FALSE)
Remove1(bucket, path)                == Op("delete", bucket, path, None, "", FALSE)
List(bucket, prefix)                 == Op("list", bucket, prefix, None, "", FALSE)
ListAll(prefix)                      == Op("list", "a/b", prefix, None, "", TRUE)

MCOperations == {
    Upload(Unset, None, <<A>>, ""),                                    \* "a"
    Upload("cars", << <<" ">> >>, <<F, <<" ", "a", ".">> >>, "no"),    \* "f\ a." is "a"
    Upload("docs", << <<>>, <<"f", " ">>, <<>> >>, << <<".", ".">> >>, "yes"), \* in "f", a name of its own
    Upload(Unset, None, << <<".", " ", ".">> >>, ""),                  \* " ", and no path
    Upload("a/b", <<F, <<".", ".">> >>, <<A>>, ""),                    \* refused, twice over
    Remove1(Unset, << <<>>, <<" ", "a">> >>),                          \* "a"
    List("docs", <<F, <<>> >>),
    ListAll(None) }
=============================================================================
