---------------------------- MODULE MCFileSystem ----------------------------
(***************************************************************************)
(* Small volumes for FileSystem.                                           *)
(***************************************************************************)
EXTENDS FileSystem, TLC

Entry(name, clusters, size) ==
    [name |-> name, long |-> TRUE, dir |-> FALSE, clusters |-> clusters, size |-> size]
Dir(name, c) ==
    [name |-> name, long |-> TRUE, dir |-> TRUE, clusters |-> <<c>>, size |-> 0]
Short(item) == [item EXCEPT !.long = FALSE]

abc == <<"a", "b", "c">>
abe == <<"a", "b", "e">>
ab == <<"a", "b">>

(* In the root a file of two sectors, the second not full; one with a      *)
(* short name only; a directory; a file behind the first directory sector. *)
(* In the directory its own two entries, a file that fills its sectors, an *)
(* empty one, and one whose last sector lies behind the low sectors.       *)
Root == << Entry(abc, <<3, 4>>, 3), Short(Entry(<<"s">>, <<5>>, 1)),
           Dir(<<"d">>, 6), Entry(<<"e", "e", "e">>, <<7>>, 1) >>
Sub == << Short(Dir(<<".">>, 6)), Short(Dir(<<".", ".">>, 2)),
          Entry(<<"f">>, <<8, 9>>, 4), Entry(<<"z">>, <<>>, 0),
          Entry(<<"g">>, <<10, 11>>, 3) >>

(* Names that fill their long name entries, behind another and alone. *)
FullRoot == << Entry(abc, <<3, 4>>, 3), Entry(ab, <<5>>, 2), Dir(<<"d">>, 6) >>
FullSub == << Entry(ab, <<8>>, 1), Entry(abe, <<9>>, 1) >>

(* A name completed by the tail of another to that of a third; a directory *)
(* with a file of its own name.                                            *)
StaleRoot == << Entry(<<"x", "x", "c">>, <<3>>, 1), Entry(ab, <<5>>, 2),
                Entry(abc, <<4>>, 1) >>
OwnRoot == << Dir(<<"d">>, 6), Entry(abc, <<3>>, 2) >>
OwnSub == << Short(Dir(<<".">>, 6)), Short(Dir(<<".", ".">>, 2)),
             Entry(<<"d">>, <<7>>, 1), Entry(<<"f">>, <<8>>, 1) >>

(* A file with an entry in the second sector of the FAT; a name of so many *)
(* parts that the order of some of them is cut.                            *)
long == <<"a", "a", "a", "a", "a", "a", "a", "a", "a", "a", "a", "a", "a", "a", "a">>
LongRoot == << Entry(abc, <<5, 4>>, 3), Entry(long, <<9>>, 1) >>

Volume(per_cluster, root, sub) ==
    [hidden |-> 1, reserved |-> 3, fats |-> 3, per_cluster |-> per_cluster,
     root |-> 2, dirs |-> (2 :> root @@ 6 :> sub)]

SomeVolumes == { [Volume(1, Sub, Root) EXCEPT !.root = 6], Volume(1, <<>>, FullSub),
                 Volume(1, LongRoot, OwnSub),
                 Volume(1, Root, Sub), Volume(2, Root, Sub),
                 Volume(1, FullRoot, FullSub), Volume(1, StaleRoot, FullSub),
                 Volume(1, OwnRoot, OwnSub), Volume(4, OwnRoot, OwnSub) }

SomePaths == { <<abc>>, <<ab>>, <<<<"s">>>>, <<<<"e", "e", "e">>>>, <<<<"x">>>>, <<<<"d">>>>,
               <<abc, <<"f">>>>, <<<<"d">>, <<"f">>>>, <<<<"d">>, <<"z">>>>,
               <<<<"d">>, <<"g">>>>, <<<<"d">>, ab>>, <<<<"d">>, abe>>, <<<<"z">>>>, <<<<"g">>>> }

(* The buffer holds zeros, other bytes, a name looked up before, or a tail *)
(* that completes a name.                                                  *)
Buffer(chars, fill) ==
    [k \in 0 .. NAME_SIZE - 1 |-> IF k < Len(chars) THEN chars[k + 1] ELSE fill]
SomeGarbage == { Buffer(<<>>, NUL), Buffer(<<>>, Junk), Buffer(<<"z">>, NUL),
                 Buffer(<<"f">>, NUL), Buffer(<<Junk, Junk, "e", NUL>>, Junk) }

SomeBehind == { <<>>, <<Junk>>, <<"f">> }

SomeEntries == { <<>>, << [lfn |-> FALSE, dir |-> TRUE, size |-> 0, cluster |-> 2] >>,
                 << [lfn |-> TRUE, order |-> 1, chars |-> <<"f", NUL>>],
                    [lfn |-> FALSE, dir |-> FALSE, size |-> 5, cluster |-> 9] >>,
                 << [lfn |-> TRUE, order |-> 0, chars |-> <<"f", NUL>>],
                    [lfn |-> FALSE, dir |-> FALSE, size |-> 3, cluster |-> 0] >> }

Stale5(hidden, reserved, fats, per_cluster, bytes) ==
    [hidden |-> hidden, reserved |-> reserved, fats |-> fats,
     per_cluster |-> per_cluster, bytes |-> bytes]
SomeGeometry == { Stale5(0, 0, 0, 0, 0), Stale5(1, 3, 3, 0, 2), Stale5(7, 0, 0, 4, 1),
                  Stale5(1, 3, 3, 1, 3), Stale5(0, 9, 1, 1, 1), Stale5(1, 3, 3, 1, 0) }
=============================================================================
