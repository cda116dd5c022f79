---------------------------- MODULE MCSyncEngine ----------------------------
EXTENDS SyncEngine

\* Files "a" and "b" at the root of the course and room for conflicted copies.
FlatCopies == [k \in Keys |-> CASE k = "a" -> <<"a.c", "a.c2", "a.c3">>
                                [] k = "b" -> <<"b.c", "b.c2", "b.c3">>
                                [] k = "a.c" -> <<"a.c.c">>
                                [] OTHER -> <<>>]
FlatParent == [k \in Keys |-> Root]
FlatAbove == [k \in Keys |-> {}]

\* A folder "d" with a folder "e" in it, a file in each.
NestedCopies == [k \in Keys |-> CASE k = "d/x" -> <<"d/x.c", "d/x.c2", "d/x.c3">>
                                  [] k = "d/e/y" -> <<"d/e/y.c", "d/e/y.c2", "d/e/y.c3">>
                                  [] OTHER -> <<>>]
InInner == {"d/e/y", "d/e/y.c", "d/e/y.c2", "d/e/y.c3"}
NestedParent == [x \in Keys \cup Dirs |->
                    IF x = "d" THEN Root ELSE IF x \in InInner THEN "d/e" ELSE "d"]
NestedAbove == [x \in Keys \cup Dirs |->
                    IF x = "d" THEN {} ELSE IF x \in InInner THEN {"d", "d/e"} ELSE {"d"}]

\* Every version has a size of its own; every move happens in a second of its own.
DistinctSizes == [v \in Versions |-> v]
OwnSecond == [n \in Moves |-> n]
=============================================================================
