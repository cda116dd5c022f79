------------------------------ MODULE MCListing ------------------------------
EXTENDS StudIp

\* Two branches, one of them three folders deep.
Tree == [f \in Folders |-> CASE f = "r" -> {"a", "b"}
                             [] f = "a" -> {"c", "d"}
                             [] f = "c" -> {"e"}
                             [] OTHER -> {}]

\* Stud.IP's two requests per folder.
Both == <<"files", "subfolders">>

\* The server says what is so, or it says something that does not add up: a
\* second top folder, a circle, a file in a folder it does not list.
Above == [f \in Folders |-> IF f = "r" THEN "" ELSE CHOOSE g \in Folders : f \in Tree[g]]
Where == [x \in SiFiles |-> IF x = "x1" THEN "a" ELSE "r"]
Shapes == {[folder |-> Above, file |-> Where],
           [folder |-> [Above EXCEPT !["b"] = ""], file |-> Where],
           [folder |-> [Above EXCEPT !["c"] = "e"], file |-> Where],
           [folder |-> Above, file |-> [Where EXCEPT !["x2"] = ""]]}

\* Top folder first or last.
Orders == {<<"r", "a", "b", "c", "d", "e">>, <<"e", "d", "c", "b", "a", "r">>}
AtFirst == <<"x1", "x2", "x3">>
=============================================================================
