----------------------------- MODULE MCContext -----------------------------
(* Small program graphs for Context.  Each has the kinds of entity that the *)
(* C# extractor has: a type, a method whose body is extracted later, a      *)
(* local variable of that body, an array type whose constructor creates its *)
(* element type, a location whose constructor creates its file.             *)
EXTENDS Context

Entities == {"type", "method", "field", "parameter", "local", "array", "location", "place",
             "file", "comment"}

Behaviours == [e \in Entities |->
  CASE e \in {"type", "array", "file", "comment"}    -> "NoLabel"
    [] e \in {"method", "field"}                     -> "PushesLabel"
    [] e = "local"                                   -> "NeedsLabel"
    [] e \in {"parameter", "location", "place"}      -> "OptionalLabel"]

\* The other entities that a section of an entity's code creates.
Creates(e, s) ==
  CASE <<e, s>> = <<"type", "populate">>      -> {"array", "location"}
    [] <<e, s>> = <<"method", "id">>          -> {"type", "array"}
    [] <<e, s>> = <<"method", "location">>    -> {"location"}
    [] <<e, s>> = <<"method", "populate">>    -> {"parameter", "location"}
    [] <<e, s>> = <<"method", "later">>       -> {"local", "field"}
    [] <<e, s>> = <<"field", "id">>           -> {"type"}
    [] <<e, s>> = <<"field", "populate">>     -> {"type"}
    [] <<e, s>> = <<"parameter", "id">>       -> {"array", "method"}
    [] <<e, s>> = <<"array", "new">>          -> {"type"}
    [] <<e, s>> = <<"array", "id">>           -> {"type"}
    [] e \in {"location", "place"}
         /\ s \in {"new", "id"}               -> {"file"}
    [] e = "comment" /\ s \in {"id", "populate"} -> {"place"}
    [] OTHER                                  -> {}

Graph == [e \in Entities |-> [s \in Section |-> Creates(e, s)]]

\* A class that derives from a type constructed over an array of the next class.
ArrayFirst == <<{"file"}, {"array"}, {"type", "method"}>>

\* A method whose id mentions types that nothing has created yet.
MethodFirst == <<{"file"}, {"method"}, {"type"}>>

\* The visits of a compilation unit after that of its file.
Nodes == {2, 3}

\* The file belongs to another trap file.
Described == Entities \ {"file"}

NoFaults == {}

SomeFaults == {<<"type", "populate">>, <<"method", "location">>, <<"method", "populate">>,
               <<"method", "id">>, <<"method", "later">>, <<"array", "new">>, <<"place", "new">>,
               <<NoEntity, "member">>, <<NoEntity, "comments">>}

Reported == {"place"}

Commented == {"comment"}

InSecondCache == {"location", "place", "parameter"}
=============================================================================
