---------------------------- MODULE MCTypeTable ----------------------------
(* A small program for TypeTable.  Generic0, Generic1, Generic2 and Generic3 *)
(* are instances of an expanding interface: each has a signature that        *)
(* returns the next.  The class Inner is nested in Outer, which extends it.  *)
(* The string of Function nests so deep that its constraint is left out.     *)
EXTENDS TypeTable

CONSTANTS Number, Generic0, Generic0b, Generic1, Generic2, Generic3, Inline, Function, Name,
          Mixed, List, Loop, Odd, Crash,
          Outer, Inner, Foo, Returns0, Returns1, Returns2, Bounded, Code

Types == {Number, Generic0, Generic0b, Generic1, Generic2, Generic3, Inline, Function, Name,
          Mixed, List, Loop, Odd, Crash}
Symbols == {Outer, Inner, Foo}
Signatures == {Returns0, Returns1, Returns2, Bounded}
Items == Types \cup Symbols \cup Signatures \cup {Code}

\* Generic0b is the object of another compiler for the type Generic0.  Odd is not supported.
Tags == [x \in Items |->
  CASE x = Generic0b -> <<"tag", Generic0>>
    [] x = Odd       -> None
    [] OTHER         -> <<"tag", x>>]

PartsOf == [x \in Items |->
  CASE x \in {Generic0, Generic0b} -> <<Foo, Number>>
    [] x = Generic1 -> <<Foo, Generic0>>
    [] x = Generic2 -> <<Foo, Generic1>>
    [] x = Generic3 -> <<Foo, Generic2>>
    [] x = Inline   -> <<Generic1>>         \* { bar: Generic1 }
    [] x = Function -> <<Bounded>>          \* { <T extends List>(): number }
    [] x = Name     -> <<Outer>>            \* the alias of Function in Outer
    [] x = Mixed    -> <<Name, Generic1>>   \* a union
    [] x = List     -> <<Mixed>>            \* Mixed[]
    [] x = Loop     -> <<Loop>>             \* { x: { x: ... } }
    [] x = Foo      -> <<Code>>
    [] x = Outer    -> <<Code>>
    [] x = Inner    -> <<Outer>>
    [] x = Returns0 -> <<Generic1>>
    [] x = Returns1 -> <<Generic2>>
    [] x = Returns2 -> <<Generic3>>
    [] x = Bounded  -> <<Number, List>>
    [] OTHER        -> <<>>]

Constraints == {<<Bounded, 2>>}

Unconstrained == Items \ {Bounded, Function}

Follows == [x \in Items |->
  CASE x = Name  -> <<Outer>>
    [] x = Outer -> <<Inner>>
    [] OTHER     -> <<>>]

MembersOf == [t \in Types |->
  CASE t \in {Generic0, Generic0b} -> <<Returns0, None, Inline>>
    [] t \in {Generic1, Inline}    -> <<Returns1>>
    [] t = Generic2 -> <<Returns2>>
    [] t = Function -> <<Bounded, Loop>>
    [] t = Name     -> <<Function>>
    [] t = Mixed    -> <<Crash, Odd>>
    [] OTHER        -> <<>>]
=============================================================================
