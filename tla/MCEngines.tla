----------------------------- MODULE MCEngines -----------------------------
(***************************************************************************)
(* Programs whose function f nests try, loop and switch statements two and *)
(* three deep, with every way of leaving a part of them, called by four    *)
(* kinds of main program.                                                  *)
(***************************************************************************)
EXTENDS Engines

CONSTANTS
    AllJumps,    \* also jumps out of try and finally blocks
    AllNames     \* also a try in a catch block with that block's catch variable

Jumps == {Return(3), Break, Continue}

(* Parts of an inner try statement: each may or may not leave it. *)
TryParts == {<<If(<<s>>), Say(1)>> : s \in {Throw(2), Fail} \cup Jumps}
CatchParts(n) == {<<SayVar(n), If(<<s>>)>> : s \in {Throw(4)} \cup Jumps}
FinallyParts == {<<Say(9)>>} \cup {<<Say(9), If(<<s>>)>> : s \in {Throw(4)} \cup Jumps}

Tries ==
    {Try(a, "e", b, c) : a \in TryParts, b \in CatchParts("e") \cup {NoBlock},
                         c \in FinallyParts \cup {NoBlock}}

(* The same with the catch variable of the outermost statement. *)
SameName == {Try(<<If(<<Fail>>), Say(1)>>, "x", b, NoBlock) : b \in CatchParts("x")}

Inner ==
    {s \in Tries : s.b # NoBlock \/ s.c # NoBlock} \cup SameName
        \cup {While(a) : a \in TryParts} \cup {For(a) : a \in TryParts}
        \cup {Foreach("i", <<SayVar("i")>> \o a) : a \in TryParts}
        \cup {Switch(a, <<Break>>) : a \in TryParts}

(* One statement around a block; n is its catch variable. *)
Around(b, n) ==
    {b, <<While(b \o <<Say(1)>>)>>, <<For(b \o <<Say(1)>>)>>,
     <<Foreach("i", b \o <<SayVar("i")>>)>>,
     <<Switch(b \o <<Say(1)>>, <<Say(9)>>)>>,
     <<Try(b, n, <<SayVar(n)>>, NoBlock)>>,
     <<Try(b, n, NoBlock, <<Say(1)>>)>>,
     <<Try(<<Throw(2)>>, n, b \o <<SayVar(n)>>, <<Say(1)>>)>>,
     <<Try(<<If(<<Throw(2)>>)>>, n, NoBlock, b)>>}

(* A jump that nothing around it receives gets a loop. *)
Looped(b) == IF JumpsOf(b) \subseteq {"return"} THEN b ELSE <<For(b)>>

Nested == UNION {Around(b, "x") : b \in UNION {Around(<<s>>, "y") : s \in Inner}}

Included(b) ==
    /\ AllJumps \/ ContainedBlock(b)
    /\ AllNames \/ DistinctBlock(b)

Bodies == {Looped(b) : b \in {c \in Nested : Included(c)}}

Mains ==
    {<<Call, Throw(2)>>,
     <<Try(<<Call, Fail>>, "e", <<SayVar("e")>>, NoBlock), Say(1)>>,
     <<Try(<<Transaction>>, "e", <<SayVar("e")>>, NoBlock), Throw(4)>>,
     <<Transaction, Call>>}

MCPrograms ==
    {p \in {[main |-> m, f |-> b] : m \in Mains, b \in Bodies} : AllJumps \/ Contained(p)}
=============================================================================
