---------------------------- MODULE MCTaskBuffers ----------------------------
(* Instances of TaskBuffers for TLC. *)
EXTENDS TaskBuffers

MCSpecs == {1, 2, 3}
MCMinQueue == [s \in MCSpecs |-> 1]
MCMaxQueue == [s \in MCSpecs |-> IF s = 1 THEN 2 ELSE 1]

Plain == [id |-> <<1, 2>>, in |-> <<<<>>, <<1>>>>, out |-> <<<<1>>, <<2>>>>]

\* One buffer for three tasks: two of them can occupy both workers while the
\* third one keeps the buffer between its nodes.
Narrow == [id |-> <<1, 2>>, in |-> <<<<>>, <<2>>>>, out |-> <<<<2>>, <<>>>>]

\* Two outputs at once, popped in one order and in the other.
Both == [id |-> <<1>>, in |-> <<<<>>>>, out |-> <<<<2, 3>>>>]
Reversed == [id |-> <<1>>, in |-> <<<<>>>>, out |-> <<<<3, 2>>>>]

\* Declarations that do not fit: a name twice, a node with the identifier 0,
\* an output nobody declares as input and an input nobody gives.
Twice == [id |-> <<1, 2>>, in |-> <<<<>>, <<1, 1>>>>, out |-> <<<<1, 1>>, <<>>>>]
Zero == [id |-> <<1, 0>>, in |-> <<<<>>, <<1>>>>, out |-> <<<<1>>, <<2>>>>]
Loose == [id |-> <<1, 2>>, in |-> <<<<>>, <<2>>>>, out |-> <<<<1>>, <<>>>>]

MCMixes == {<<Plain, Plain, Plain>>, <<Plain, Plain, Twice>>, <<Plain, Zero, Loose>>,
            <<Narrow, Narrow, Narrow>>, <<Plain, Both, Reversed>>}
=============================================================================
